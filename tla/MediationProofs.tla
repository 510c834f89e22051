--------------------------- MODULE MediationProofs ----------------------------
(***************************************************************************)
(* Proofs about mediation coordination and message pickup, for every value *)
(* of the constants: the types of all records, messages and copies, that   *)
(* the recipient never regards mediation as granted where the mediator     *)
(* does not, that only calls that race leave two default mediators, that   *)
(* the keys handed out are routed, and that no message that the mediator   *)
(* has accepted for the recipient is lost.                                 *)
(*                                                                         *)
(* A grant is matched to a record by the connection it came over, not by   *)
(* its thread, and records are written whole from copies read before.  So  *)
(* MediationInv says what every message in flight and every copy stands    *)
(* for, and that a message and the record it is matched to belong together.*)
(* DefaultInv adds what a call that sets the default has yet to clear, and *)
(* RoutedInv which updates can end the wait of a call.                     *)
(*                                                                         *)
(* A confirmation takes messages from the queue by their number.  RoundInv *)
(* says that, until rounds of pickup overlap, those are messages that the  *)
(* recipient has.                                                          *)
(***************************************************************************)
EXTENDS Mediation, MessagePickup, WellFoundedInduction, SequenceTheorems, FiniteSetTheorems, TLAPS

-------------------------------------------------------------------------------
(* Keylists *)

\* A nonempty set of natural numbers has a least element.
LEMMA MinIsElement ==
  ASSUME NEW S, S \subseteq Nat, S # {}
  PROVE  Min(S) \in S
<1>1. PICK x \in S : \A y \in S : <<y, x>> \notin OpToRel(<, Nat)
  BY NatLessThanWellFounded, WFMin
<1>2. \A y \in S : x =< y
  <2> TAKE y \in S
  <2>1. ~(y < x)
    BY <1>1 DEF OpToRel
  <2> QED BY <2>1
<1> QED BY <1>2 DEF Min

\* What is left of a sequence without the first occurrence of an element.
LEMMA RemoveFirstType ==
  ASSUME NEW S, NEW s \in Seq(S), NEW e
  PROVE  RemoveFirst(s, e) \in Seq(S)
<1> DEFINE I == {i \in 1 .. Len(s) : s[i] = e}
           k == Min(I)
<1>1. CASE \E i \in 1 .. Len(s) : s[i] = e
  <2>1. I # {} /\ I \subseteq Nat
    BY <1>1
  <2>2. k \in 1 .. Len(s)
    BY <2>1, MinIsElement
  <2>3. SubSeq(s, 1, k - 1) \in Seq(S) /\ SubSeq(s, k + 1, Len(s)) \in Seq(S)
    <3> HIDE DEF k
    <3> QED BY <2>2
  <2>4. RemoveFirst(s, e) = SubSeq(s, 1, k - 1) \o SubSeq(s, k + 1, Len(s))
    BY <1>1, <2>1 DEF RemoveFirst, RemoveAt, SelectInSeq
  <2> HIDE DEF k
  <2> QED BY <2>3, <2>4
<1>2. CASE ~ \E i \in 1 .. Len(s) : s[i] = e
  BY <1>2 DEF RemoveFirst
<1> QED BY <1>1, <1>2

\* A keylist stays a list of keys (addRecipientKey, removeRecipientKey).
LEMMA ApplyUpdateType ==
  ASSUME NEW keys \in Seq(RoutingKeys), NEW update \in KeylistUpdates
  PROVE  ApplyUpdate(keys, update) \in Seq(RoutingKeys)
BY RemoveFirstType DEF ApplyUpdate, KeylistUpdates

-------------------------------------------------------------------------------
(* The invariant *)

\* The mediator has granted the request with this id.
IsGranted(id) == served[id] # Nothing /\ served[id].state = "granted"

\* A record, or a copy of it, that belongs to the request with this id.
Agrees(id, record) ==
  /\ record \in RecipientRecordType
  /\ mediations[id] # Nothing /\ record.mediator = mediations[id].mediator
  /\ record.state = "granted" => IsGranted(id)

\* A message that is answered by request, or carries an update.
SoundMessage(msg) ==
  IF msg.update = Nothing
  THEN /\ msg.type \in {"mediate-request", "mediate-grant", "mediate-deny"}
       /\ msg.id \in MediationIds
       /\ mediations[msg.id] # Nothing /\ mediations[msg.id].mediator = msg.mediator
       /\ msg.type = "mediate-request" => served[msg.id] = Nothing
       /\ msg.type = "mediate-grant" => IsGranted(msg.id)
  ELSE msg.type \in {"keylist-update", "keylist-update-response"}

\* The handler holds the record of the request that its message is about.
SoundHandling ==
  handling.message # Nothing =>
    /\ handling.id \in MediationIds /\ Agrees(handling.id, handling.read)
    /\ handling.message.type \in {"mediate-grant", "mediate-deny", "keylist-update-response"}
    /\ handling.message.type = "mediate-grant" => IsGranted(handling.id)
    /\ handling.message.type = "keylist-update-response" => handling.message.update # Nothing

\* A call that has records to write has copies of them.
SoundCall(call) ==
  /\ call.pc # "idle" => call.id \in MediationIds
  /\ call.pc \in {"clearDefaults", "saveStrategy"} => Agrees(call.id, call.copy)
  /\ \A id \in MediationIds : call.defaults[id] # Nothing => Agrees(id, call.defaults[id])

MediationInv ==
  /\ MediationTypeOK
  /\ \A id \in MediationIds : mediations[id] # Nothing => Agrees(id, mediations[id])
  /\ \A id \in MediationIds : served[id] # Nothing =>
       mediations[id] # Nothing /\ served[id].mediator = mediations[id].mediator
  /\ \A msg \in mediationNet : SoundMessage(msg)
  /\ SoundHandling
  /\ \A c \in MediationCallers : SoundCall(awaiting[c])

-------------------------------------------------------------------------------
(* What steps keep *)

\* Records stay, with their mediator, and a grant is not taken back.
Onward ==
  \A id \in MediationIds :
    /\ mediations[id] # Nothing =>
         mediations'[id] # Nothing /\ mediations'[id].mediator = mediations[id].mediator
    /\ IsGranted(id) => IsGranted(id)'

\* So what a record or a copy stands for stays true.
LEMMA AgreesStays ==
  ASSUME Onward, NEW id \in MediationIds, NEW record, Agrees(id, record)
  PROVE  Agrees(id, record)'
BY DEF Onward, Agrees, IsGranted

\* ... of a call,
LEMMA SoundCallStays ==
  ASSUME Onward, NEW call, SoundCall(call)
  PROVE  SoundCall(call)'
<1>1. call.pc \in {"clearDefaults", "saveStrategy"} => Agrees(call.id, call.copy)'
  BY AgreesStays DEF SoundCall
<1>2. \A id \in MediationIds : call.defaults[id] # Nothing => Agrees(id, call.defaults[id])'
  BY AgreesStays DEF SoundCall
<1> QED BY <1>1, <1>2 DEF SoundCall

\* ... of a message, but for the request that is served,
LEMMA SoundMessageStays ==
  ASSUME Onward, NEW msg, SoundMessage(msg),
         msg.type = "mediate-request" /\ msg.update = Nothing => served'[msg.id] = Nothing
  PROVE  SoundMessage(msg)'
BY DEF Onward, SoundMessage, IsGranted

\* ... and of the handler.
LEMMA SoundHandlingStays ==
  ASSUME Onward, SoundHandling, UNCHANGED handling
  PROVE  SoundHandling'
<1>1. handling.message # Nothing => Agrees(handling.id, handling.read)'
  BY AgreesStays DEF SoundHandling
<1> QED BY <1>1 DEF SoundHandling, Onward, IsGranted

\* A step that changes neither kind of record, and only forgets or adds sound messages.
LEMMA Unwritten ==
  ASSUME MediationInv, UNCHANGED <<mediations, served>>
  PROVE  /\ Onward
         /\ \A id \in MediationIds : mediations'[id] # Nothing => Agrees(id, mediations[id])'
         /\ \A id \in MediationIds : served'[id] # Nothing =>
              mediations'[id] # Nothing /\ served'[id].mediator = mediations'[id].mediator
         /\ \A msg \in mediationNet : SoundMessage(msg)'
         /\ UNCHANGED handling => SoundHandling'
<1>1. Onward
  BY DEF Onward, IsGranted
<1>2. \A id \in MediationIds : mediations'[id] # Nothing => Agrees(id, mediations[id])'
  BY DEF MediationInv, Agrees, IsGranted
<1>3. \A msg \in mediationNet : SoundMessage(msg)'
  BY <1>1, SoundMessageStays DEF MediationInv, SoundMessage
<1>4. UNCHANGED handling => SoundHandling'
  BY <1>1, SoundHandlingStays DEF MediationInv
<1> QED BY <1>1, <1>2, <1>3, <1>4 DEF MediationInv

\* One record is written whole, by a step that leaves the mediator alone.
LEMMA WrittenKeeps ==
  ASSUME MediationInv, NEW id \in MediationIds, NEW record,
         Agrees(id, record), UNCHANGED served,
         mediations' = [mediations EXCEPT ![id] = record]
  PROVE  /\ mediations' \in [MediationIds -> RecipientRecordType \cup {Nothing}]
         /\ Onward
         /\ \A i \in MediationIds : mediations'[i] # Nothing => Agrees(i, mediations[i])'
         /\ \A i \in MediationIds : served'[i] # Nothing =>
              mediations'[i] # Nothing /\ served'[i].mediator = mediations'[i].mediator
         /\ \A msg \in mediationNet : SoundMessage(msg)'
         /\ UNCHANGED handling => SoundHandling'
<1>0. record \in RecipientRecordType /\ record # Nothing
  BY MediationAssumption DEF Agrees
<1>1. mediations' \in [MediationIds -> RecipientRecordType \cup {Nothing}]
  BY <1>0 DEF MediationInv, MediationTypeOK
<1>2. \A i \in MediationIds : mediations'[i] = IF i = id THEN record ELSE mediations[i]
  BY DEF MediationInv, MediationTypeOK
<1>3. Onward
  BY <1>0, <1>2 DEF Onward, Agrees, IsGranted
<1>4. \A i \in MediationIds : mediations'[i] # Nothing => Agrees(i, mediations[i])'
  BY <1>0, <1>2 DEF MediationInv, Agrees, IsGranted
<1>5. \A i \in MediationIds : served'[i] # Nothing =>
         mediations'[i] # Nothing /\ served'[i].mediator = mediations'[i].mediator
  BY <1>3 DEF MediationInv, Onward
<1>6. \A msg \in mediationNet : SoundMessage(msg)'
  BY <1>3, SoundMessageStays DEF MediationInv, SoundMessage
<1>7. UNCHANGED handling => SoundHandling'
  BY <1>3, SoundHandlingStays DEF MediationInv
<1> QED BY <1>1, <1>3, <1>4, <1>5, <1>6, <1>7

\* Calls go on, one of them with another step to come.
LEMMA CallsGoOn ==
  ASSUME MediationInv, Onward,
         \/ UNCHANGED awaiting
         \/ \E c \in MediationCallers : \E call \in CallType : SoundCall(call)' /\ Continues(c, call)
  PROVE  /\ awaiting' \in [MediationCallers -> CallType]
         /\ \A c \in MediationCallers : SoundCall(awaiting[c])'
<1>1. CASE UNCHANGED awaiting
  BY <1>1, SoundCallStays DEF MediationInv, MediationTypeOK
<1>2. CASE \E c \in MediationCallers : \E call \in CallType : SoundCall(call)' /\ Continues(c, call)
  <2>1. PICK c \in MediationCallers, call \in CallType : SoundCall(call)' /\ Continues(c, call)
    BY <1>2
  <2>2. /\ awaiting' \in [MediationCallers -> CallType]
        /\ \A d \in MediationCallers : awaiting'[d] = IF d = c THEN call ELSE awaiting[d]
    BY <2>1 DEF Continues, MediationInv, MediationTypeOK
  <2>3. \A d \in MediationCallers : SoundCall(awaiting[d])'
    <3> TAKE d \in MediationCallers
    <3>1. CASE d = c
      <4>1. awaiting'[d] = call
        BY <2>2, <3>1
      <4> QED BY <2>1, <4>1 DEF SoundCall
    <3>2. CASE d # c
      <4>1. SoundCall(awaiting[d]) /\ awaiting'[d] = awaiting[d]
        BY <2>2, <3>2 DEF MediationInv
      <4>2. \A call0 : SoundCall(call0) => SoundCall(call0)'
        BY SoundCallStays
      <4> QED BY <4>1, <4>2 DEF SoundCall
    <3> QED BY <3>1, <3>2
  <2> QED BY <2>2, <2>3
<1> QED BY <1>1, <1>2

\* A call has nothing to write: it is over, or only waits.
Waits(call) ==
  call \in CallType /\ call.pc \notin {"clearDefaults", "saveStrategy"} /\ call.defaults = NoDefaults

LEMMA WaitsIsSound ==
  /\ NoDefaults \in [MediationIds -> RecipientRecordType \cup {Nothing}]
  /\ Waits(NoCall) /\ SoundCall(NoCall)'
  /\ \A call : Waits(call) /\ call.id \in MediationIds => SoundCall(call)'
BY DEF Waits, NoDefaults, NoCall, CallType, SoundCall

\* The calls of a behaviour are counted.
LEMMA StartsCounts ==
  ASSUME MediationInv, NEW c \in MediationCallers, Starts(c)
  PROVE  made' \in 0 .. MaxMediationCalls
<1>1. made \in 0 .. MaxMediationCalls
  BY DEF MediationInv, MediationTypeOK
<1> QED BY <1>1, MediationAssumption DEF Starts

\* A step that writes no record, and sends or forgets sound messages.
LEMMA QuietKeeps ==
  ASSUME MediationInv, UNCHANGED <<mediations, served, raced>>,
         mediationNet' \subseteq MediationMessageType,
         \A msg \in mediationNet' : msg \in mediationNet \/ SoundMessage(msg)',
         UNCHANGED handling \/ SoundHandling',
         handling' \in [message : MediationMessageType \cup {Nothing}, id : MediationIds \cup {Nothing},
                       read : RecipientRecordType \cup {Nothing}],
         \/ UNCHANGED awaiting
         \/ \E c \in MediationCallers : \E call \in CallType : SoundCall(call)' /\ Continues(c, call),
         handed' \subseteq RoutingKeys, shared' \subseteq RoutingKeys,
         made' \in 0 .. MaxMediationCalls
  PROVE  MediationInv'
<1>1. Onward
  BY Unwritten
<1>2. /\ awaiting' \in [MediationCallers -> CallType]
      /\ \A d \in MediationCallers : SoundCall(awaiting[d])'
  BY <1>1, CallsGoOn
<1>3. MediationTypeOK'
  BY <1>2 DEF MediationInv, MediationTypeOK
<1>4. /\ \A id \in MediationIds : mediations'[id] # Nothing => Agrees(id, mediations[id])'
      /\ \A id \in MediationIds : served'[id] # Nothing =>
           mediations'[id] # Nothing /\ served'[id].mediator = mediations'[id].mediator
      /\ \A msg \in mediationNet' : SoundMessage(msg)'
      /\ SoundHandling'
  BY Unwritten
<1> QED BY <1>2, <1>3, <1>4 DEF MediationInv

\* A step of the recipient that writes one record whole.
LEMMA WritingKeeps ==
  ASSUME MediationInv, NEW id \in MediationIds, NEW record, Agrees(id, record),
         mediations' = [mediations EXCEPT ![id] = record], UNCHANGED <<served, mediationNet>>,
         UNCHANGED handling \/ handling' = NotHandling,
         awaiting' \in [MediationCallers -> CallType],
         \A c \in MediationCallers : SoundCall(awaiting[c])',
         handed' \subseteq RoutingKeys, UNCHANGED shared,
         raced' \subseteq {"lost update", "two setters"}, made' \in 0 .. MaxMediationCalls
  PROVE  MediationInv'
<1>1. /\ mediations' \in [MediationIds -> RecipientRecordType \cup {Nothing}]
      /\ \A i \in MediationIds : mediations'[i] # Nothing => Agrees(i, mediations[i])'
      /\ \A i \in MediationIds : served'[i] # Nothing =>
           mediations'[i] # Nothing /\ served'[i].mediator = mediations'[i].mediator
      /\ \A msg \in mediationNet : SoundMessage(msg)'
      /\ UNCHANGED handling => SoundHandling'
  BY WrittenKeeps
<1>2. /\ SoundHandling'
      /\ handling' \in [message : MediationMessageType \cup {Nothing}, id : MediationIds \cup {Nothing},
                       read : RecipientRecordType \cup {Nothing}]
  <2>1. CASE UNCHANGED handling
    BY <1>1, <2>1 DEF MediationInv, MediationTypeOK
  <2>2. CASE handling' = NotHandling
    BY <2>2 DEF SoundHandling, NotHandling
  <2> QED BY <2>1, <2>2
<1>4. MediationTypeOK'
  BY <1>1, <1>2 DEF MediationInv, MediationTypeOK
<1>5. \A msg \in mediationNet' : SoundMessage(msg)'
  BY <1>1
<1> QED BY <1>1, <1>2, <1>4, <1>5 DEF MediationInv

\* What Write does.
LEMMA WriteChanges ==
  ASSUME MediationInv, NEW id, NEW read, NEW record, Write(id, read, record)
  PROVE  /\ mediations' = [mediations EXCEPT ![id] = record]
         /\ raced' \subseteq {"lost update", "two setters"}
BY DEF Write, MediationInv, MediationTypeOK

-------------------------------------------------------------------------------
(* Requests *)

LEMMA SendRequestKeeps ==
  ASSUME MediationInv, NEW c \in MediationCallers, NEW m \in Mediators,
         NEW call, Waits(call), Starts(c), SendRequest(c, m, call)
  PROVE  MediationInv'
<1> DEFINE new == [mediator |-> m, state |-> "requested", keys |-> <<>>, default |-> FALSE,
                   strategy |-> Nothing]
<1>1. PICK id \in MediationIds :
        /\ mediations[id] = Nothing
        /\ mediations' = [mediations EXCEPT ![id] = new]
        /\ mediationNet' = mediationNet \cup {RequestMessage(m, id)}
        /\ Continues(c, [call EXCEPT !.id = id])
        /\ UNCHANGED <<served, handling, handed, shared, raced>>
  BY DEF SendRequest, FreshMediationId
<1>2. new \in RecipientRecordType /\ new # Nothing
  <2>1. new \in RecipientRecordType
    BY DEF RecipientRecordType, MediationStates
  <2> QED BY <2>1, MediationAssumption
<1>3. /\ mediations' \in [MediationIds -> RecipientRecordType \cup {Nothing}]
      /\ \A i \in MediationIds : mediations'[i] = IF i = id THEN new ELSE mediations[i]
  BY <1>1, <1>2 DEF MediationInv, MediationTypeOK
<1>4. Onward
  BY <1>1, <1>3 DEF Onward, IsGranted
<1>5. served[id] = Nothing
  BY <1>1 DEF MediationInv
<1>6. \A i \in MediationIds : mediations'[i] # Nothing => Agrees(i, mediations[i])'
  <2> TAKE i \in MediationIds
  <2>1. CASE i = id
    BY <1>2, <1>3, <2>1 DEF Agrees
  <2>2. CASE i # id
    BY <1>1, <1>3, <2>2 DEF MediationInv, Agrees, IsGranted
  <2> QED BY <2>1, <2>2
<1>7. \A i \in MediationIds : served'[i] # Nothing =>
         mediations'[i] # Nothing /\ served'[i].mediator = mediations'[i].mediator
  BY <1>1, <1>3, <1>4, <1>5 DEF MediationInv, Onward
<1>8. /\ RequestMessage(m, id) \in MediationMessageType
      /\ SoundMessage(RequestMessage(m, id))'
  BY <1>1, <1>2, <1>3, <1>5 DEF RequestMessage, MediationMessageType, SoundMessage
<1>9. \A msg \in mediationNet : SoundMessage(msg)'
  BY <1>1, <1>4, SoundMessageStays DEF MediationInv, SoundMessage
<1>10. \A msg \in mediationNet' : SoundMessage(msg)'
  <2> TAKE msg \in mediationNet'
  <2>1. CASE msg \in mediationNet
    BY <1>9, <2>1
  <2>2. CASE msg = RequestMessage(m, id)
    BY <1>8, <2>2
  <2> QED BY <1>1, <2>1, <2>2
<1>11. SoundHandling'
  BY <1>1, <1>4, SoundHandlingStays DEF MediationInv
<1>12. /\ awaiting' \in [MediationCallers -> CallType]
       /\ \A d \in MediationCallers : SoundCall(awaiting[d])'
  <2> DEFINE next == [call EXCEPT !.id = id]
  <2>1. Waits(next) /\ next.id \in MediationIds
    BY DEF Waits, CallType
  <2>2. next \in CallType /\ SoundCall(next)'
    BY <2>1, WaitsIsSound DEF Waits
  <2> QED BY <1>1, <1>4, <2>2, CallsGoOn
<1>13. MediationTypeOK'
  <2>1. mediationNet' \subseteq MediationMessageType
    BY <1>1, <1>8 DEF MediationInv, MediationTypeOK
  <2>2. made' \in 0 .. MaxMediationCalls
    BY StartsCounts
  <2> QED BY <1>1, <1>3, <1>12, <2>1, <2>2 DEF MediationInv, MediationTypeOK
<1> QED BY <1>6, <1>7, <1>10, <1>11, <1>12, <1>13 DEF MediationInv

LEMMA RequestsKeep ==
  ASSUME MediationInv, NEW c \in MediationCallers, NEW m \in Mediators,
         RequestMediation(c, m) \/ RequestAndAwaitGrant(c, m) \/ Provision(c, m)
  PROVE  MediationInv'
<1>1. Waits(NoCall)
  BY WaitsIsSound
<1>2. /\ Waits([NoCall EXCEPT !.pc = "awaitGrant"])
      /\ Waits([NoCall EXCEPT !.pc = "awaitGrant", !.provision = TRUE])
  BY <1>1 DEF Waits, CallType
<1> QED
  BY <1>1, <1>2, SendRequestKeeps DEF RequestMediation, RequestAndAwaitGrant, Provision

-------------------------------------------------------------------------------
(* The mediator *)

\* The mediator writes its record of a request; what it has granted stays granted.
LEMMA ServingKeeps ==
  ASSUME MediationInv, NEW id \in MediationIds, NEW record \in MediatorRecordType,
         mediations[id] # Nothing, record.mediator = mediations[id].mediator,
         IsGranted(id) => record.state = "granted",
         served' = [served EXCEPT ![id] = record],
         UNCHANGED <<mediations, awaiting, handling, handed, shared, raced, made>>,
         mediationNet' \subseteq MediationMessageType,
         \A msg \in mediationNet' :
           \/ /\ msg \in mediationNet
              /\ msg.type = "mediate-request" /\ msg.update = Nothing => msg.id # id
           \/ SoundMessage(msg)'
  PROVE  MediationInv'
<1>1. record # Nothing
  BY MediationAssumption
<1>2. /\ served' \in [MediationIds -> MediatorRecordType \cup {Nothing}]
      /\ \A i \in MediationIds : served'[i] = IF i = id THEN record ELSE served[i]
  BY DEF MediationInv, MediationTypeOK
<1>3. Onward
  BY <1>1, <1>2 DEF Onward, IsGranted
<1>4. \A i \in MediationIds : mediations'[i] # Nothing => Agrees(i, mediations[i])'
  <2> TAKE i \in MediationIds
  <2> HAVE mediations'[i] # Nothing
  <2>1. Agrees(i, mediations[i])
    BY DEF MediationInv
  <2>2. \A r : Agrees(i, r) => Agrees(i, r)'
    BY <1>3, AgreesStays
  <2> QED BY <2>1, <2>2 DEF Agrees
<1>5. \A i \in MediationIds : served'[i] # Nothing =>
         mediations'[i] # Nothing /\ served'[i].mediator = mediations'[i].mediator
  BY <1>2 DEF MediationInv
<1>6. \A msg \in mediationNet' : SoundMessage(msg)'
  <2> TAKE msg \in mediationNet'
  <2>1. CASE /\ msg \in mediationNet
             /\ msg.type = "mediate-request" /\ msg.update = Nothing => msg.id # id
    <3>1. SoundMessage(msg)
      BY <2>1 DEF MediationInv
    <3>2. msg.type = "mediate-request" /\ msg.update = Nothing => served'[msg.id] = Nothing
      BY <1>2, <2>1, <3>1 DEF SoundMessage
    <3> QED BY <1>3, <3>1, <3>2, SoundMessageStays
  <2> QED BY <2>1
<1>7. SoundHandling'
  BY <1>3, SoundHandlingStays DEF MediationInv
<1>8. /\ awaiting' \in [MediationCallers -> CallType]
      /\ \A c \in MediationCallers : SoundCall(awaiting[c])'
  BY <1>3, CallsGoOn
<1>9. MediationTypeOK'
  BY <1>2, <1>8 DEF MediationInv, MediationTypeOK
<1> QED BY <1>4, <1>5, <1>6, <1>7, <1>8, <1>9 DEF MediationInv

LEMMA ReceiveRequestKeeps ==
  ASSUME MediationInv, NEW msg \in mediationNet, ReceiveRequest(msg)
  PROVE  MediationInv'
<1> DEFINE record == [mediator |-> msg.mediator, state |-> "requested", keys |-> <<>>]
<1>1. msg \in MediationMessageType /\ SoundMessage(msg) /\ msg.type = "mediate-request"
  BY DEF MediationInv, MediationTypeOK, ReceiveRequest
<1>2. /\ msg.update = Nothing /\ msg.id \in MediationIds /\ served[msg.id] = Nothing
      /\ mediations[msg.id] # Nothing /\ mediations[msg.id].mediator = msg.mediator
  BY <1>1 DEF SoundMessage
<1>3. record \in MediatorRecordType
  BY <1>1 DEF MediationMessageType, MediatorRecordType, MediationStates
<1>4. \A m \in mediationNet' : /\ m \in mediationNet
                               /\ m.type = "mediate-request" /\ m.update = Nothing => m.id # msg.id
  <2> TAKE m \in mediationNet'
  <2>1. m \in mediationNet /\ m # msg
    BY DEF ReceiveRequest
  <2>2. m \in MediationMessageType /\ SoundMessage(m)
    BY <2>1 DEF MediationInv, MediationTypeOK
  <2>3. ASSUME m.type = "mediate-request", m.update = Nothing, m.id = msg.id
        PROVE  FALSE
    <3>1. m.mediator = msg.mediator
      BY <1>2, <2>2, <2>3 DEF SoundMessage
    <3>2. m = msg
      BY <1>1, <1>2, <2>2, <2>3, <3>1 DEF MediationMessageType
    <3> QED BY <2>1, <3>2
  <2> QED BY <2>1, <2>3
<1>5. mediationNet' \subseteq MediationMessageType
  BY <1>4 DEF MediationInv, MediationTypeOK
<1>6. served' = [served EXCEPT ![msg.id] = record]
  BY DEF ReceiveRequest
<1>7. UNCHANGED <<mediations, awaiting, handling, handed, shared, raced, made>>
  BY DEF ReceiveRequest
<1> HIDE DEF record
<1>8. record.mediator = mediations[msg.id].mediator
  BY <1>2 DEF record
<1> QED BY <1>2, <1>3, <1>4, <1>5, <1>6, <1>7, <1>8, ServingKeeps DEF IsGranted

LEMMA AnswerKeeps ==
  ASSUME MediationInv, NEW id \in MediationIds, GrantMediation(id) \/ DenyMediation(id)
  PROVE  MediationInv'
<1>1. PICK state \in {"granted", "denied"} :
        /\ served[id] # Nothing /\ served[id].state = "requested"
        /\ served' = [served EXCEPT ![id] = [served[id] EXCEPT !.state = state]]
        /\ mediationNet' = mediationNet \cup
             {IF state = "granted" THEN GrantMessage(served[id].mediator, id)
                                   ELSE DenyMessage(served[id].mediator, id)}
        /\ UNCHANGED <<mediations, awaiting, handling, handed, shared, raced, made>>
  BY DEF GrantMediation, DenyMediation
<1> DEFINE record == [served[id] EXCEPT !.state = state]
           answer == IF state = "granted" THEN GrantMessage(served[id].mediator, id)
                                          ELSE DenyMessage(served[id].mediator, id)
<1>2. served[id] \in MediatorRecordType
  BY <1>1 DEF MediationInv, MediationTypeOK
<1>3. /\ record \in MediatorRecordType /\ record.mediator = served[id].mediator
      /\ record.state = state
  BY <1>2 DEF MediatorRecordType, MediationStates
<1>4. mediations[id] # Nothing /\ served[id].mediator = mediations[id].mediator
  BY <1>1 DEF MediationInv
<1>5. served'[id] = record /\ served'[id] # Nothing
  <2>1. served'[id] = record
    BY <1>1 DEF MediationInv, MediationTypeOK
  <2> QED BY <1>3, <2>1, MediationAssumption
<1>6. answer \in MediationMessageType /\ \A msg : msg = answer => SoundMessage(msg)'
  <2>1. answer \in MediationMessageType
    BY <1>2 DEF GrantMessage, DenyMessage, MediationMessageType, MediatorRecordType
  <2>2. state = "granted" => IsGranted(id)'
    BY <1>3, <1>5 DEF IsGranted
  <2>3. ASSUME NEW msg, msg = answer
        PROVE  SoundMessage(msg)'
    <3>1. /\ msg.update = Nothing /\ msg.id = id /\ msg.mediator = served[id].mediator
          /\ msg.type = IF state = "granted" THEN "mediate-grant" ELSE "mediate-deny"
      BY <2>3 DEF GrantMessage, DenyMessage
    <3>2. mediations' = mediations
      BY <1>1
    <3> QED BY <1>4, <2>2, <3>1, <3>2 DEF SoundMessage
  <2> QED BY <2>1, <2>3
<1>7. mediationNet' = mediationNet \cup {answer}
  BY <1>1
<1>8. served' = [served EXCEPT ![id] = record]
  BY <1>1
<1> HIDE DEF record, answer
<1>9. \A msg \in mediationNet' :
        \/ /\ msg \in mediationNet
           /\ msg.type = "mediate-request" /\ msg.update = Nothing => msg.id # id
        \/ SoundMessage(msg)'
  <2> TAKE msg \in mediationNet'
  <2>1. CASE msg = answer
    BY <1>6, <2>1
  <2>2. CASE msg \in mediationNet
    <3>1. SoundMessage(msg)
      BY <2>2 DEF MediationInv
    <3>2. msg.type = "mediate-request" /\ msg.update = Nothing => served[msg.id] = Nothing
      BY <3>1 DEF SoundMessage
    <3>3. served[id] # Nothing
      BY <1>1
    <3> QED BY <2>2, <3>2, <3>3
  <2> QED BY <1>7, <2>1, <2>2
<1>10. mediationNet' \subseteq MediationMessageType
  BY <1>6, <1>7 DEF MediationInv, MediationTypeOK
<1>11. IsGranted(id) => record.state = "granted"
  BY <1>1 DEF IsGranted
<1>12. record.mediator = mediations[id].mediator
  BY <1>3, <1>4
<1> QED BY <1>1, <1>3, <1>4, <1>8, <1>9, <1>10, <1>11, <1>12, ServingKeeps

LEMMA ReceiveKeylistUpdateKeeps ==
  ASSUME MediationInv, NEW msg \in mediationNet, ReceiveKeylistUpdate(msg)
  PROVE  MediationInv'
<1>1. msg \in MediationMessageType /\ SoundMessage(msg) /\ msg.type = "keylist-update"
  BY DEF MediationInv, MediationTypeOK, ReceiveKeylistUpdate
<1>2. msg.update \in KeylistUpdates /\ msg.update # Nothing
  BY <1>1 DEF SoundMessage, MediationMessageType
<1>3. PICK id \in MediationIds :
        /\ served[id] # Nothing /\ served[id].state = "granted"
        /\ served' = [served EXCEPT ![id] = [served[id] EXCEPT !.keys = ApplyUpdate(@, msg.update)]]
  BY DEF ReceiveKeylistUpdate, ServedWith
<1> DEFINE record == [served[id] EXCEPT !.keys = ApplyUpdate(@, msg.update)]
           answer == KeylistUpdateResponse(msg.mediator, msg.update)
<1>4. served[id] \in MediatorRecordType
  BY <1>3 DEF MediationInv, MediationTypeOK
<1>5. ApplyUpdate(served[id].keys, msg.update) \in Seq(RoutingKeys)
  BY <1>2, <1>4, ApplyUpdateType DEF MediatorRecordType
<1>6. /\ record \in MediatorRecordType
      /\ record.mediator = served[id].mediator /\ record.state = served[id].state
  BY <1>4, <1>5 DEF MediatorRecordType
<1>7. mediations[id] # Nothing /\ served[id].mediator = mediations[id].mediator
  BY <1>3 DEF MediationInv
<1>8. answer \in MediationMessageType /\ SoundMessage(answer)'
  BY <1>1, <1>2 DEF KeylistUpdateResponse, MediationMessageType, SoundMessage
<1>9. /\ mediationNet' = (mediationNet \ {msg}) \cup {answer}
      /\ UNCHANGED <<mediations, awaiting, handling, handed, shared, raced, made>>
  BY DEF ReceiveKeylistUpdate
<1>10. served' = [served EXCEPT ![id] = record]
  BY <1>3
<1> HIDE DEF record, answer
<1>11. \A m \in mediationNet' :
        \/ /\ m \in mediationNet
           /\ m.type = "mediate-request" /\ m.update = Nothing => m.id # id
        \/ SoundMessage(m)'
  <2> TAKE m \in mediationNet'
  <2>1. CASE m = answer
    BY <1>8, <2>1
  <2>2. CASE m \in mediationNet
    <3>1. SoundMessage(m)
      BY <2>2 DEF MediationInv
    <3> QED BY <1>3, <2>2, <3>1 DEF SoundMessage
  <2> QED BY <1>9, <2>1, <2>2
<1>12. mediationNet' \subseteq MediationMessageType
  BY <1>8, <1>9 DEF MediationInv, MediationTypeOK
<1>13. IsGranted(id) => record.state = "granted"
  BY <1>3, <1>6
<1>14. record.mediator = mediations[id].mediator
  BY <1>6, <1>7
<1> QED BY <1>6, <1>7, <1>9, <1>10, <1>11, <1>12, <1>13, <1>14, ServingKeeps

-------------------------------------------------------------------------------
(* The handlers of the recipient *)

\* The record found by the connection is that of the request that is answered.
LEMMA ReadsKeeps ==
  ASSUME MediationInv, NEW msg \in mediationNet, NEW state,
         NEW type \in {"mediate-grant", "mediate-deny", "keylist-update-response"},
         Reads(msg, type, state)
  PROVE  MediationInv'
<1>1. PICK id \in Saved :
        /\ RecordWith(msg.mediator, id)
        /\ handling' = [message |-> msg, id |-> id, read |-> mediations[id]]
  BY DEF Reads
<1>2. id \in MediationIds /\ mediations[id] # Nothing
  BY DEF Saved
<1>3. /\ msg \in MediationMessageType /\ SoundMessage(msg) /\ msg.type = type /\ msg # Nothing
  <2>1. msg \in MediationMessageType /\ SoundMessage(msg) /\ msg.type = type
    BY DEF MediationInv, MediationTypeOK, Reads
  <2> QED BY <2>1, MediationAssumption
<1>4. msg.type = "mediate-grant" => msg.id = id
  BY <1>1, <1>3 DEF SoundMessage, RecordWith, Saved
<1>5. msg.type = "mediate-grant" => IsGranted(id)
  BY <1>3, <1>4 DEF SoundMessage
<1>6. Agrees(id, mediations[id]) /\ mediations[id] \in RecipientRecordType
  BY <1>2 DEF MediationInv, Agrees
<1>7. UNCHANGED <<mediations, served, awaiting, handed, shared, raced, made>>
  BY DEF Reads
<1>8. /\ handling'.message = msg /\ handling'.id = id /\ handling'.read = mediations[id]
      /\ handling' \in [message : MediationMessageType \cup {Nothing}, id : MediationIds \cup {Nothing},
                       read : RecipientRecordType \cup {Nothing}]
  BY <1>1, <1>2, <1>3, <1>6
<1>9. msg.type = "keylist-update-response" => msg.update # Nothing
  BY <1>3 DEF SoundMessage
<1>10. SoundHandling'
  <2>1. Agrees(handling.id, handling.read)'
    BY <1>6, <1>7, <1>8 DEF Agrees, IsGranted
  <2>2. msg.type = "mediate-grant" => IsGranted(handling.id)'
    BY <1>5, <1>7, <1>8 DEF IsGranted
  <2> QED BY <1>2, <1>3, <1>8, <1>9, <2>1, <2>2 DEF SoundHandling
<1>11. /\ mediationNet' \subseteq MediationMessageType
       /\ \A m \in mediationNet' : m \in mediationNet
  BY DEF Reads, MediationInv, MediationTypeOK
<1>12. handed' \subseteq RoutingKeys /\ shared' \subseteq RoutingKeys /\ made' \in 0 .. MaxMediationCalls
  BY <1>7 DEF MediationInv, MediationTypeOK
<1> QED BY <1>7, <1>8, <1>10, <1>11, <1>12, QuietKeeps

\* The calls that waited for the grant are over, or make the record the default one.
LEMMA GrantedCalls ==
  ASSUME MediationInv, Onward, NEW id \in MediationIds, NEW record, Agrees(id, record),
         Granted(id, record)
  PROVE  /\ awaiting' \in [MediationCallers -> CallType]
         /\ \A c \in MediationCallers : SoundCall(awaiting[c])'
<1> DEFINE defaults == [i \in MediationIds |-> IF i \in Defaults THEN mediations[i] ELSE Nothing]
           next == [NoCall EXCEPT !.pc = "clearDefaults", !.id = id, !.copy = record,
                                  !.defaults = defaults]
<1>1. \A i \in MediationIds : defaults[i] # Nothing => defaults[i] = mediations[i] /\ Agrees(i, mediations[i])
  BY DEF MediationInv
<1>2. defaults \in [MediationIds -> RecipientRecordType \cup {Nothing}]
  BY DEF MediationInv, MediationTypeOK
<1>3. Waits(NoCall) /\ SoundCall(NoCall)'
  BY WaitsIsSound
<1>4. record \in RecipientRecordType
  BY DEF Agrees
<1>5. next \in CallType
  BY <1>2, <1>3, <1>4 DEF Waits, CallType
<1>6. next.pc = "clearDefaults" /\ next.id = id /\ next.copy = record /\ next.defaults = defaults
  BY <1>3 DEF Waits, CallType
<1>7. SoundCall(next)
  <2> HIDE DEF next, defaults
  <2> QED BY <1>1, <1>6 DEF SoundCall
<1>8. \A call : SoundCall(call) => SoundCall(call)'
  BY SoundCallStays
<1>9. \A c \in MediationCallers : awaiting'[c] \in {awaiting[c], next, NoCall}
  BY DEF Granted
<1>10. \A c \in MediationCallers : awaiting[c] \in CallType /\ SoundCall(awaiting[c])
  BY DEF MediationInv, MediationTypeOK
<1>11. awaiting' = [c \in MediationCallers |-> awaiting'[c]]
  BY DEF Granted
<1> HIDE DEF next
<1>12. \A c \in MediationCallers : awaiting'[c] \in CallType
  BY <1>3, <1>5, <1>9, <1>10 DEF Waits
<1>13. \A c \in MediationCallers : SoundCall(awaiting[c])'
  <2> TAKE c \in MediationCallers
  <2>1. ASSUME NEW call, call = awaiting'[c], SoundCall(call)'
        PROVE  SoundCall(awaiting[c])'
    BY <2>1 DEF SoundCall
  <2>2. CASE awaiting'[c] = NoCall
    BY <1>3, <2>2 DEF SoundCall, NoCall
  <2>3. CASE awaiting'[c] \in {awaiting[c], next}
    BY <1>7, <1>8, <1>10, <2>1, <2>3
  <2> QED BY <1>9, <2>2, <2>3
<1> QED BY <1>11, <1>12, <1>13

LEMMA WriteStateKeeps ==
  ASSUME MediationInv, WriteState
  PROVE  MediationInv'
<1> DEFINE granted == handling.message.type = "mediate-grant"
           record == [handling.read EXCEPT !.state = IF granted THEN "granted" ELSE "denied"]
           id == handling.id
<1>1. /\ handling.message # Nothing
      /\ Write(id, handling.read, record)
      /\ IF granted THEN Granted(id, record) ELSE UNCHANGED awaiting
      /\ handling' = NotHandling
      /\ UNCHANGED <<served, mediationNet, handed, shared, made>>
  BY DEF WriteState
<1>2. /\ id \in MediationIds /\ Agrees(id, handling.read)
      /\ granted => IsGranted(id)
  BY <1>1 DEF MediationInv, SoundHandling
<1>3. Agrees(id, record)
  <2>1. /\ record \in RecipientRecordType /\ record.mediator = handling.read.mediator
        /\ record.state = "granted" => granted
    <3>1. CASE granted
      BY <1>2, <3>1 DEF Agrees, RecipientRecordType, MediationStates
    <3>2. CASE ~granted
      BY <1>2, <3>2 DEF Agrees, RecipientRecordType, MediationStates
    <3> QED BY <3>1, <3>2
  <2> HIDE DEF record
  <2> QED BY <1>2, <2>1 DEF Agrees
<1> HIDE DEF record
<1>4. /\ mediations' = [mediations EXCEPT ![id] = record]
      /\ raced' \subseteq {"lost update", "two setters"}
  BY <1>1, WriteChanges
<1>5. Onward
  BY <1>1, <1>2, <1>3, <1>4, WrittenKeeps
<1>6. /\ awaiting' \in [MediationCallers -> CallType]
      /\ \A c \in MediationCallers : SoundCall(awaiting[c])'
  BY <1>1, <1>2, <1>3, <1>5, GrantedCalls, CallsGoOn
<1>7. handed' \subseteq RoutingKeys /\ made' \in 0 .. MaxMediationCalls
  BY <1>1 DEF MediationInv, MediationTypeOK
<1> QED BY <1>1, <1>2, <1>3, <1>4, <1>6, <1>7, WritingKeeps

LEMMA WriteKeylistKeeps ==
  ASSUME MediationInv, WriteKeylist
  PROVE  MediationInv'
<1> DEFINE record == [handling.read EXCEPT !.keys = ApplyUpdate(@, handling.message.update)]
           id == handling.id
           ended == EndedBy(id)
<1>1. /\ handling.message # Nothing /\ handling.message.type = "keylist-update-response"
      /\ Write(id, handling.read, record)
      /\ handed' = handed \cup ({awaiting[c].key : c \in ended} \ {Nothing})
      /\ awaiting' = [c \in MediationCallers |-> IF c \in ended THEN NoCall ELSE awaiting[c]]
      /\ handling' = NotHandling
      /\ UNCHANGED <<served, mediationNet, shared, made>>
  BY DEF WriteKeylist
<1>2. /\ id \in MediationIds /\ Agrees(id, handling.read)
      /\ handling.message.update \in KeylistUpdates
  <2>1. handling.message \in MediationMessageType
    BY <1>1 DEF MediationInv, MediationTypeOK
  <2> QED BY <1>1, <2>1 DEF MediationInv, SoundHandling, MediationMessageType
<1>3. Agrees(id, record)
  <2>1. ApplyUpdate(handling.read.keys, handling.message.update) \in Seq(RoutingKeys)
    BY <1>2, ApplyUpdateType DEF Agrees, RecipientRecordType
  <2>2. /\ record \in RecipientRecordType /\ record.mediator = handling.read.mediator
        /\ record.state = handling.read.state
    BY <1>2, <2>1 DEF Agrees, RecipientRecordType
  <2> HIDE DEF record
  <2> QED BY <1>2, <2>2 DEF Agrees
<1> HIDE DEF record
<1>4. /\ mediations' = [mediations EXCEPT ![id] = record]
      /\ raced' \subseteq {"lost update", "two setters"}
  BY <1>1, WriteChanges
<1>5. Onward
  BY <1>1, <1>2, <1>3, <1>4, WrittenKeeps
<1>6. NoCall \in CallType /\ SoundCall(NoCall)'
  BY WaitsIsSound DEF Waits
<1>7. \A c \in MediationCallers : awaiting[c] \in CallType /\ SoundCall(awaiting[c])
  BY DEF MediationInv, MediationTypeOK
<1>8. awaiting' \in [MediationCallers -> CallType]
  BY <1>1, <1>6, <1>7
<1>9. \A c \in MediationCallers : SoundCall(awaiting[c])'
  <2> TAKE c \in MediationCallers
  <2>1. ASSUME NEW call, call = awaiting'[c], SoundCall(call)'
        PROVE  SoundCall(awaiting[c])'
    BY <2>1 DEF SoundCall
  <2>2. CASE awaiting'[c] = NoCall
    BY <1>6, <2>2 DEF SoundCall, NoCall
  <2>3. CASE awaiting'[c] = awaiting[c]
    BY <1>5, <1>7, <2>1, <2>3, SoundCallStays
  <2> QED BY <1>1, <2>2, <2>3
<1>10. handed' \subseteq RoutingKeys
  <2>1. \A c \in ended : awaiting[c].key \in RoutingKeys \cup {Nothing}
    BY <1>7 DEF CallType, EndedBy
  <2>2. handed \subseteq RoutingKeys
    BY DEF MediationInv, MediationTypeOK
  <2> HIDE DEF ended
  <2> QED BY <1>1, <2>1, <2>2
<1>11. made' \in 0 .. MaxMediationCalls
  BY <1>1 DEF MediationInv, MediationTypeOK
<1> QED BY <1>1, <1>2, <1>3, <1>4, <1>8, <1>9, <1>10, <1>11, WritingKeeps

-------------------------------------------------------------------------------
(* Keylist updates of the recipient *)

\* Keys that calls wait for.
LEMMA EndedKeys ==
  ASSUME MediationInv, NEW id
  PROVE  {awaiting[c].key : c \in EndedBy(id)} \ {Nothing} \subseteq RoutingKeys
<1>1. \A c \in EndedBy(id) : awaiting[c].key \in RoutingKeys \cup {Nothing}
  BY DEF EndedBy, MediationInv, MediationTypeOK, CallType
<1> QED BY <1>1

\* An update that is sent to the mediator of a record.
LEMMA UpdateMessageIsSound ==
  ASSUME MediationInv, NEW id \in MediationIds, mediations[id] # Nothing,
         NEW action \in KeylistActions, NEW key \in RoutingKeys
  PROVE  LET msg == KeylistUpdateMessage(mediations[id].mediator, [action |-> action, key |-> key])
         IN  msg \in MediationMessageType /\ \A m : m = msg => SoundMessage(m)'
<1> DEFINE update == [action |-> action, key |-> key]
<1>1. update \in KeylistUpdates /\ update # Nothing
  <2>1. update \in KeylistUpdates
    BY DEF KeylistUpdates
  <2> QED BY <2>1, MediationAssumption
<1>2. mediations[id].mediator \in Mediators
  BY DEF MediationInv, MediationTypeOK, RecipientRecordType
<1> HIDE DEF update
<1>3. KeylistUpdateMessage(mediations[id].mediator, update) \in MediationMessageType
  BY <1>1, <1>2 DEF KeylistUpdateMessage, MediationMessageType
<1>4. \A m : m = KeylistUpdateMessage(mediations[id].mediator, update) => SoundMessage(m)'
  BY <1>1 DEF KeylistUpdateMessage, SoundMessage
<1> QED BY <1>3, <1>4 DEF update

LEMMA KeylistUpdateKeeps ==
  ASSUME MediationInv, NEW c \in MediationCallers, NEW id \in MediationIds,
         NEW action \in KeylistActions, NEW key \in RoutingKeys,
         NEW wanted \in RoutingKeys \cup {Nothing}, Starts(c),
         KeylistUpdateAndAwait(c, id, [action |-> action, key |-> key], wanted),
         handed' \subseteq RoutingKeys
  PROVE  MediationInv'
<1> DEFINE update == [action |-> action, key |-> key]
           msg == KeylistUpdateMessage(mediations[id].mediator, update)
           call == [NoCall EXCEPT !.pc = "awaitKeylist", !.id = id, !.key = wanted]
<1>1. /\ UNCHANGED <<mediations, served, handling, raced>>
      /\ mediations[id] # Nothing
      /\ mediationNet' = mediationNet \cup {msg}
      /\ Continues(c, call)
  BY DEF KeylistUpdateAndAwait
<1>2. msg \in MediationMessageType /\ \A m : m = msg => SoundMessage(m)'
  BY <1>1, UpdateMessageIsSound
<1>3. call \in CallType /\ SoundCall(call)'
  <2>1. Waits(call) /\ call.id \in MediationIds
    BY WaitsIsSound DEF Waits, CallType
  <2> QED BY <2>1, WaitsIsSound DEF Waits
<1>4. shared' \subseteq RoutingKeys
  <2>1. shared' \subseteq shared \cup {key} \cup ({awaiting[d].key : d \in EndedBy(id)} \ {Nothing})
    BY DEF KeylistUpdateAndAwait
  <2> QED BY <2>1, EndedKeys DEF MediationInv, MediationTypeOK
<1> HIDE DEF msg, call
<1>5. /\ mediationNet' \subseteq MediationMessageType
      /\ \A m \in mediationNet' : m \in mediationNet \/ SoundMessage(m)'
  BY <1>1, <1>2 DEF MediationInv, MediationTypeOK
<1>6. handling' \in [message : MediationMessageType \cup {Nothing}, id : MediationIds \cup {Nothing},
                    read : RecipientRecordType \cup {Nothing}]
  BY <1>1 DEF MediationInv, MediationTypeOK
<1> QED BY <1>1, <1>3, <1>4, <1>5, <1>6, StartsCounts, QuietKeeps

LEMMA RoutingKeeps ==
  ASSUME MediationInv, NEW c \in MediationCallers, NEW id \in MediationIds,
         \/ \E named \in BOOLEAN : GetRouting(c, id, named)
         \/ \E key \in RoutingKeys : RemoveRouting(c, id, key)
  PROVE  MediationInv'
<1>1. handed \subseteq RoutingKeys
  BY DEF MediationInv, MediationTypeOK
<1>2. CASE \E named \in BOOLEAN : GetRouting(c, id, named)
  <2>1. PICK key \in RoutingKeys :
          KeylistUpdateAndAwait(c, id, [action |-> "add", key |-> key], key)
    BY <1>2 DEF GetRouting
  <2>2. Starts(c) /\ handed' = handed
    BY <1>2 DEF GetRouting
  <2> QED BY <1>1, <2>1, <2>2, KeylistUpdateKeeps DEF KeylistActions
<1>3. CASE \E key \in RoutingKeys : RemoveRouting(c, id, key)
  <2>1. PICK key \in RoutingKeys : RemoveRouting(c, id, key)
    BY <1>3
  <2>2. /\ Starts(c) /\ handed' = handed \ {key}
        /\ KeylistUpdateAndAwait(c, id, [action |-> "remove", key |-> key], Nothing)
    BY <2>1 DEF RemoveRouting
  <2> QED BY <1>1, <2>2, KeylistUpdateKeeps DEF KeylistActions
<1> QED BY <1>2, <1>3

LEMMA NotifyKeeps ==
  ASSUME MediationInv, NEW c \in MediationCallers, NEW id \in MediationIds,
         NEW key \in RoutingKeys, NEW action \in KeylistActions,
         NotifyKeylistUpdate(c, id, key, action)
  PROVE  MediationInv'
<1> DEFINE msg == KeylistUpdateMessage(mediations[id].mediator, [action |-> action, key |-> key])
<1>1. /\ Starts(c) /\ mediations[id] # Nothing
      /\ mediationNet' = mediationNet \cup {msg}
      /\ UNCHANGED <<mediations, served, awaiting, handling, raced>>
  BY DEF NotifyKeylistUpdate
<1>2. msg \in MediationMessageType /\ \A m : m = msg => SoundMessage(m)'
  BY <1>1, UpdateMessageIsSound
<1> HIDE DEF msg
<1>3. /\ mediationNet' \subseteq MediationMessageType
      /\ \A m \in mediationNet' : m \in mediationNet \/ SoundMessage(m)'
  BY <1>1, <1>2 DEF MediationInv, MediationTypeOK
<1>4. shared' \subseteq RoutingKeys
  <2>1. shared' \subseteq shared \cup {key} \cup ({awaiting[d].key : d \in EndedBy(id)} \ {Nothing})
    BY DEF NotifyKeylistUpdate
  <2> QED BY <2>1, EndedKeys DEF MediationInv, MediationTypeOK
<1>5. handed' \subseteq RoutingKeys
  BY DEF NotifyKeylistUpdate, MediationInv, MediationTypeOK
<1>6. handling' \in [message : MediationMessageType \cup {Nothing}, id : MediationIds \cup {Nothing},
                    read : RecipientRecordType \cup {Nothing}]
  BY <1>1 DEF MediationInv, MediationTypeOK
<1> QED BY <1>1, <1>3, <1>4, <1>5, <1>6, StartsCounts, QuietKeeps

-------------------------------------------------------------------------------
(* The other calls of the recipient *)

\* A call that takes copies of records, or gives up waiting.
LEMMA CallKeeps ==
  ASSUME MediationInv, NEW c \in MediationCallers, NEW call \in CallType,
         SoundCall(call), Continues(c, call), made' \in 0 .. MaxMediationCalls,
         UNCHANGED <<mediations, served, mediationNet, handling, handed, shared, raced>>
  PROVE  MediationInv'
<1>1. SoundCall(call)'
  BY Unwritten, SoundCallStays
<1>2. /\ mediationNet' \subseteq MediationMessageType
      /\ handed' \subseteq RoutingKeys /\ shared' \subseteq RoutingKeys
      /\ handling' \in [message : MediationMessageType \cup {Nothing}, id : MediationIds \cup {Nothing},
                       read : RecipientRecordType \cup {Nothing}]
  BY DEF MediationInv, MediationTypeOK
<1> QED BY <1>1, <1>2, QuietKeeps

LEMMA TimeoutKeeps ==
  ASSUME MediationInv, NEW c \in MediationCallers, Timeout(c)
  PROVE  MediationInv'
<1>1. NoCall \in CallType /\ SoundCall(NoCall)
  BY WaitsIsSound DEF Waits, SoundCall, NoCall, NoDefaults
<1>2. made' \in 0 .. MaxMediationCalls
  BY DEF Timeout, MediationInv, MediationTypeOK
<1> QED BY <1>1, <1>2, CallKeeps DEF Timeout

LEMMA SetDefaultMediatorKeeps ==
  ASSUME MediationInv, NEW c \in MediationCallers, NEW id \in MediationIds, NEW copy,
         SetDefaultMediator(c, id, copy)
  PROVE  MediationInv'
<1> DEFINE defaults == [i \in MediationIds |-> IF i \in Defaults THEN mediations[i] ELSE Nothing]
           call == [NoCall EXCEPT !.pc = "clearDefaults", !.id = id, !.copy = copy,
                                  !.defaults = defaults]
<1>1. /\ Starts(c) /\ mediations[id] # Nothing
      /\ copy \in {mediations[id], [mediations[id] EXCEPT !.state = "requested", !.keys = <<>>,
                                                         !.default = FALSE]}
      /\ Continues(c, call)
      /\ UNCHANGED <<mediations, served, mediationNet, handling, handed, shared, raced>>
  BY DEF SetDefaultMediator, Saved
<1>2. Agrees(id, copy)
  <2>1. Agrees(id, mediations[id])
    BY <1>1 DEF MediationInv
  <2>2. CASE copy = [mediations[id] EXCEPT !.state = "requested", !.keys = <<>>, !.default = FALSE]
    <3>1. <<>> \in Seq(RoutingKeys)
      OBVIOUS
    <3>2. mediations[id] \in RecipientRecordType
      BY <2>1 DEF Agrees
    <3>3. /\ copy \in RecipientRecordType
          /\ copy.mediator = mediations[id].mediator /\ copy.state = "requested"
      BY <2>2, <3>1, <3>2 DEF RecipientRecordType, MediationStates
    <3> QED BY <1>1, <3>3 DEF Agrees
  <2> QED BY <1>1, <2>1, <2>2
<1>3. \A i \in MediationIds : defaults[i] # Nothing => Agrees(i, defaults[i])
  BY DEF MediationInv
<1>4. defaults \in [MediationIds -> RecipientRecordType \cup {Nothing}]
  BY DEF MediationInv, MediationTypeOK
<1>5. copy \in RecipientRecordType
  BY <1>2 DEF Agrees
<1>6. /\ call \in CallType /\ call.pc = "clearDefaults" /\ call.id = id /\ call.copy = copy
      /\ call.defaults = defaults
  BY <1>4, <1>5, WaitsIsSound DEF Waits, CallType
<1> HIDE DEF call, defaults
<1>7. SoundCall(call)
  BY <1>2, <1>3, <1>6 DEF SoundCall
<1> QED BY <1>1, <1>6, <1>7, StartsCounts, CallKeeps

LEMMA DiscoverStrategyKeeps ==
  ASSUME MediationInv, NEW c \in MediationCallers, NEW id \in MediationIds,
         DiscoverStrategy(c, id)
  PROVE  MediationInv'
<1> DEFINE call == [NoCall EXCEPT !.pc = "saveStrategy", !.id = id, !.copy = mediations[id]]
<1>1. /\ Starts(c) /\ mediations[id] # Nothing /\ Continues(c, call)
      /\ UNCHANGED <<mediations, served, mediationNet, handling, handed, shared, raced>>
  BY DEF DiscoverStrategy, Saved
<1>2. Agrees(id, mediations[id]) /\ mediations[id] \in RecipientRecordType
  BY <1>1 DEF MediationInv, Agrees
<1>3. /\ call \in CallType /\ call.pc = "saveStrategy" /\ call.id = id /\ call.copy = mediations[id]
      /\ call.defaults = NoDefaults
  BY <1>2, WaitsIsSound DEF Waits, CallType
<1> HIDE DEF call
<1>4. SoundCall(call)
  BY <1>2, <1>3 DEF SoundCall, NoDefaults
<1> QED BY <1>1, <1>3, <1>4, StartsCounts, CallKeeps

\* A call that writes one record whole.
LEMMA CallWrites ==
  ASSUME MediationInv, NEW c \in MediationCallers, NEW id \in MediationIds, NEW record,
         Agrees(id, record), mediations' = [mediations EXCEPT ![id] = record],
         UNCHANGED awaiting \/ \E call \in CallType : SoundCall(call) /\ Continues(c, call),
         raced' \subseteq {"lost update", "two setters"}, made' \in 0 .. MaxMediationCalls,
         UNCHANGED <<served, mediationNet, handling, handed, shared>>
  PROVE  MediationInv'
<1>1. Onward
  BY WrittenKeeps
<1>2. /\ awaiting' \in [MediationCallers -> CallType]
      /\ \A d \in MediationCallers : SoundCall(awaiting[d])'
  BY <1>1, SoundCallStays, CallsGoOn
<1>3. handed' \subseteq RoutingKeys
  BY DEF MediationInv, MediationTypeOK
<1> QED BY <1>2, <1>3, WritingKeeps

LEMMA ClearOneDefaultKeeps ==
  ASSUME MediationInv, NEW c \in MediationCallers, NEW id \in MediationIds, ClearOneDefault(c, id)
  PROVE  MediationInv'
<1> DEFINE read == awaiting[c].defaults[id]
           record == [read EXCEPT !.default = FALSE]
           call == [awaiting[c] EXCEPT !.defaults[id] = Nothing]
<1>1. /\ read # Nothing /\ Write(id, read, record) /\ Continues(c, call)
      /\ UNCHANGED <<served, mediationNet, handling, handed, shared, made>>
  BY DEF ClearOneDefault
<1>2. awaiting[c] \in CallType /\ SoundCall(awaiting[c]) /\ made \in 0 .. MaxMediationCalls
  BY DEF MediationInv, MediationTypeOK
<1>3. Agrees(id, record)
  <2>1. Agrees(id, read)
    BY <1>1, <1>2 DEF SoundCall
  <2> QED BY <2>1 DEF Agrees, RecipientRecordType
<1>4. /\ call \in CallType /\ call.pc = awaiting[c].pc /\ call.id = awaiting[c].id
      /\ call.copy = awaiting[c].copy
      /\ \A i \in MediationIds : call.defaults[i] = IF i = id THEN Nothing ELSE awaiting[c].defaults[i]
  BY <1>2 DEF CallType
<1> HIDE DEF call, record
<1>5. SoundCall(call)
  BY <1>2, <1>4 DEF SoundCall
<1>6. /\ mediations' = [mediations EXCEPT ![id] = record]
      /\ raced' \subseteq {"lost update", "two setters"}
  BY <1>1, WriteChanges
<1> QED BY <1>1, <1>2, <1>3, <1>4, <1>5, <1>6, CallWrites

LEMMA WriteDefaultKeeps ==
  ASSUME MediationInv, NEW c \in MediationCallers, WriteDefault(c)
  PROVE  MediationInv'
<1> DEFINE id == awaiting[c].id
           record == [awaiting[c].copy EXCEPT !.default = TRUE]
<1>1. /\ awaiting[c].pc = "clearDefaults"
      /\ mediations' = [mediations EXCEPT ![id] = record]
      /\ raced' \subseteq raced \cup {"lost update", "two setters"}
      /\ Continues(c, NoCall)
      /\ UNCHANGED <<served, mediationNet, handling, handed, shared, made>>
  BY DEF WriteDefault
<1>2. SoundCall(awaiting[c]) /\ made \in 0 .. MaxMediationCalls /\ raced \subseteq {"lost update", "two setters"}
  BY DEF MediationInv, MediationTypeOK
<1>3. id \in MediationIds /\ Agrees(id, record)
  <2>1. id \in MediationIds /\ Agrees(id, awaiting[c].copy)
    BY <1>1, <1>2 DEF SoundCall
  <2> QED BY <2>1 DEF Agrees, RecipientRecordType
<1>4. NoCall \in CallType /\ SoundCall(NoCall)
  BY WaitsIsSound DEF Waits, SoundCall, NoCall, NoDefaults
<1> HIDE DEF record
<1> QED BY <1>1, <1>2, <1>3, <1>4, CallWrites

LEMMA ClearDefaultMediatorKeeps ==
  ASSUME MediationInv, NEW c \in MediationCallers, ClearDefaultMediator(c)
  PROVE  MediationInv'
<1>1. PICK id \in Saved : Write(id, mediations[id], [mediations[id] EXCEPT !.default = FALSE])
  BY DEF ClearDefaultMediator
<1> DEFINE record == [mediations[id] EXCEPT !.default = FALSE]
<1>2. id \in MediationIds /\ Agrees(id, mediations[id])
  BY DEF Saved, MediationInv
<1>3. Agrees(id, record)
  BY <1>2 DEF Agrees, RecipientRecordType
<1> HIDE DEF record
<1>4. /\ mediations' = [mediations EXCEPT ![id] = record]
      /\ raced' \subseteq {"lost update", "two setters"}
  BY <1>1, WriteChanges DEF record
<1>5. Starts(c) /\ UNCHANGED <<served, mediationNet, awaiting, handling, handed, shared>>
  BY DEF ClearDefaultMediator
<1> QED BY <1>2, <1>3, <1>4, <1>5, StartsCounts, CallWrites

LEMMA SaveStrategyKeeps ==
  ASSUME MediationInv, NEW c \in MediationCallers, SaveStrategy(c)
  PROVE  MediationInv'
<1> DEFINE id == awaiting[c].id
           record == [awaiting[c].copy EXCEPT !.strategy = "discovered"]
<1>1. /\ awaiting[c].pc = "saveStrategy" /\ Write(id, awaiting[c].copy, record)
      /\ Continues(c, NoCall)
      /\ UNCHANGED <<served, mediationNet, handling, handed, shared, made>>
  BY DEF SaveStrategy
<1>2. SoundCall(awaiting[c]) /\ made \in 0 .. MaxMediationCalls
  BY DEF MediationInv, MediationTypeOK
<1>3. id \in MediationIds /\ Agrees(id, record)
  <2>1. id \in MediationIds /\ Agrees(id, awaiting[c].copy)
    BY <1>1, <1>2 DEF SoundCall
  <2> QED BY <2>1 DEF Agrees, RecipientRecordType
<1>4. NoCall \in CallType /\ SoundCall(NoCall)
  BY WaitsIsSound DEF Waits, SoundCall, NoCall, NoDefaults
<1> HIDE DEF record
<1>5. /\ mediations' = [mediations EXCEPT ![id] = record]
      /\ raced' \subseteq {"lost update", "two setters"}
  BY <1>1, WriteChanges
<1> QED BY <1>1, <1>2, <1>3, <1>4, <1>5, CallWrites

-------------------------------------------------------------------------------
(* The invariant holds *)

LEMMA MediationInvHolds == MediationSpec => []MediationInv
<1>1. MediationInit => MediationInv
  <2> SUFFICES ASSUME MediationInit PROVE MediationInv
    OBVIOUS
  <2>1. NoCall \in CallType /\ SoundCall(NoCall)
    BY WaitsIsSound DEF Waits, SoundCall, NoCall, NoDefaults
  <2>2. \A c \in MediationCallers : awaiting[c] = NoCall
    BY DEF MediationInit
  <2>3. MediationTypeOK
    BY <2>1, MediationAssumption DEF MediationInit, MediationTypeOK, NotHandling
  <2>4. SoundHandling
    BY DEF MediationInit, SoundHandling, NotHandling
  <2>5. \A c \in MediationCallers : SoundCall(awaiting[c])
    BY <2>1, <2>2
  <2> QED BY <2>3, <2>4, <2>5 DEF MediationInit, MediationInv
<1>2. MediationInv /\ [MediationNext]_mediationVars => MediationInv'
  <2> SUFFICES ASSUME MediationInv, [MediationNext]_mediationVars PROVE MediationInv'
    OBVIOUS
  <2>1. CASE UNCHANGED mediationVars
    <3>1. UNCHANGED <<mediations, served, mediationNet, awaiting, handling, handed, shared, raced, made>>
      BY <2>1 DEF mediationVars
    <3>2. /\ mediationNet' \subseteq MediationMessageType
          /\ handed' \subseteq RoutingKeys /\ shared' \subseteq RoutingKeys
          /\ handling' \in [message : MediationMessageType \cup {Nothing}, id : MediationIds \cup {Nothing},
                           read : RecipientRecordType \cup {Nothing}]
          /\ made' \in 0 .. MaxMediationCalls
      BY <3>1 DEF MediationInv, MediationTypeOK
    <3> QED BY <3>1, <3>2, QuietKeeps
  <2>2. CASE MediationCallNext
    <3>1. PICK c \in MediationCallers :
            \/ \E m \in Mediators : RequestMediation(c, m) \/ RequestAndAwaitGrant(c, m) \/ Provision(c, m)
            \/ \E id \in MediationIds :
                 \/ \E named \in BOOLEAN : GetRouting(c, id, named)
                 \/ \E key \in RoutingKeys :
                      \/ RemoveRouting(c, id, key)
                      \/ \E action \in KeylistActions : NotifyKeylistUpdate(c, id, key, action)
                 \/ \E copy : SetDefaultMediator(c, id, copy)
                 \/ ClearOneDefault(c, id)
                 \/ DiscoverStrategy(c, id)
            \/ WriteDefault(c) \/ ClearDefaultMediator(c) \/ SaveStrategy(c) \/ Timeout(c)
      BY <2>2 DEF MediationCallNext
    <3>2. CASE \E m \in Mediators : RequestMediation(c, m) \/ RequestAndAwaitGrant(c, m) \/ Provision(c, m)
      BY <3>2, RequestsKeep
    <3>3. CASE WriteDefault(c) \/ ClearDefaultMediator(c) \/ SaveStrategy(c) \/ Timeout(c)
      BY <3>3, WriteDefaultKeeps, ClearDefaultMediatorKeeps, SaveStrategyKeeps, TimeoutKeeps
    <3>4. ASSUME NEW id \in MediationIds,
                 \/ \E named \in BOOLEAN : GetRouting(c, id, named)
                 \/ \E key \in RoutingKeys : RemoveRouting(c, id, key)
          PROVE  MediationInv'
      BY <3>4, RoutingKeeps
    <3>5. ASSUME NEW id \in MediationIds, NEW key \in RoutingKeys, NEW action \in KeylistActions,
                 NotifyKeylistUpdate(c, id, key, action)
          PROVE  MediationInv'
      BY <3>5, NotifyKeeps
    <3>6. ASSUME NEW id \in MediationIds,
                 \/ \E copy : SetDefaultMediator(c, id, copy)
                 \/ ClearOneDefault(c, id)
                 \/ DiscoverStrategy(c, id)
          PROVE  MediationInv'
      BY <3>6, SetDefaultMediatorKeeps, ClearOneDefaultKeeps, DiscoverStrategyKeeps
    <3> QED BY <3>1, <3>2, <3>3, <3>4, <3>5, <3>6
  <2>3. ASSUME NEW msg \in mediationNet,
               \/ ReceiveRequest(msg) \/ ReceiveKeylistUpdate(msg)
               \/ ProcessMediationGrant(msg) \/ ProcessMediationDeny(msg)
               \/ ProcessKeylistUpdateResults(msg)
        PROVE  MediationInv'
    BY <2>3, ReceiveRequestKeeps, ReceiveKeylistUpdateKeeps, ReadsKeeps
    DEF ProcessMediationGrant, ProcessMediationDeny, ProcessKeylistUpdateResults
  <2>4. ASSUME NEW id \in MediationIds, GrantMediation(id) \/ DenyMediation(id)
        PROVE  MediationInv'
    BY <2>4, AnswerKeeps
  <2>5. CASE WriteState \/ WriteKeylist
    BY <2>5, WriteStateKeeps, WriteKeylistKeeps
  <2> QED BY <2>1, <2>2, <2>3, <2>4, <2>5 DEF MediationNext
<1> QED BY <1>1, <1>2, PTL DEF MediationSpec

-------------------------------------------------------------------------------
(* The default mediator *)

\* As long as no two setters have met and no stale copy was written, there is one
\* default, and a call that is about to set another still has it to clear.
DefaultInv ==
  raced = {} =>
    /\ \A i, j \in Defaults : i = j
    /\ \A c \in MediationCallers : awaiting[c].pc = "clearDefaults" =>
         \A i \in Defaults : awaiting[c].defaults[i] # Nothing

\* A call that goes on, and the calls that are left alone.
LEMMA GoesOn ==
  ASSUME MediationInv, NEW c \in MediationCallers, NEW call, Continues(c, call)
  PROVE  /\ awaiting'[c] = call
         /\ \A d \in MediationCallers : d # c => awaiting'[d] = awaiting[d]
BY DEF Continues, MediationInv, MediationTypeOK

\* What is written over the record that it was read from changes no other record.
LEMMA FreshWrite ==
  ASSUME MediationInv, NEW id \in MediationIds, NEW read, NEW record,
         Write(id, read, record), raced' = {}
  PROVE  /\ raced = {} /\ mediations[id] = read
         /\ mediations' \in [MediationIds -> {record} \cup RecipientRecordType \cup {Nothing}]
         /\ mediations'[id] = record
         /\ \A i \in MediationIds : i # id => mediations'[i] = mediations[i]
BY DEF Write, MediationInv, MediationTypeOK

LEMMA WriteKeepsDefaults ==
  ASSUME MediationInv, NEW id \in MediationIds, NEW read, NEW record, Agrees(id, read),
         Agrees(id, record), record.default = read.default,
         Write(id, read, record), raced' = {}
  PROVE  raced = {} /\ Defaults' = Defaults
<1>1. read # Nothing /\ record # Nothing
  BY MediationAssumption DEF Agrees
<1> QED
  BY <1>1, FreshWrite DEF Defaults, Saved

LEMMA WriteClearsDefault ==
  ASSUME MediationInv, NEW id \in MediationIds, NEW read, NEW record, Agrees(id, read),
         record = [read EXCEPT !.default = FALSE],
         Write(id, read, record), raced' = {}
  PROVE  raced = {} /\ Defaults' = Defaults \ {id}
<1>1. record \in RecipientRecordType /\ ~record.default
  BY DEF Agrees, RecipientRecordType
<1>2. record # Nothing
  BY <1>1, MediationAssumption
<1>3. /\ raced = {} /\ mediations'[id] = record
      /\ \A i \in MediationIds : i # id => mediations'[i] = mediations[i]
  BY FreshWrite
<1> QED
  BY <1>1, <1>2, <1>3 DEF Defaults, Saved

\* A step that makes no record a default, after which a call that is to clear the
\* defaults is where it was, or has found them all.
LEMMA DefaultsKept ==
  ASSUME DefaultInv,
         raced' = {} => raced = {} /\ Defaults' \subseteq Defaults,
         raced' = {} => \A c \in MediationCallers : awaiting'[c].pc = "clearDefaults" =>
                          \/ awaiting'[c] = awaiting[c]
                          \/ \A i \in Defaults' : awaiting'[c].defaults[i] # Nothing
  PROVE  DefaultInv'
BY DEF DefaultInv

\* A step that writes no record of the recipient.
LEMMA UnwrittenDefaults ==
  ASSUME MediationInv, DefaultInv, UNCHANGED <<mediations, raced>>,
         \/ UNCHANGED awaiting
         \/ \E c \in MediationCallers : \E call : Continues(c, call) /\ call.pc # "clearDefaults"
  PROVE  DefaultInv'
<1>1. Defaults' = Defaults
  BY DEF Defaults, Saved
<1> QED
  BY <1>1, DefaultsKept, GoesOn

LEMMA RequestDefaults ==
  ASSUME MediationInv, DefaultInv, NEW c \in MediationCallers, NEW m \in Mediators,
         NEW call \in CallType, call.pc # "clearDefaults", SendRequest(c, m, call)
  PROVE  DefaultInv'
<1>1. PICK id \in MediationIds :
        /\ mediations' = [mediations EXCEPT ![id] =
             [mediator |-> m, state |-> "requested", keys |-> <<>>, default |-> FALSE,
              strategy |-> Nothing]]
        /\ Continues(c, [call EXCEPT !.id = id])
        /\ UNCHANGED raced
  BY DEF SendRequest
<1>2. Defaults' \subseteq Defaults
  BY <1>1 DEF Defaults, Saved, MediationInv, MediationTypeOK
<1>3. [call EXCEPT !.id = id].pc # "clearDefaults"
  BY DEF CallType
<1> QED
  BY <1>1, <1>2, <1>3, GoesOn, DefaultsKept

LEMMA RequestsDefaults ==
  ASSUME MediationInv, DefaultInv, NEW c \in MediationCallers, NEW m \in Mediators,
         RequestMediation(c, m) \/ RequestAndAwaitGrant(c, m) \/ Provision(c, m)
  PROVE  DefaultInv'
<1>1. NoCall \in CallType /\ NoCall.pc # "clearDefaults"
  BY WaitsIsSound DEF Waits
<1>2. /\ [NoCall EXCEPT !.pc = "awaitGrant"] \in CallType
      /\ [NoCall EXCEPT !.pc = "awaitGrant"].pc # "clearDefaults"
      /\ [NoCall EXCEPT !.pc = "awaitGrant", !.provision = TRUE] \in CallType
      /\ [NoCall EXCEPT !.pc = "awaitGrant", !.provision = TRUE].pc # "clearDefaults"
  BY <1>1 DEF CallType
<1> QED
  BY <1>1, <1>2, RequestDefaults DEF RequestMediation, RequestAndAwaitGrant, Provision

\* The copies that a call takes of all defaults.
FoundDefaults == [i \in MediationIds |-> IF i \in Defaults THEN mediations[i] ELSE Nothing]

LEMMA AllDefaultsFound ==
  ASSUME MediationInv, NEW i \in Defaults
  PROVE  FoundDefaults[i] # Nothing
BY DEF FoundDefaults, Defaults, Saved

LEMMA WriteStateDefaults ==
  ASSUME MediationInv, DefaultInv, WriteState
  PROVE  DefaultInv'
<1> DEFINE id     == handling.id
           granted == handling.message.type = "mediate-grant"
           record == [handling.read EXCEPT !.state = IF granted THEN "granted" ELSE "denied"]
<1>1. /\ handling.message # Nothing
      /\ Write(id, handling.read, record)
      /\ IF granted THEN Granted(id, record) ELSE UNCHANGED awaiting
  BY DEF WriteState
<1>2. id \in MediationIds /\ Agrees(id, handling.read) /\ (granted => IsGranted(id))
  BY <1>1 DEF MediationInv, SoundHandling
<1>3. Agrees(id, record) /\ record.default = handling.read.default
  <2>1. /\ record \in RecipientRecordType /\ record.default = handling.read.default
        /\ record.mediator = handling.read.mediator
        /\ record.state = "granted" => granted
    BY <1>2 DEF Agrees, RecipientRecordType, MediationStates
  <2> HIDE DEF record
  <2> QED
    BY <1>2, <2>1 DEF Agrees
<1> HIDE DEF record
<1>4. raced' = {} => raced = {} /\ Defaults' = Defaults
  BY <1>1, <1>2, <1>3, WriteKeepsDefaults
<1>5. ASSUME NEW c \in MediationCallers, granted, awaiting'[c].pc = "clearDefaults"
      PROVE  awaiting'[c] = awaiting[c] \/ awaiting'[c].defaults = FoundDefaults
  <2> DEFINE call == [NoCall EXCEPT !.pc = "clearDefaults", !.id = id, !.copy = record,
                      !.defaults = FoundDefaults]
  <2>1. \/ awaiting'[c] = awaiting[c]
        \/ awaiting'[c] = NoCall
        \/ awaiting'[c] = call
    BY <1>1, <1>5 DEF Granted, FoundDefaults
  <2>2. NoCall.pc # "clearDefaults" /\ call.defaults = FoundDefaults
    BY DEF NoCall
  <2> HIDE DEF call
  <2> QED
    BY <1>5, <2>1, <2>2
<1> QED
  BY <1>1, <1>4, <1>5, AllDefaultsFound, DefaultsKept

LEMMA WriteKeylistDefaults ==
  ASSUME MediationInv, DefaultInv, WriteKeylist
  PROVE  DefaultInv'
<1> DEFINE id     == handling.id
           record == [handling.read EXCEPT !.keys = ApplyUpdate(@, handling.message.update)]
<1>1. /\ handling.message # Nothing /\ handling.message.type = "keylist-update-response"
      /\ Write(id, handling.read, record)
      /\ \A c \in MediationCallers : awaiting'[c] = NoCall \/ awaiting'[c] = awaiting[c]
  BY DEF WriteKeylist
<1>2. /\ id \in MediationIds /\ Agrees(id, handling.read)
      /\ handling.message.update \in KeylistUpdates
  BY <1>1 DEF MediationInv, SoundHandling, MediationTypeOK, MediationMessageType
<1>3. Agrees(id, record) /\ record.default = handling.read.default
  <2>1. ApplyUpdate(handling.read.keys, handling.message.update) \in Seq(RoutingKeys)
    BY <1>2, ApplyUpdateType DEF Agrees, RecipientRecordType
  <2> QED
    BY <1>2, <2>1 DEF Agrees, RecipientRecordType
<1> HIDE DEF record
<1>4. raced' = {} => raced = {} /\ Defaults' = Defaults
  BY <1>1, <1>2, <1>3, WriteKeepsDefaults
<1>5. NoCall.pc # "clearDefaults"
  BY DEF NoCall
<1> QED
  BY <1>1, <1>4, <1>5, DefaultsKept

LEMMA SetDefaultMediatorDefaults ==
  ASSUME MediationInv, DefaultInv, NEW c \in MediationCallers, NEW id \in MediationIds,
         NEW copy, SetDefaultMediator(c, id, copy)
  PROVE  DefaultInv'
<1> DEFINE call == [NoCall EXCEPT !.pc = "clearDefaults", !.id = id, !.copy = copy,
                    !.defaults = FoundDefaults]
<1>1. Continues(c, call) /\ UNCHANGED <<mediations, raced>>
  BY DEF SetDefaultMediator, FoundDefaults
<1>2. call.defaults = FoundDefaults
  BY DEF NoCall
<1>3. Defaults' = Defaults
  BY <1>1 DEF Defaults, Saved
<1> HIDE DEF call
<1>4. \A d \in MediationCallers :
        awaiting'[d] = awaiting[d] \/ awaiting'[d].defaults = FoundDefaults
  BY <1>1, <1>2, GoesOn
<1> QED
  BY <1>1, <1>3, <1>4, AllDefaultsFound, DefaultsKept

LEMMA ClearOneDefaultDefaults ==
  ASSUME MediationInv, DefaultInv, NEW c \in MediationCallers, NEW id \in MediationIds,
         ClearOneDefault(c, id)
  PROVE  DefaultInv'
<1> DEFINE read == awaiting[c].defaults[id]
           call == [awaiting[c] EXCEPT !.defaults[id] = Nothing]
<1>1. /\ awaiting[c].pc = "clearDefaults" /\ read # Nothing
      /\ Write(id, read, [read EXCEPT !.default = FALSE])
      /\ Continues(c, call)
  BY DEF ClearOneDefault
<1>2. awaiting[c] \in CallType /\ SoundCall(awaiting[c])
  BY DEF MediationInv, MediationTypeOK
<1>3. Agrees(id, read)
  BY <1>1, <1>2 DEF SoundCall
<1>4. raced' = {} => raced = {} /\ Defaults' = Defaults \ {id}
  BY <1>1, <1>3, WriteClearsDefault
<1>5. \A i \in MediationIds : i # id => call.defaults[i] = awaiting[c].defaults[i]
  BY <1>2 DEF CallType
<1> HIDE DEF call
<1>6. raced = {} => \A i \in Defaults : awaiting[c].defaults[i] # Nothing
  BY <1>1 DEF DefaultInv
<1>7. Defaults \subseteq MediationIds
  BY DEF Defaults, Saved
<1>8. raced' = {} => \A i \in Defaults' : call.defaults[i] # Nothing
  BY <1>4, <1>5, <1>6, <1>7
<1> QED
  BY <1>1, <1>4, <1>8, GoesOn, DefaultsKept

\* The call has cleared what it found, and has found whatever is a default now.
LEMMA WriteDefaultDefaults ==
  ASSUME MediationInv, DefaultInv, NEW c \in MediationCallers, WriteDefault(c)
  PROVE  DefaultInv'
<1> DEFINE id == awaiting[c].id
<1> SUFFICES ASSUME raced' = {}
             PROVE  /\ \A i, j \in Defaults' : i = j
                    /\ \A d \in MediationCallers : awaiting'[d].pc # "clearDefaults"
  BY DEF DefaultInv
<1>1. /\ awaiting[c].pc = "clearDefaults" /\ awaiting[c].defaults = NoDefaults
      /\ Continues(c, NoCall) /\ raced = {}
      /\ \A d \in MediationCallers \ {c} : awaiting[d].pc # "clearDefaults"
      /\ mediations' = [mediations EXCEPT ![id] = [awaiting[c].copy EXCEPT !.default = TRUE]]
  BY DEF WriteDefault
<1>2. Defaults = {}
  BY <1>1 DEF DefaultInv, NoDefaults, Defaults, Saved
<1>3. \A i \in Defaults' : i = id
  BY <1>1, <1>2 DEF Defaults, Saved, MediationInv, MediationTypeOK
<1>4. NoCall.pc # "clearDefaults"
  BY DEF NoCall
<1> QED
  BY <1>1, <1>3, <1>4, GoesOn

LEMMA ClearDefaultMediatorDefaults ==
  ASSUME MediationInv, DefaultInv, NEW c \in MediationCallers, ClearDefaultMediator(c)
  PROVE  DefaultInv'
<1>1. PICK id \in Saved : Write(id, mediations[id], [mediations[id] EXCEPT !.default = FALSE])
  BY DEF ClearDefaultMediator
<1>2. UNCHANGED awaiting
  BY DEF ClearDefaultMediator
<1>3. id \in MediationIds /\ Agrees(id, mediations[id])
  BY DEF Saved, MediationInv
<1>4. raced' = {} => raced = {} /\ Defaults' = Defaults \ {id}
  BY <1>1, <1>3, WriteClearsDefault
<1> QED
  BY <1>2, <1>4, DefaultsKept

LEMMA SaveStrategyDefaults ==
  ASSUME MediationInv, DefaultInv, NEW c \in MediationCallers, SaveStrategy(c)
  PROVE  DefaultInv'
<1> DEFINE id == awaiting[c].id
           record == [awaiting[c].copy EXCEPT !.strategy = "discovered"]
<1>1. /\ awaiting[c].pc = "saveStrategy" /\ Write(id, awaiting[c].copy, record)
      /\ Continues(c, NoCall)
  BY DEF SaveStrategy
<1>2. SoundCall(awaiting[c])
  BY DEF MediationInv
<1>3. id \in MediationIds /\ Agrees(id, awaiting[c].copy)
  BY <1>1, <1>2 DEF SoundCall
<1>4. Agrees(id, record) /\ record.default = awaiting[c].copy.default
  BY <1>3 DEF Agrees, RecipientRecordType
<1> HIDE DEF record
<1>5. raced' = {} => raced = {} /\ Defaults' = Defaults
  BY <1>1, <1>3, <1>4, WriteKeepsDefaults
<1>6. NoCall.pc # "clearDefaults"
  BY DEF NoCall
<1> QED
  BY <1>1, <1>5, <1>6, GoesOn, DefaultsKept

\* The other steps write no record of the recipient.
LEMMA OtherStepsDefaults ==
  ASSUME MediationInv, DefaultInv,
         \/ UNCHANGED mediationVars
         \/ \E c \in MediationCallers :
              \/ \E id \in MediationIds :
                   \/ \E named \in BOOLEAN : GetRouting(c, id, named)
                   \/ \E key \in RoutingKeys :
                        \/ RemoveRouting(c, id, key)
                        \/ \E action \in KeylistActions : NotifyKeylistUpdate(c, id, key, action)
                   \/ DiscoverStrategy(c, id)
              \/ Timeout(c)
         \/ \E msg \in mediationNet :
              \/ ReceiveRequest(msg) \/ ReceiveKeylistUpdate(msg)
              \/ ProcessMediationGrant(msg) \/ ProcessMediationDeny(msg)
              \/ ProcessKeylistUpdateResults(msg)
         \/ \E id \in MediationIds : GrantMediation(id) \/ DenyMediation(id)
  PROVE  DefaultInv'
<1>1. CASE UNCHANGED mediationVars
  BY <1>1, UnwrittenDefaults DEF mediationVars
<1>2. ASSUME NEW c \in MediationCallers, NEW id \in MediationIds, NEW update, NEW key,
             KeylistUpdateAndAwait(c, id, update, key)
      PROVE  DefaultInv'
  <2> DEFINE call == [NoCall EXCEPT !.pc = "awaitKeylist", !.id = id, !.key = key]
  <2>1. call.pc # "clearDefaults"
    BY DEF NoCall
  <2>2. Continues(c, call) /\ UNCHANGED <<mediations, raced>>
    BY <1>2 DEF KeylistUpdateAndAwait
  <2> HIDE DEF call
  <2> QED
    BY <2>1, <2>2, UnwrittenDefaults
<1>3. ASSUME NEW c \in MediationCallers, NEW id \in MediationIds,
             \/ \E named \in BOOLEAN : GetRouting(c, id, named)
             \/ \E key \in RoutingKeys : RemoveRouting(c, id, key)
      PROVE  DefaultInv'
  BY <1>2, <1>3 DEF GetRouting, RemoveRouting
<1>4. ASSUME NEW c \in MediationCallers, NEW id, NEW key, NEW action,
             NotifyKeylistUpdate(c, id, key, action)
      PROVE  DefaultInv'
  BY <1>4, UnwrittenDefaults DEF NotifyKeylistUpdate
<1>5. ASSUME NEW c \in MediationCallers, NEW id, DiscoverStrategy(c, id)
      PROVE  DefaultInv'
  <2> DEFINE call == [NoCall EXCEPT !.pc = "saveStrategy", !.id = id, !.copy = mediations[id]]
  <2>1. call.pc # "clearDefaults"
    BY DEF NoCall
  <2>2. Continues(c, call) /\ UNCHANGED <<mediations, raced>>
    BY <1>5 DEF DiscoverStrategy
  <2> HIDE DEF call
  <2> QED
    BY <2>1, <2>2, UnwrittenDefaults
<1>6. ASSUME NEW c \in MediationCallers, Timeout(c)
      PROVE  DefaultInv'
  <2>1. NoCall.pc # "clearDefaults"
    BY DEF NoCall
  <2> QED
    BY <1>6, <2>1, UnwrittenDefaults DEF Timeout
<1>7. ASSUME NEW msg,
             \/ ReceiveRequest(msg) \/ ReceiveKeylistUpdate(msg)
             \/ ProcessMediationGrant(msg) \/ ProcessMediationDeny(msg)
             \/ ProcessKeylistUpdateResults(msg)
      PROVE  DefaultInv'
  BY <1>7, UnwrittenDefaults
  DEF ReceiveRequest, ReceiveKeylistUpdate, ProcessMediationGrant, ProcessMediationDeny,
      ProcessKeylistUpdateResults, Reads
<1>8. ASSUME NEW id, GrantMediation(id) \/ DenyMediation(id)
      PROVE  DefaultInv'
  BY <1>8, UnwrittenDefaults DEF GrantMediation, DenyMediation
<1> QED
  BY <1>1, <1>3, <1>4, <1>5, <1>6, <1>7, <1>8

LEMMA DefaultInvHolds == MediationSpec => []DefaultInv
<1>1. MediationInit => DefaultInv
  BY DEF MediationInit, DefaultInv, Defaults, Saved, NoCall
<1>2. MediationInv /\ DefaultInv /\ [MediationNext]_mediationVars => DefaultInv'
  <2> SUFFICES ASSUME MediationInv, DefaultInv, [MediationNext]_mediationVars
               PROVE  DefaultInv'
    OBVIOUS
  <2>1. CASE MediationCallNext
    <3>1. PICK c \in MediationCallers :
            \/ \E m \in Mediators : RequestMediation(c, m) \/ RequestAndAwaitGrant(c, m) \/ Provision(c, m)
            \/ \E id \in MediationIds :
                 \/ \E named \in BOOLEAN : GetRouting(c, id, named)
                 \/ \E key \in RoutingKeys :
                      \/ RemoveRouting(c, id, key)
                      \/ \E action \in KeylistActions : NotifyKeylistUpdate(c, id, key, action)
                 \/ \E copy : SetDefaultMediator(c, id, copy)
                 \/ ClearOneDefault(c, id)
                 \/ DiscoverStrategy(c, id)
            \/ WriteDefault(c) \/ ClearDefaultMediator(c) \/ SaveStrategy(c) \/ Timeout(c)
      BY <2>1 DEF MediationCallNext
    <3> QED
      BY <3>1, RequestsDefaults, SetDefaultMediatorDefaults, ClearOneDefaultDefaults,
         WriteDefaultDefaults, ClearDefaultMediatorDefaults, SaveStrategyDefaults,
         OtherStepsDefaults
  <2> QED
    BY <2>1, OtherStepsDefaults, WriteStateDefaults, WriteKeylistDefaults DEF MediationNext
<1> QED
  BY <1>1, <1>2, MediationInvHolds, PTL DEF MediationSpec

-------------------------------------------------------------------------------
(* Routed keys *)

Routed(key) == \E id \in MediationIds : served[id] # Nothing /\ Contains(served[id].keys, key)

Adds(update, key) == update = [action |-> "add", key |-> key]

\* The mediator of this record is that of no other: messages from it can be handled.
IsOnlyRecord(id) ==
  \A i \in Saved : mediations[i].mediator = mediations[id].mediator => i = id

\* The handler is about to write the update in an answer to this record.
Updating(id) ==
  handling.message # Nothing /\ handling.message.update # Nothing /\ handling.id = id

\* The updates under way that can end the wait of a call are its own, as long as its
\* key is not shared; once it is answered the mediator routes the key.
SoundWait(call) ==
  call.key # Nothing =>
    /\ call.pc = "awaitKeylist" /\ mediations[call.id] # Nothing
    /\ call.key \notin handed
    /\ call.key \notin shared =>
         /\ IsOnlyRecord(call.id) =>
              \A msg \in mediationNet :
                msg.update # Nothing /\ msg.mediator = mediations[call.id].mediator =>
                  /\ Adds(msg.update, call.key)
                  /\ msg.type = "keylist-update-response" => Routed(call.key)
         /\ Updating(call.id) => Adds(handling.message.update, call.key) /\ Routed(call.key)

\* No update withdraws a key that was handed out or that a call waits for.
SoundRemoval(msg) ==
  msg.update # Nothing /\ msg.update.action = "remove" =>
    /\ msg.update.key \notin handed
    /\ \A c \in MediationCallers : awaiting[c].key # msg.update.key

RoutedInv ==
  /\ HandedKeysAreRouted
  /\ \A c \in MediationCallers : SoundWait(awaiting[c])
  /\ \A msg \in mediationNet : SoundRemoval(msg)
  /\ \A c, d \in MediationCallers :
       awaiting[c].key # Nothing /\ awaiting[c].key = awaiting[d].key => c = d

\* Appending a key, or removing another one, keeps a key in a keylist.
LEMMA AppendContains ==
  ASSUME NEW S, NEW s \in Seq(S), NEW e \in S
  PROVE  /\ Contains(Append(s, e), e)
         /\ \A x : Contains(s, x) => Contains(Append(s, e), x)
BY DEF Contains

LEMMA RemoveFirstKeepsOthers ==
  ASSUME NEW S, NEW s \in Seq(S), NEW e, NEW x, x # e, Contains(s, x)
  PROVE  Contains(RemoveFirst(s, e), x)
<1> DEFINE I == {i \in 1 .. Len(s) : s[i] = e}
           k == Min(I)
<1>1. CASE \E i \in 1 .. Len(s) : s[i] = e
  <2>1. I # {} /\ I \subseteq Nat
    BY <1>1
  <2>2. k \in 1 .. Len(s) /\ s[k] = e
    BY <2>1, MinIsElement
  <2>3. RemoveFirst(s, e) = SubSeq(s, 1, k - 1) \o SubSeq(s, k + 1, Len(s))
    BY <1>1, <2>1 DEF RemoveFirst, RemoveAt, SelectInSeq
  <2> HIDE DEF k
  <2>4. PICK i \in 1 .. Len(s) : s[i] = x
    BY DEF Contains
  <2> DEFINE before == SubSeq(s, 1, k - 1)
             after  == SubSeq(s, k + 1, Len(s))
  <2>5. /\ before \in Seq(S) /\ Len(before) = k - 1 /\ \A j \in 1 .. k - 1 : before[j] = s[j]
        /\ after \in Seq(S) /\ Len(after) = Len(s) - k
        /\ \A j \in 1 .. Len(s) - k : after[j] = s[k + j]
    BY <2>2
  <2> HIDE DEF before, after
  <2>6. CASE i < k
    <3>1. i \in 1 .. Len(before \o after) /\ (before \o after)[i] = x
      BY <2>2, <2>4, <2>5, <2>6
    <3> QED
      BY <2>3, <3>1 DEF Contains, before, after
  <2>7. CASE i > k
    <3>1. /\ i - 1 \in 1 .. Len(before \o after)
          /\ (before \o after)[i - 1] = after[i - k]
      BY <2>2, <2>4, <2>5, <2>7
    <3>2. after[i - k] = s[k + (i - k)]
      BY <2>2, <2>4, <2>5, <2>7
    <3>3. (before \o after)[i - 1] = x
      BY <2>2, <2>4, <3>1, <3>2
    <3> QED
      BY <2>3, <3>1, <3>3 DEF Contains, before, after
  <2> QED
    BY <2>2, <2>4, <2>6, <2>7
<1>2. CASE ~ \E i \in 1 .. Len(s) : s[i] = e
  BY <1>2 DEF RemoveFirst
<1> QED BY <1>1, <1>2

\* What the mediator routes after an update.
LEMMA UpdateRoutes ==
  ASSUME NEW keys \in Seq(RoutingKeys), NEW update \in KeylistUpdates
  PROVE  /\ update.action = "add" => Contains(ApplyUpdate(keys, update), update.key)
         /\ \A key : Contains(keys, key) /\ ~(update.action = "remove" /\ update.key = key)
              => Contains(ApplyUpdate(keys, update), key)
<1>1. update.key \in RoutingKeys /\ update.action \in {"add", "remove"}
  BY DEF KeylistUpdates, KeylistActions
<1>2. CASE update.action = "add"
  BY <1>1, <1>2, AppendContains DEF ApplyUpdate
<1>3. CASE update.action = "remove"
  <2>1. ApplyUpdate(keys, update) = RemoveFirst(keys, update.key)
    BY <1>3 DEF ApplyUpdate
  <2> QED
    BY <1>3, <2>1, RemoveFirstKeepsOthers
<1> QED
  BY <1>1, <1>2, <1>3

\* Records stay, with their mediator.
RecordsStay ==
  \A id \in Saved :
    mediations'[id] # Nothing /\ mediations'[id].mediator = mediations[id].mediator

LEMMA WrittenRecordsStay ==
  ASSUME MediationInv, NEW id \in MediationIds, NEW record, Agrees(id, record),
         mediations' = [mediations EXCEPT ![id] = record]
  PROVE  RecordsStay
<1>1. record # Nothing /\ record.mediator = mediations[id].mediator
  BY MediationAssumption DEF Agrees
<1> QED
  BY <1>1 DEF RecordsStay, Saved, MediationInv, MediationTypeOK

LEMMA OnlyRecordBefore ==
  ASSUME RecordsStay, NEW id \in Saved, IsOnlyRecord(id)'
  PROVE  IsOnlyRecord(id)
<1> SUFFICES ASSUME NEW i \in Saved, mediations[i].mediator = mediations[id].mediator
             PROVE  i = id
  BY DEF IsOnlyRecord
<1>1. i \in Saved' /\ mediations'[i].mediator = mediations'[id].mediator
  BY DEF RecordsStay, Saved
<1> QED
  BY <1>1 DEF IsOnlyRecord

\* A call that waits, in a step that sends and handles no other update.
LEMMA SoundWaitStays ==
  ASSUME MediationInv, RecordsStay, NEW c \in MediationCallers, NEW k, k = awaiting[c],
         SoundWait(k), k.key \notin handed', shared \subseteq shared',
         \A msg \in mediationNet' : msg.update # Nothing => msg \in mediationNet,
         Updating(k.id)' => Updating(k.id) /\ UNCHANGED handling,
         Routed(k.key) => Routed(k.key)'
  PROVE  SoundWait(k)'
<1>1. CASE k.key = Nothing
  BY <1>1 DEF SoundWait
<1>2. CASE k.key # Nothing
  <2>1. k.pc = "awaitKeylist" /\ k.id \in Saved
    BY <1>2 DEF SoundWait, SoundCall, MediationInv, Saved
  <2>2. mediations'[k.id] # Nothing /\ mediations'[k.id].mediator = mediations[k.id].mediator
    BY <2>1 DEF RecordsStay
  <2>3. IsOnlyRecord(k.id)' => IsOnlyRecord(k.id)
    BY <2>1, OnlyRecordBefore
  <2>4. k.key \notin shared' => k.key \notin shared
    OBVIOUS
  <2> QED
    BY <1>2, <2>1, <2>2, <2>3, <2>4 DEF SoundWait, Adds
<1> QED
  BY <1>1, <1>2

\* A step that leaves keylist updates and those who wait for them alone.
LEMMA RoutedKept ==
  ASSUME MediationInv, RoutedInv, RecordsStay,
         \A key : Routed(key) => Routed(key)',
         \A msg \in mediationNet' : msg.update # Nothing => msg \in mediationNet,
         \/ UNCHANGED handling
         \/ handling'.message = Nothing \/ handling'.message.update = Nothing,
         \A c \in MediationCallers :
           awaiting'[c] = awaiting[c] \/ awaiting'[c].key = Nothing,
         UNCHANGED <<handed, shared>>
  PROVE  RoutedInv'
<1>1. \A id : Updating(id)' => Updating(id) /\ UNCHANGED handling
  BY DEF Updating
<1>2. HandedKeysAreRouted'
  BY DEF RoutedInv, HandedKeysAreRouted, Routed
<1>3. ASSUME NEW c \in MediationCallers
      PROVE  SoundWait(awaiting[c])'
  <2>1. CASE awaiting'[c].key = Nothing
    BY <2>1 DEF SoundWait
  <2>2. CASE awaiting'[c] = awaiting[c] /\ awaiting[c].key # Nothing
    <3>1. SoundWait(awaiting[c]) /\ awaiting[c].key \notin handed'
      BY <2>2 DEF RoutedInv, SoundWait
    <3>2. PICK k : k = awaiting[c]
      OBVIOUS
    <3>3. SoundWait(k)'
      BY <1>1, <3>1, <3>2, SoundWaitStays
    <3> QED
      BY <2>2, <3>2, <3>3 DEF SoundWait
  <2> QED
    BY <2>1, <2>2
<1>4. \A msg \in mediationNet' : SoundRemoval(msg)'
  <2>1. ASSUME NEW msg \in mediationNet', msg.update # Nothing, msg.update.action = "remove"
        PROVE  /\ msg.update.key \notin handed
               /\ \A c \in MediationCallers : awaiting'[c].key # msg.update.key
    <3>1. msg \in mediationNet /\ SoundRemoval(msg)
      BY <2>1 DEF RoutedInv
    <3>2. msg.update.key # Nothing
      BY <2>1, <3>1, MediationAssumption
      DEF MediationInv, MediationTypeOK, MediationMessageType, KeylistUpdates
    <3> QED
      BY <2>1, <3>1, <3>2 DEF SoundRemoval
  <2> QED
    BY <2>1 DEF SoundRemoval
<1>5. \A c, d \in MediationCallers :
        awaiting'[c].key # Nothing /\ awaiting'[c].key = awaiting'[d].key => c = d
  BY DEF RoutedInv
<1> QED
  BY <1>2, <1>3, <1>4, <1>5 DEF RoutedInv

\* In particular one that writes no record.
LEMMA UnwrittenRoutes ==
  ASSUME UNCHANGED <<mediations, served>>
  PROVE  RecordsStay /\ \A key : Routed(key) => Routed(key)'
BY DEF RecordsStay, Routed, Saved

\* A step of the recipient that writes one record, and sends nothing.
LEMMA WritingRoutes ==
  ASSUME MediationInv, RoutedInv, NEW id \in MediationIds, NEW record, Agrees(id, record),
         mediations' = [mediations EXCEPT ![id] = record],
         UNCHANGED <<served, mediationNet, handed, shared>>,
         UNCHANGED handling \/ handling' = NotHandling,
         \A c \in MediationCallers :
           awaiting'[c] = awaiting[c] \/ awaiting'[c].key = Nothing
  PROVE  RoutedInv'
<1>1. RecordsStay
  BY WrittenRecordsStay
<1>2. \A key : Routed(key) => Routed(key)'
  BY DEF Routed
<1>3. NotHandling.message = Nothing
  BY DEF NotHandling
<1> QED
  BY <1>1, <1>2, <1>3, RoutedKept

\* A step that writes nothing.
LEMMA NotWritingRoutes ==
  ASSUME MediationInv, RoutedInv,
         UNCHANGED <<mediations, served, mediationNet, handling, handed, shared>>,
         \A c \in MediationCallers :
           awaiting'[c] = awaiting[c] \/ awaiting'[c].key = Nothing
  PROVE  RoutedInv'
BY UnwrittenRoutes, RoutedKept

LEMMA RequestRoutes ==
  ASSUME MediationInv, RoutedInv, NEW c \in MediationCallers, NEW m \in Mediators,
         NEW call \in CallType, call.key = Nothing, SendRequest(c, m, call)
  PROVE  RoutedInv'
<1>1. PICK id \in MediationIds :
        /\ mediations[id] = Nothing
        /\ mediations' = [mediations EXCEPT ![id] =
             [mediator |-> m, state |-> "requested", keys |-> <<>>, default |-> FALSE,
              strategy |-> Nothing]]
        /\ mediationNet' = mediationNet \cup {RequestMessage(m, id)}
        /\ Continues(c, [call EXCEPT !.id = id])
        /\ UNCHANGED <<served, handling, handed, shared>>
  BY DEF SendRequest, FreshMediationId
<1>2. RecordsStay
  BY <1>1 DEF RecordsStay, Saved, MediationInv, MediationTypeOK
<1>3. \A key : Routed(key) => Routed(key)'
  BY <1>1 DEF Routed
<1>4. [call EXCEPT !.id = id].key = Nothing
  BY DEF CallType
<1>5. \A msg \in mediationNet' : msg.update # Nothing => msg \in mediationNet
  BY <1>1 DEF RequestMessage
<1>6. \A d \in MediationCallers : awaiting'[d] = awaiting[d] \/ awaiting'[d].key = Nothing
  BY <1>1, <1>4, GoesOn
<1> QED
  BY <1>1, <1>2, <1>3, <1>5, <1>6, RoutedKept

LEMMA RequestsRoute ==
  ASSUME MediationInv, RoutedInv, NEW c \in MediationCallers, NEW m \in Mediators,
         RequestMediation(c, m) \/ RequestAndAwaitGrant(c, m) \/ Provision(c, m)
  PROVE  RoutedInv'
<1>1. NoCall \in CallType /\ NoCall.key = Nothing
  BY WaitsIsSound DEF Waits, NoCall
<1>2. /\ [NoCall EXCEPT !.pc = "awaitGrant"] \in CallType
      /\ [NoCall EXCEPT !.pc = "awaitGrant"].key = Nothing
      /\ [NoCall EXCEPT !.pc = "awaitGrant", !.provision = TRUE] \in CallType
      /\ [NoCall EXCEPT !.pc = "awaitGrant", !.provision = TRUE].key = Nothing
  BY <1>1 DEF CallType
<1> QED
  BY <1>1, <1>2, RequestRoutes DEF RequestMediation, RequestAndAwaitGrant, Provision

\* The mediator saves and answers a request.
LEMMA ServingRoutes ==
  ASSUME MediationInv, RoutedInv,
         \/ \E msg \in mediationNet : ReceiveRequest(msg)
         \/ \E id \in MediationIds : GrantMediation(id) \/ DenyMediation(id)
  PROVE  RoutedInv'
<1>1. PICK id \in MediationIds : \E record :
        /\ served' = [served EXCEPT ![id] = record]
        /\ served[id] # Nothing => record # Nothing /\ record.keys = served[id].keys
  <2>1. ASSUME NEW msg \in mediationNet, ReceiveRequest(msg)
        PROVE  \E id \in MediationIds : \E record :
                 served' = [served EXCEPT ![id] = record] /\ served[id] = Nothing
    <3>1. msg.id \in MediationIds /\ served[msg.id] = Nothing
      BY <2>1 DEF ReceiveRequest, MediationInv, SoundMessage
    <3> QED
      BY <2>1, <3>1 DEF ReceiveRequest
  <2>2. ASSUME NEW id \in MediationIds, GrantMediation(id) \/ DenyMediation(id)
        PROVE  \E record :
                 /\ served' = [served EXCEPT ![id] = record]
                 /\ record # Nothing /\ record.keys = served[id].keys
    <3>1. served[id] \in MediatorRecordType
      BY <2>2 DEF GrantMediation, DenyMediation, MediationInv, MediationTypeOK
    <3>2. PICK state \in {"granted", "denied"} : served' = [served EXCEPT ![id].state = state]
      BY <2>2 DEF GrantMediation, DenyMediation
    <3>3. /\ [served[id] EXCEPT !.state = state] \in MediatorRecordType
          /\ [served[id] EXCEPT !.state = state].keys = served[id].keys
      BY <3>1 DEF MediatorRecordType, MediationStates
    <3> QED
      BY <3>2, <3>3, MediationAssumption
  <2> QED
    BY <2>1, <2>2
<1>2. \A key : Routed(key) => Routed(key)'
  BY <1>1 DEF Routed, MediationInv, MediationTypeOK
<1>3. RecordsStay
  BY DEF RecordsStay, Saved, ReceiveRequest, GrantMediation, DenyMediation
<1>4. \A msg \in mediationNet' : msg.update # Nothing => msg \in mediationNet
  <2>1. ASSUME NEW msg \in mediationNet, ReceiveRequest(msg)
        PROVE  mediationNet' \subseteq mediationNet
    BY <2>1 DEF ReceiveRequest
  <2>2. ASSUME NEW i, GrantMediation(i) \/ DenyMediation(i)
        PROVE  \E sent : sent.update = Nothing /\ mediationNet' = mediationNet \cup {sent}
    BY <2>2 DEF GrantMediation, DenyMediation, GrantMessage, DenyMessage
  <2> QED
    BY <2>1, <2>2
<1>5. UNCHANGED <<awaiting, handling, handed, shared>>
  BY DEF ReceiveRequest, GrantMediation, DenyMediation
<1> QED
  BY <1>2, <1>3, <1>4, <1>5, RoutedKept

LEMMA ReadAnswerRoutes ==
  ASSUME MediationInv, RoutedInv, NEW msg \in mediationNet,
         ProcessMediationGrant(msg) \/ ProcessMediationDeny(msg)
  PROVE  RoutedInv'
<1>1. /\ msg.type \in {"mediate-grant", "mediate-deny"} /\ mediationNet' = mediationNet \ {msg}
      /\ handling'.message = msg
      /\ UNCHANGED <<mediations, served, awaiting, handed, shared>>
  BY DEF ProcessMediationGrant, ProcessMediationDeny, Reads
<1>2. msg.update = Nothing
  BY <1>1 DEF MediationInv, SoundMessage
<1> QED
  BY <1>1, <1>2, UnwrittenRoutes, RoutedKept

LEMMA WriteStateRoutes ==
  ASSUME MediationInv, RoutedInv, WriteState
  PROVE  RoutedInv'
<1> DEFINE id     == handling.id
           granted == handling.message.type = "mediate-grant"
           record == [handling.read EXCEPT !.state = IF granted THEN "granted" ELSE "denied"]
<1>1. /\ handling.message # Nothing
      /\ Write(id, handling.read, record)
      /\ IF granted THEN Granted(id, record) ELSE UNCHANGED awaiting
      /\ UNCHANGED <<served, mediationNet, handed, shared>> /\ handling' = NotHandling
  BY DEF WriteState
<1>2. id \in MediationIds /\ Agrees(id, handling.read) /\ (granted => IsGranted(id))
  BY <1>1 DEF MediationInv, SoundHandling
<1>3. Agrees(id, record)
  <2>1. /\ record \in RecipientRecordType /\ record.mediator = handling.read.mediator
        /\ record.state = "granted" => granted
    BY <1>2 DEF Agrees, RecipientRecordType, MediationStates
  <2> HIDE DEF record
  <2> QED
    BY <1>2, <2>1 DEF Agrees
<1> HIDE DEF record
<1>4. ASSUME NEW c \in MediationCallers, granted
      PROVE  awaiting'[c] = awaiting[c] \/ awaiting'[c].key = Nothing
  <2> DEFINE call == [NoCall EXCEPT !.pc = "clearDefaults", !.id = id, !.copy = record,
                      !.defaults = FoundDefaults]
  <2>1. \/ awaiting'[c] = awaiting[c]
        \/ awaiting'[c] = NoCall
        \/ awaiting'[c] = call
    BY <1>1, <1>4 DEF Granted, FoundDefaults
  <2>2. NoCall.key = Nothing /\ call.key = Nothing
    BY DEF NoCall
  <2> HIDE DEF call
  <2> QED
    BY <2>1, <2>2
<1>5. mediations' = [mediations EXCEPT ![id] = record]
  BY <1>1 DEF Write
<1> QED
  BY <1>1, <1>2, <1>3, <1>4, <1>5, WritingRoutes

LEMMA CallsRoute ==
  ASSUME MediationInv, RoutedInv, NEW c \in MediationCallers,
         \/ \E id \in MediationIds :
              (\E copy : SetDefaultMediator(c, id, copy)) \/ DiscoverStrategy(c, id)
         \/ Timeout(c)
  PROVE  RoutedInv'
<1>1. UNCHANGED <<mediations, served, mediationNet, handling, handed, shared>>
  BY DEF SetDefaultMediator, DiscoverStrategy, Timeout
<1>2. PICK call : Continues(c, call) /\ call.key = Nothing
  <2>1. ASSUME NEW id, NEW copy, SetDefaultMediator(c, id, copy)
        PROVE  \E call : Continues(c, call) /\ call.key = Nothing
    <3> DEFINE call == [NoCall EXCEPT !.pc = "clearDefaults", !.id = id, !.copy = copy,
                        !.defaults = FoundDefaults]
    <3>1. Continues(c, call)
      BY <2>1 DEF SetDefaultMediator, FoundDefaults
    <3>2. call.key = Nothing
      BY DEF NoCall
    <3> QED
      BY <3>1, <3>2
  <2>2. ASSUME NEW id, DiscoverStrategy(c, id)
        PROVE  \E call : Continues(c, call) /\ call.key = Nothing
    <3> DEFINE call == [NoCall EXCEPT !.pc = "saveStrategy", !.id = id, !.copy = mediations[id]]
    <3>1. Continues(c, call)
      BY <2>2 DEF DiscoverStrategy
    <3>2. call.key = Nothing
      BY DEF NoCall
    <3> QED
      BY <3>1, <3>2
  <2>3. ASSUME Timeout(c)
        PROVE  \E call : Continues(c, call) /\ call.key = Nothing
    BY <2>3 DEF Timeout, NoCall
  <2> QED
    BY <2>1, <2>2, <2>3
<1>3. \A d \in MediationCallers : awaiting'[d] = awaiting[d] \/ awaiting'[d].key = Nothing
  BY <1>2, GoesOn
<1> QED
  BY <1>1, <1>3, NotWritingRoutes

\* The calls that write a record which is, or was, a default.
LEMMA WritingCallsRoute ==
  ASSUME MediationInv, RoutedInv, NEW c \in MediationCallers,
         \/ \E id \in MediationIds : ClearOneDefault(c, id)
         \/ WriteDefault(c) \/ ClearDefaultMediator(c) \/ SaveStrategy(c)
  PROVE  RoutedInv'
<1>1. awaiting[c] \in CallType /\ SoundCall(awaiting[c])
  BY DEF MediationInv, MediationTypeOK
<1>2. NoCall.key = Nothing
  BY DEF NoCall
<1>3. UNCHANGED <<served, mediationNet, handling, handed, shared>>
  BY DEF ClearOneDefault, WriteDefault, ClearDefaultMediator, SaveStrategy
<1>4. ASSUME NEW id \in MediationIds, ClearOneDefault(c, id)
      PROVE  RoutedInv'
  <2> DEFINE read == awaiting[c].defaults[id]
             record == [read EXCEPT !.default = FALSE]
             call == [awaiting[c] EXCEPT !.defaults[id] = Nothing]
  <2>1. /\ awaiting[c].pc = "clearDefaults" /\ read # Nothing
        /\ mediations' = [mediations EXCEPT ![id] = record] /\ Continues(c, call)
    BY <1>4 DEF ClearOneDefault, Write
  <2>2. Agrees(id, record)
    BY <1>1, <2>1 DEF SoundCall, Agrees, RecipientRecordType
  <2>3. call.key = Nothing
    BY <1>1, <2>1 DEF CallType, RoutedInv, SoundWait
  <2> HIDE DEF record, call
  <2>4. \A d \in MediationCallers : awaiting'[d] = awaiting[d] \/ awaiting'[d].key = Nothing
    BY <2>1, <2>3, GoesOn
  <2> QED
    BY <1>3, <2>1, <2>2, <2>4, WritingRoutes
<1>5. ASSUME WriteDefault(c)
      PROVE  RoutedInv'
  <2> DEFINE id == awaiting[c].id
             record == [awaiting[c].copy EXCEPT !.default = TRUE]
  <2>1. /\ awaiting[c].pc = "clearDefaults"
        /\ mediations' = [mediations EXCEPT ![id] = record] /\ Continues(c, NoCall)
    BY <1>5 DEF WriteDefault
  <2>2. id \in MediationIds /\ Agrees(id, record)
    BY <1>1, <2>1 DEF SoundCall, Agrees, RecipientRecordType
  <2> HIDE DEF record
  <2>3. \A d \in MediationCallers : awaiting'[d] = awaiting[d] \/ awaiting'[d].key = Nothing
    BY <1>2, <2>1, GoesOn
  <2> QED
    BY <1>3, <2>1, <2>2, <2>3, WritingRoutes
<1>6. ASSUME ClearDefaultMediator(c)
      PROVE  RoutedInv'
  <2>1. PICK id \in Saved : mediations' = [mediations EXCEPT ![id] =
                              [mediations[id] EXCEPT !.default = FALSE]]
    BY <1>6 DEF ClearDefaultMediator, Write
  <2> DEFINE record == [mediations[id] EXCEPT !.default = FALSE]
  <2>2. id \in MediationIds /\ Agrees(id, mediations[id])
    BY DEF Saved, MediationInv
  <2>3. Agrees(id, record)
    BY <2>2 DEF Agrees, RecipientRecordType
  <2> HIDE DEF record
  <2>4. UNCHANGED awaiting /\ mediations' = [mediations EXCEPT ![id] = record]
    BY <1>6, <2>1 DEF ClearDefaultMediator, record
  <2> QED
    BY <1>3, <2>2, <2>3, <2>4, WritingRoutes
<1>7. ASSUME SaveStrategy(c)
      PROVE  RoutedInv'
  <2> DEFINE id == awaiting[c].id
             record == [awaiting[c].copy EXCEPT !.strategy = "discovered"]
  <2>1. /\ awaiting[c].pc = "saveStrategy"
        /\ mediations' = [mediations EXCEPT ![id] = record] /\ Continues(c, NoCall)
    BY <1>7 DEF SaveStrategy, Write
  <2>2. id \in MediationIds /\ Agrees(id, record)
    BY <1>1, <2>1 DEF SoundCall, Agrees, RecipientRecordType
  <2> HIDE DEF record
  <2>3. \A d \in MediationCallers : awaiting'[d] = awaiting[d] \/ awaiting'[d].key = Nothing
    BY <1>2, <2>1, GoesOn
  <2> QED
    BY <1>3, <2>1, <2>2, <2>3, WritingRoutes
<1> QED
  BY <1>4, <1>5, <1>6, <1>7

-------------------------------------------------------------------------------
(* Keylist updates and the keys they route *)

LEMMA UpdatedKeys ==
  ASSUME MediationInv, NEW msg \in mediationNet, msg.update # Nothing
  PROVE  msg.update \in KeylistUpdates /\ msg.update.key # Nothing
BY MediationAssumption DEF MediationInv, MediationTypeOK, MediationMessageType, KeylistUpdates

\* The answer that is read is to the update of the calls that wait, if they do not share.
LEMMA ReadResponseRoutes ==
  ASSUME MediationInv, RoutedInv, NEW msg \in mediationNet, ProcessKeylistUpdateResults(msg)
  PROVE  RoutedInv'
<1>1. PICK id \in Saved :
        /\ RecordWith(msg.mediator, id)
        /\ handling' = [message |-> msg, id |-> id, read |-> mediations[id]]
  BY DEF ProcessKeylistUpdateResults, Reads
<1>2. /\ msg.type = "keylist-update-response" /\ mediationNet' = mediationNet \ {msg}
      /\ UNCHANGED <<mediations, served, awaiting, handed, shared>>
  BY DEF ProcessKeylistUpdateResults, Reads
<1>3. IsOnlyRecord(id) /\ mediations[id].mediator = msg.mediator
  BY <1>1 DEF RecordWith, IsOnlyRecord
<1>4. \A key : Routed(key)' = Routed(key)
  BY <1>2 DEF Routed
<1>5. \A k : IsOnlyRecord(k)' = IsOnlyRecord(k)
  BY <1>2 DEF IsOnlyRecord, Saved
<1>6. ASSUME NEW c \in MediationCallers
      PROVE  SoundWait(awaiting[c])'
  <2>1. SoundWait(awaiting[c])
    BY DEF RoutedInv
  <2>2. ASSUME Updating(awaiting[c].id)', awaiting[c].key # Nothing, awaiting[c].key \notin shared
        PROVE  Adds(msg.update, awaiting[c].key) /\ Routed(awaiting[c].key)
    <3>1. msg.update # Nothing /\ awaiting[c].id = id
      BY <1>1, <1>2, <2>2 DEF Updating
    <3> QED
      BY <1>2, <1>3, <2>1, <2>2, <3>1 DEF SoundWait
  <2>3. awaiting[c].key # Nothing /\ awaiting[c].key \notin shared /\ Updating(awaiting[c].id)'
          => Adds(handling'.message.update, awaiting[c].key) /\ Routed(awaiting[c].key)
    BY <1>1, <2>2
  <2> QED
    BY <1>2, <1>4, <1>5, <2>1, <2>3 DEF SoundWait, Adds
<1>7. HandedKeysAreRouted'
  BY <1>2 DEF RoutedInv, HandedKeysAreRouted
<1>8. \A other \in mediationNet' : SoundRemoval(other)'
  BY <1>2 DEF RoutedInv, SoundRemoval
<1> QED
  BY <1>2, <1>6, <1>7, <1>8 DEF RoutedInv

\* The calls that end have been answered: the mediator routes their keys.
LEMMA WriteKeylistRoutes ==
  ASSUME MediationInv, RoutedInv, WriteKeylist
  PROVE  RoutedInv'
<1> DEFINE id == handling.id
           ended == EndedBy(id)
           record == [handling.read EXCEPT !.keys = ApplyUpdate(@, handling.message.update)]
<1>1. /\ handling.message # Nothing /\ handling.message.type = "keylist-update-response"
      /\ mediations' = [mediations EXCEPT ![id] = record]
      /\ handed' = handed \cup ({awaiting[c].key : c \in ended} \ {Nothing})
      /\ awaiting' = [c \in MediationCallers |-> IF c \in ended THEN NoCall ELSE awaiting[c]]
      /\ handling' = NotHandling /\ UNCHANGED <<served, mediationNet, shared>>
  BY DEF WriteKeylist, Write
<1>2. /\ id \in MediationIds /\ Agrees(id, handling.read)
      /\ handling.message.update \in KeylistUpdates /\ handling.message.update # Nothing
  BY <1>1, MediationAssumption
  DEF MediationInv, SoundHandling, MediationTypeOK, MediationMessageType
<1>3. Agrees(id, record)
  <2>1. ApplyUpdate(handling.read.keys, handling.message.update) \in Seq(RoutingKeys)
    BY <1>2, ApplyUpdateType DEF Agrees, RecipientRecordType
  <2> QED
    BY <1>2, <2>1 DEF Agrees, RecipientRecordType
<1> HIDE DEF record
<1>4. RecordsStay
  BY <1>1, <1>2, <1>3, WrittenRecordsStay
<1>5. \A key : Routed(key)' = Routed(key)
  BY <1>1 DEF Routed
<1>6. \A i : ~Updating(i)'
  BY <1>1 DEF Updating, NotHandling
<1>7. ASSUME NEW c \in ended, awaiting[c].key # Nothing, awaiting[c].key \notin shared
      PROVE  Routed(awaiting[c].key)
  <2>1. c \in MediationCallers /\ awaiting[c].id = id
    BY DEF EndedBy
  <2>2. Updating(id) /\ SoundWait(awaiting[c])
    BY <1>1, <1>2, <2>1 DEF Updating, RoutedInv
  <2> QED
    BY <1>7, <2>1, <2>2 DEF SoundWait
<1>8. HandedKeysAreRouted'
  <2>1. \A key \in handed \ shared : Routed(key)
    BY DEF RoutedInv, HandedKeysAreRouted, Routed
  <2>2. \A key \in handed' \ shared' : Routed(key)'
    BY <1>1, <1>5, <1>7, <2>1
  <2> QED
    BY <2>2 DEF HandedKeysAreRouted, Routed
<1>9. \A c \in MediationCallers :
        IF c \in ended THEN awaiting'[c] = NoCall ELSE awaiting'[c] = awaiting[c]
  BY <1>1
<1>10. NoCall.key = Nothing
  BY DEF NoCall
<1>11. ASSUME NEW c \in MediationCallers, awaiting'[c].key # Nothing
       PROVE  /\ awaiting'[c] = awaiting[c] /\ c \notin ended
              /\ awaiting[c].key \notin handed'
  <2>1. awaiting'[c] = awaiting[c] /\ c \notin ended
    BY <1>9, <1>10, <1>11
  <2>2. awaiting[c].key \notin handed
    BY <1>11, <2>1 DEF RoutedInv, SoundWait
  <2>3. \A d \in ended : awaiting[d].key # awaiting[c].key
    BY <1>11, <2>1 DEF RoutedInv, EndedBy
  <2> QED
    BY <1>1, <2>1, <2>2, <2>3
<1>12. ASSUME NEW c \in MediationCallers
       PROVE  SoundWait(awaiting[c])'
  <2>1. CASE awaiting'[c].key = Nothing
    BY <2>1 DEF SoundWait
  <2>2. CASE awaiting'[c].key # Nothing
    <3>1. PICK k : k = awaiting[c]
      OBVIOUS
    <3>2. SoundWait(k) /\ awaiting'[c] = k /\ k.key \notin handed'
      BY <1>11, <2>2, <3>1 DEF RoutedInv
    <3>3. SoundWait(k)'
      BY <1>1, <1>4, <1>5, <1>6, <3>1, <3>2, SoundWaitStays
    <3> QED
      BY <3>2, <3>3 DEF SoundWait
  <2> QED
    BY <2>1, <2>2
<1>13. ASSUME NEW msg \in mediationNet', msg.update # Nothing, msg.update.action = "remove"
       PROVE  /\ msg.update.key \notin handed'
              /\ \A c \in MediationCallers : awaiting'[c].key # msg.update.key
  <2>1. /\ msg.update.key \notin handed
        /\ \A c \in MediationCallers : awaiting[c].key # msg.update.key
    BY <1>1, <1>13 DEF RoutedInv, SoundRemoval
  <2>2. msg.update.key # Nothing
    BY <1>1, <1>13, UpdatedKeys
  <2> QED
    BY <1>1, <1>9, <1>10, <2>1, <2>2 DEF EndedBy
<1>14. \A c, d \in MediationCallers :
         awaiting'[c].key # Nothing /\ awaiting'[c].key = awaiting'[d].key => c = d
  BY <1>11 DEF RoutedInv
<1>15. \A msg \in mediationNet' : SoundRemoval(msg)'
  BY <1>13 DEF SoundRemoval
<1> QED
  BY <1>8, <1>12, <1>14, <1>15 DEF RoutedInv

\* The mediator applies an update before it answers.
LEMMA ReceiveUpdateRoutes ==
  ASSUME MediationInv, RoutedInv, NEW msg \in mediationNet, ReceiveKeylistUpdate(msg)
  PROVE  RoutedInv'
<1> DEFINE answer == KeylistUpdateResponse(msg.mediator, msg.update)
<1>1. PICK id \in MediationIds :
        /\ ServedWith(msg.mediator, id)
        /\ served' = [served EXCEPT ![id].keys = ApplyUpdate(@, msg.update)]
  BY DEF ReceiveKeylistUpdate
<1>2. /\ msg.type = "keylist-update" /\ mediationNet' = (mediationNet \ {msg}) \cup {answer}
      /\ UNCHANGED <<mediations, awaiting, handling, handed, shared>>
  BY DEF ReceiveKeylistUpdate
<1>3. msg.update \in KeylistUpdates /\ msg.update # Nothing
  <2>1. msg.update # Nothing
    BY <1>2 DEF MediationInv, SoundMessage
  <2> QED
    BY <2>1 DEF MediationInv, MediationTypeOK, MediationMessageType
<1>4. served[id] \in MediatorRecordType
  BY <1>1 DEF ServedWith, MediationInv, MediationTypeOK
<1>5. /\ served'[id] # Nothing /\ served'[id].keys = ApplyUpdate(served[id].keys, msg.update)
      /\ \A i \in MediationIds : i # id => served'[i] = served[i]
  <2>1. ApplyUpdate(served[id].keys, msg.update) \in Seq(RoutingKeys)
    BY <1>3, <1>4, ApplyUpdateType DEF MediatorRecordType
  <2>2. [served[id] EXCEPT !.keys = ApplyUpdate(@, msg.update)] \in MediatorRecordType
    BY <1>4, <2>1 DEF MediatorRecordType
  <2> QED
    BY <1>1, <1>4, <2>2, MediationAssumption DEF MediationInv, MediationTypeOK, MediatorRecordType
<1>6. /\ msg.update.action = "add" => Contains(served'[id].keys, msg.update.key)
      /\ \A key : Contains(served[id].keys, key)
                  /\ ~(msg.update.action = "remove" /\ msg.update.key = key)
                    => Contains(served'[id].keys, key)
  BY <1>3, <1>4, <1>5, UpdateRoutes DEF MediatorRecordType
<1>7. msg.update.action = "add" => Routed(msg.update.key)'
  BY <1>5, <1>6 DEF Routed
<1>8. \A key : Routed(key) /\ ~(msg.update.action = "remove" /\ msg.update.key = key)
                 => Routed(key)'
  BY <1>5, <1>6 DEF Routed
<1>9. /\ answer.type = "keylist-update-response" /\ answer.mediator = msg.mediator
      /\ answer.update = msg.update
  BY DEF KeylistUpdateResponse
<1> HIDE DEF answer
<1>10. msg.update.action = "remove" =>
         /\ msg.update.key \notin handed
         /\ \A c \in MediationCallers : awaiting[c].key # msg.update.key
  BY <1>3 DEF RoutedInv, SoundRemoval
<1>11. HandedKeysAreRouted'
  <2>1. \A key \in handed \ shared : Routed(key)
    BY DEF RoutedInv, HandedKeysAreRouted, Routed
  <2>2. \A key \in handed' \ shared' : Routed(key)'
    BY <1>2, <1>8, <1>10, <2>1
  <2> QED
    BY <2>2 DEF HandedKeysAreRouted, Routed
<1>12. ASSUME NEW c \in MediationCallers
       PROVE  SoundWait(awaiting[c])'
  <2>1. PICK k : k = awaiting[c]
    OBVIOUS
  <2>2. SoundWait(k)
    BY <2>1 DEF RoutedInv
  <2>3. Routed(k.key) => Routed(k.key)'
    BY <1>8, <1>10, <2>1
  <2>4. \A i : IsOnlyRecord(i)' = IsOnlyRecord(i) /\ Updating(i)' = Updating(i)
    BY <1>2 DEF IsOnlyRecord, Saved, Updating
  <2>5. ASSUME k.key # Nothing, k.key \notin shared, IsOnlyRecord(k.id),
               NEW m \in mediationNet', m.update # Nothing, m.mediator = mediations[k.id].mediator
        PROVE  /\ Adds(m.update, k.key)
               /\ m.type = "keylist-update-response" => Routed(k.key)'
    <3>1. CASE m \in mediationNet
      BY <2>2, <2>3, <2>5, <3>1 DEF SoundWait
    <3>2. CASE m = answer
      <4>1. Adds(msg.update, k.key)
        BY <1>3, <1>9, <2>2, <2>5, <3>2 DEF SoundWait
      <4>2. Routed(k.key)'
        BY <1>7, <4>1 DEF Adds
      <4> QED
        BY <1>9, <3>2, <4>1, <4>2
    <3> QED
      BY <1>2, <2>5, <3>1, <3>2
  <2>6. SoundWait(k)'
    BY <1>2, <2>2, <2>3, <2>4, <2>5 DEF SoundWait, Adds
  <2> QED
    BY <1>2, <2>1, <2>6 DEF SoundWait
<1>13. \A m \in mediationNet' : SoundRemoval(m)'
  BY <1>2, <1>9, <1>10 DEF RoutedInv, SoundRemoval
<1>14. \A c, d \in MediationCallers :
         awaiting'[c].key # Nothing /\ awaiting'[c].key = awaiting'[d].key => c = d
  BY <1>2 DEF RoutedInv
<1> QED
  BY <1>11, <1>12, <1>13, <1>14 DEF RoutedInv

\* A call that waits while an update is sent for a record: that of its own, with which
\* it then shares the wait, or that of another mediator, or one of two of its mediator.
LEMMA SendingLeavesWaits ==
  ASSUME MediationInv, RoutedInv, NEW c \in MediationCallers, NEW k, k = awaiting[c],
         NEW id \in Saved, NEW update,
         mediationNet' = mediationNet \cup {KeylistUpdateMessage(mediations[id].mediator, update)},
         shared' = IF UnderWay(id)
                   THEN shared \cup {update.key}
                               \cup ({awaiting[d].key : d \in EndedBy(id)} \ {Nothing})
                   ELSE shared,
         UNCHANGED <<mediations, served, handling>>, k.key \notin handed'
  PROVE  SoundWait(k)'
<1>1. SoundWait(k)
  BY DEF RoutedInv
<1> SUFFICES ASSUME k.key # Nothing, k.key \notin shared'
             PROVE  IsOnlyRecord(k.id) =>
                      \A msg \in mediationNet' :
                        msg.update # Nothing /\ msg.mediator = mediations[k.id].mediator =>
                          msg \in mediationNet
  <2>1. \A key : Routed(key)' = Routed(key)
    BY DEF Routed
  <2>2. IsOnlyRecord(k.id)' = IsOnlyRecord(k.id) /\ Updating(k.id)' = Updating(k.id)
    BY DEF IsOnlyRecord, Saved, Updating
  <2>3. k.key \notin shared' => k.key \notin shared
    OBVIOUS
  <2> QED
    BY <1>1, <2>1, <2>2, <2>3 DEF SoundWait, Adds
<1>2. k.pc = "awaitKeylist"
  BY <1>1 DEF SoundWait
<1>3. k.id # id
  <2>1. ASSUME k.id = id
        PROVE  FALSE
    <3>1. UnderWay(id) /\ c \in EndedBy(id)
      BY <1>2, <2>1 DEF UnderWay, EndedBy
    <3> QED
      BY <3>1
  <2> QED
    BY <2>1
<1>4. KeylistUpdateMessage(mediations[id].mediator, update).mediator = mediations[id].mediator
  BY DEF KeylistUpdateMessage
<1> QED
  BY <1>3, <1>4 DEF IsOnlyRecord

\* No call waits for a key that was handed out.
LEMMA HandedIsAwaitedByNone ==
  ASSUME RoutedInv, NEW key \in handed, key # Nothing, NEW c \in MediationCallers
  PROVE  awaiting[c].key # key
BY DEF RoutedInv, SoundWait

LEMMA NotifyRoutes ==
  ASSUME MediationInv, RoutedInv, NEW c \in MediationCallers, NEW id \in MediationIds,
         NEW key \in RoutingKeys, NEW action \in KeylistActions,
         NotifyKeylistUpdate(c, id, key, action)
  PROVE  RoutedInv'
<1> DEFINE update == [action |-> action, key |-> key]
           sent == KeylistUpdateMessage(mediations[id].mediator, update)
<1>1. /\ id \in Saved /\ key \in handed /\ mediationNet' = mediationNet \cup {sent}
      /\ shared' = IF UnderWay(id)
                   THEN shared \cup {update.key}
                               \cup ({awaiting[d].key : d \in EndedBy(id)} \ {Nothing})
                   ELSE shared
      /\ handed' = IF action = "remove" THEN handed \ {key} ELSE handed
      /\ UNCHANGED <<mediations, served, awaiting, handling>>
  BY DEF NotifyKeylistUpdate, Saved
<1>2. sent.update = update
  BY DEF KeylistUpdateMessage
<1> HIDE DEF sent
<1>3. key # Nothing
  BY MediationAssumption
<1>4. HandedKeysAreRouted'
  BY <1>1 DEF RoutedInv, HandedKeysAreRouted
<1>5. ASSUME NEW d \in MediationCallers
      PROVE  SoundWait(awaiting[d])'
  <2>1. PICK k : k = awaiting[d]
    OBVIOUS
  <2>2. CASE k.key = Nothing
    BY <1>1, <2>1, <2>2 DEF SoundWait
  <2>3. CASE k.key # Nothing
    <3>1. k.key \notin handed'
      BY <1>1, <2>1, <2>3 DEF RoutedInv, SoundWait
    <3>2. SoundWait(k)'
      BY <1>1, <2>1, <3>1, SendingLeavesWaits DEF sent
    <3> QED
      BY <1>1, <2>1, <3>2 DEF SoundWait
  <2> QED
    BY <2>2, <2>3
<1>6. \A msg \in mediationNet' : SoundRemoval(msg)'
  <2>1. ASSUME NEW msg \in mediationNet
        PROVE  SoundRemoval(msg)'
    BY <1>1 DEF RoutedInv, SoundRemoval
  <2>2. ASSUME NEW msg, msg = sent
        PROVE  SoundRemoval(msg)'
    BY <1>1, <1>2, <1>3, <2>2, HandedIsAwaitedByNone DEF SoundRemoval
  <2> QED
    BY <1>1, <2>1, <2>2
<1>7. \A d, e \in MediationCallers :
        awaiting'[d].key # Nothing /\ awaiting'[d].key = awaiting'[e].key => d = e
  BY <1>1 DEF RoutedInv
<1> QED
  BY <1>4, <1>5, <1>6, <1>7 DEF RoutedInv

\* What keylistUpdateAndAwait does to the other calls, and the one that calls it.
LEMMA AwaitingRoutes ==
  ASSUME MediationInv, RoutedInv, NEW c \in MediationCallers, NEW id \in MediationIds,
         NEW update, NEW key, update.key # Nothing,
         KeylistUpdateAndAwait(c, id, update, key), awaiting[c].pc = "idle",
         handed' \subseteq handed,
         update.action = "remove" => update.key \in handed /\ update.key \notin handed',
         key # Nothing => FreshKey(key) /\ Adds(update, key)
  PROVE  RoutedInv'
<1> DEFINE sent == KeylistUpdateMessage(mediations[id].mediator, update)
           call == [NoCall EXCEPT !.pc = "awaitKeylist", !.id = id, !.key = key]
<1>1. /\ id \in Saved /\ mediationNet' = mediationNet \cup {sent}
      /\ shared' = IF UnderWay(id)
                   THEN shared \cup {update.key}
                               \cup ({awaiting[d].key : d \in EndedBy(id)} \ {Nothing})
                   ELSE shared
      /\ Continues(c, call)
      /\ UNCHANGED <<mediations, served, handling>>
  BY DEF KeylistUpdateAndAwait, Saved
<1>2. /\ sent.update = update /\ sent.type = "keylist-update"
      /\ sent.mediator = mediations[id].mediator
  BY DEF KeylistUpdateMessage
<1>3. call.pc = "awaitKeylist" /\ call.id = id /\ call.key = key
  BY DEF NoCall
<1>4. awaiting'[c] = call /\ \A d \in MediationCallers : d # c => awaiting'[d] = awaiting[d]
  BY <1>1, GoesOn
<1> HIDE DEF call, sent
<1>5. key # Nothing =>
        /\ key \notin handed /\ \A d \in MediationCallers : awaiting[d].key # key
        /\ \A msg \in mediationNet : msg.update # Nothing => msg.update.key # key
  BY DEF FreshKey
<1>6. HandedKeysAreRouted'
  BY <1>1 DEF RoutedInv, HandedKeysAreRouted
<1>7. SoundWait(call)'
  <2> SUFFICES ASSUME key # Nothing
               PROVE  SoundWait(call)'
    BY <1>3 DEF SoundWait, call
  <2>1. PICK k : k = call
    OBVIOUS
  <2>2. k.pc = "awaitKeylist" /\ k.id = id /\ k.key = key
    BY <1>3, <2>1
  <2>3. key \notin handed' /\ mediations'[id] # Nothing
    BY <1>1, <1>5 DEF Saved
  <2>4. key \notin shared' => ~UnderWay(id)
    BY <1>1 DEF Adds
  <2>5. key \notin shared' => ~Updating(id)'
    BY <1>1, <2>4 DEF Updating, UnderWay
  <2>6. ASSUME key \notin shared', NEW msg \in mediationNet', msg.update # Nothing,
               msg.mediator = mediations[id].mediator
        PROVE  Adds(msg.update, key) /\ msg.type # "keylist-update-response"
    BY <1>1, <1>2, <2>4, <2>6 DEF UnderWay
  <2>7. SoundWait(k)'
    BY <1>1, <2>2, <2>3, <2>5, <2>6 DEF SoundWait, Adds
  <2> QED
    BY <2>1, <2>7 DEF SoundWait, call
<1>8. ASSUME NEW d \in MediationCallers
      PROVE  SoundWait(awaiting[d])'
  <2>1. CASE d = c
    BY <1>4, <1>7, <2>1 DEF SoundWait, call
  <2>2. CASE d # c
    <3>1. PICK k : k = awaiting[d]
      OBVIOUS
    <3>2. CASE k.key = Nothing
      BY <1>4, <2>2, <3>1, <3>2 DEF SoundWait
    <3>3. CASE k.key # Nothing
      <4>1. k.key \notin handed'
        BY <3>1, <3>3 DEF RoutedInv, SoundWait
      <4>2. SoundWait(k)'
        BY <1>1, <3>1, <4>1, SendingLeavesWaits DEF sent
      <4> QED
        BY <1>4, <2>2, <3>1, <4>2 DEF SoundWait
    <3> QED
      BY <3>2, <3>3
  <2> QED
    BY <2>1, <2>2
<1>9. ASSUME NEW msg \in mediationNet', msg.update # Nothing, msg.update.action = "remove"
      PROVE  /\ msg.update.key \notin handed'
             /\ \A d \in MediationCallers : awaiting'[d].key # msg.update.key
  <2>1. CASE msg \in mediationNet
    <3>1. /\ msg.update.key \notin handed /\ msg.update.key # Nothing
          /\ \A d \in MediationCallers : awaiting[d].key # msg.update.key
      BY <1>9, <2>1, UpdatedKeys DEF RoutedInv, SoundRemoval
    <3>2. key # msg.update.key
      BY <1>5, <1>9, <2>1, <3>1
    <3> QED
      BY <1>3, <1>4, <3>1, <3>2
  <2>2. CASE msg = sent
    <3>1. key = Nothing
      BY <1>2, <1>9, <2>2 DEF Adds
    <3>2. update.key \in handed /\ update.key \notin handed'
      BY <1>2, <1>9, <2>2
    <3>3. \A d \in MediationCallers : awaiting[d].key # update.key
      BY <3>2, HandedIsAwaitedByNone
    <3> QED
      BY <1>2, <1>3, <1>4, <2>2, <3>1, <3>2, <3>3
  <2> QED
    BY <1>1, <1>9, <2>1, <2>2
<1>10. \A d, e \in MediationCallers :
         awaiting'[d].key # Nothing /\ awaiting'[d].key = awaiting'[e].key => d = e
  <2>1. \A d, e \in MediationCallers :
          awaiting[d].key # Nothing /\ awaiting[d].key = awaiting[e].key => d = e
    BY DEF RoutedInv
  <2> QED
    BY <1>3, <1>4, <1>5, <2>1
<1>11. \A msg \in mediationNet' : SoundRemoval(msg)'
  BY <1>9 DEF SoundRemoval
<1> QED
  BY <1>6, <1>8, <1>10, <1>11 DEF RoutedInv

LEMMA RoutingRoutes ==
  ASSUME MediationInv, RoutedInv, NEW c \in MediationCallers, NEW id \in MediationIds,
         \/ \E named \in BOOLEAN : GetRouting(c, id, named)
         \/ \E key \in RoutingKeys : RemoveRouting(c, id, key)
  PROVE  RoutedInv'
<1>1. ASSUME NEW key \in RoutingKeys, FreshKey(key), UNCHANGED handed, Starts(c),
             KeylistUpdateAndAwait(c, id, [action |-> "add", key |-> key], key)
      PROVE  RoutedInv'
  <2> DEFINE update == [action |-> "add", key |-> key]
  <2>1. update.key # Nothing /\ update.action # "remove" /\ Adds(update, key)
    BY MediationAssumption DEF Adds
  <2>2. KeylistUpdateAndAwait(c, id, update, key) /\ awaiting[c].pc = "idle"
    BY <1>1 DEF Starts
  <2> HIDE DEF update
  <2> QED
    BY <1>1, <2>1, <2>2, AwaitingRoutes
<1>2. ASSUME NEW key \in RoutingKeys, RemoveRouting(c, id, key)
      PROVE  RoutedInv'
  <2> DEFINE update == [action |-> "remove", key |-> key]
  <2>1. update.key # Nothing /\ update.key = key
    BY MediationAssumption
  <2>2. KeylistUpdateAndAwait(c, id, update, Nothing) /\ awaiting[c].pc = "idle"
    BY <1>2 DEF RemoveRouting, Starts
  <2>3. key \in handed /\ handed' = handed \ {key}
    BY <1>2 DEF RemoveRouting
  <2> HIDE DEF update
  <2> QED
    BY <2>1, <2>2, <2>3, AwaitingRoutes
<1> QED
  BY <1>1, <1>2 DEF GetRouting

LEMMA RoutedInvHolds == MediationSpec => []RoutedInv
<1>1. MediationInit => RoutedInv
  BY DEF MediationInit, RoutedInv, HandedKeysAreRouted, SoundWait, NoCall
<1>2. MediationInv /\ RoutedInv /\ [MediationNext]_mediationVars => RoutedInv'
  <2> SUFFICES ASSUME MediationInv, RoutedInv, [MediationNext]_mediationVars
               PROVE  RoutedInv'
    OBVIOUS
  <2>1. CASE UNCHANGED mediationVars
    BY <2>1, NotWritingRoutes DEF mediationVars
  <2>2. CASE MediationCallNext
    <3>1. PICK c \in MediationCallers :
            \/ \E m \in Mediators : RequestMediation(c, m) \/ RequestAndAwaitGrant(c, m) \/ Provision(c, m)
            \/ \E id \in MediationIds :
                 \/ \E named \in BOOLEAN : GetRouting(c, id, named)
                 \/ \E key \in RoutingKeys :
                      \/ RemoveRouting(c, id, key)
                      \/ \E action \in KeylistActions : NotifyKeylistUpdate(c, id, key, action)
                 \/ \E copy : SetDefaultMediator(c, id, copy)
                 \/ ClearOneDefault(c, id)
                 \/ DiscoverStrategy(c, id)
            \/ WriteDefault(c) \/ ClearDefaultMediator(c) \/ SaveStrategy(c) \/ Timeout(c)
      BY <2>2 DEF MediationCallNext
    <3> QED
      BY <3>1, RequestsRoute, RoutingRoutes, NotifyRoutes, CallsRoute, WritingCallsRoute
  <2>3. ASSUME NEW msg \in mediationNet,
               \/ ReceiveRequest(msg) \/ ReceiveKeylistUpdate(msg)
               \/ ProcessMediationGrant(msg) \/ ProcessMediationDeny(msg)
               \/ ProcessKeylistUpdateResults(msg)
        PROVE  RoutedInv'
    BY <2>3, ServingRoutes, ReceiveUpdateRoutes, ReadAnswerRoutes, ReadResponseRoutes
  <2> QED
    BY <2>1, <2>2, <2>3, ServingRoutes, WriteStateRoutes, WriteKeylistRoutes DEF MediationNext
<1> QED
  BY <1>1, <1>2, MediationInvHolds, PTL DEF MediationSpec

-------------------------------------------------------------------------------
(* The theorems *)

\* The types of records, messages and copies, for any number of mediators, requests,
\* keys and concurrent calls: whatever is written back from a copy is a whole record.
THEOREM MediationTypesHold == MediationSpec => []MediationTypeOK
<1>1. MediationInv => MediationTypeOK
  BY DEF MediationInv
<1> QED BY <1>1, MediationInvHolds, PTL

\* The recipient regards mediation as granted only where the mediator does, however
\* stale the copies are that its calls and handlers write back, and although a grant is
\* matched to a record by its connection alone (processMediationGrant).
THEOREM GrantsAreMutual == MediationSpec => []GrantIsMutual
<1>1. MediationInv => GrantIsMutual
  BY DEF MediationInv, GrantIsMutual, Saved, Agrees, IsGranted
<1> QED BY <1>1, MediationInvHolds, PTL

\* At most one mediator is the default, for any number of mediators and calls: only two
\* calls that set it at once, or a record that is overwritten with a stale copy, can
\* leave two, with which every getRouting throws (setDefaultMediator,
\* findDefaultMediator).
THEOREM DefaultIsUnique == MediationSpec => []OneDefault
<1>1. ASSUME DefaultInv, raced = {}
      PROVE  Cardinality(Defaults) <= 1
  <2>1. CASE Defaults = {}
    <3>1. Cardinality({}) = 0
      BY FS_EmptySet
    <3> QED
      BY <2>1, <3>1
  <2>2. CASE Defaults # {}
    <3>1. PICK i \in Defaults : TRUE
      BY <2>2
    <3>2. Defaults = {i}
      BY <1>1, <3>1 DEF DefaultInv
    <3>3. Cardinality({i}) = 1
      BY FS_Singleton
    <3> QED
      BY <3>2, <3>3
  <2> QED
    BY <2>1, <2>2
<1>2. DefaultInv => OneDefault
  BY <1>1 DEF OneDefault
<1> QED
  BY <1>2, DefaultInvHolds, PTL

\* A key in a routing that was handed out is routed by a mediator, for any number of
\* mediators, keys and concurrent calls, unless it was withdrawn or its update ran
\* together with another one: keylistUpdateAndAwait takes any keylist event of the record
\* for its answer, and the mediator applies an update before it answers.
THEOREM HandedKeysStayRouted == MediationSpec => []HandedKeysAreRouted
<1>1. RoutedInv => HandedKeysAreRouted
  BY DEF RoutedInv
<1> QED BY <1>1, RoutedInvHolds, PTL

-------------------------------------------------------------------------------
(* Pickup *)

\* A message as the pickup strategy of the behaviour makes it, of messages in M.
SoundIn(m, M) ==
  /\ m.type \in RoundTypes => strategy # "PickUpV1"
  /\ m.type \in {"batch-pickup", "batch"} => strategy = "PickUpV1"
  /\ m.type \in {"batch", "delivery"} => m.messages \in Seq(M) /\ m.carries = Carried(m.messages)
  /\ m.type = "forwarded" => m.carries = {m.message}
  /\ m.type \in {"status", "messages-received"} => m.count \in Nat
  /\ m.type = "delivery-request" => m.limit \in Nat
  /\ m.type = "batch-pickup" => m.size \in Nat

SocketType(M) ==
  [state : {"unused", "open", "closing", "closed"}, up : Seq(M), down : Seq(M)]

\* Messages nest without a bound, so their set is any that holds those there are.
PickupTypes(M) ==
  /\ queue \in Seq(M) /\ inbox \in Seq(M)
  /\ sessions \in Seq(Sockets) /\ table \in Sockets \cup {0}
  /\ sockets \in [Sockets -> SocketType(M)]
  /\ \A s \in Sockets : sockets[s].state = "unused" => sockets[s].down = <<>>
  /\ \A m \in M : SoundIn(m, M)

\* All that is queued, on its way to the recipient or waits there.
Downs == UNION {ToSet(sockets[s].down) : s \in Sockets}

InFlight == ToSet(queue) \cup ToSet(inbox) \cup Downs

IsFront(ms) == Len(ms) <= Len(queue) /\ \A i \in 1 .. Len(ms) : ms[i] = queue[i]

\* The recipient has what the first n in the queue carry.
Handed(n) ==
  n <= Len(queue) /\ \A i \in 1 .. n : Carries(queue[i]) \subseteq received \cup Carried(inbox)

\* Until rounds overlap, a delivery is of what is in front of the queue, and what is
\* confirmed as well and has been handed over.
RoundInv ==
  "overlap" \notin mishaps =>
    /\ \A m \in InFlight : m.type = "delivery" => IsFront(m.messages)
    /\ \A s \in Sockets : \A m \in ToSet(sockets[s].up) :
         m.type = "messages-received" => Handed(m.count)

PickupInv == (\E M : PickupTypes(M)) /\ RoundInv /\ NothingIsLost

\* What the operations on a sequence leave in it.
LEMMA SequenceElements ==
  ASSUME NEW S, NEW s \in Seq(S)
  PROVE  /\ ToSet(s) \subseteq S /\ Len(s) \in Nat
         /\ \A x \in S : Append(s, x) \in Seq(S) /\ ToSet(Append(s, x)) = ToSet(s) \cup {x}
         /\ s # <<>> => /\ Head(s) \in ToSet(s) /\ Tail(s) \in Seq(S)
                        /\ ToSet(s) = {Head(s)} \cup ToSet(Tail(s))
  <1>1. ToSet(s) \subseteq S /\ Len(s) \in Nat
    BY DEF ToSet
  <1>2. ASSUME NEW x \in S
        PROVE  Append(s, x) \in Seq(S) /\ ToSet(Append(s, x)) = ToSet(s) \cup {x}
    <2>1. Append(s, x) \in Seq(S)
      OBVIOUS
    <2>2. ToSet(Append(s, x)) \subseteq ToSet(s) \cup {x}
      BY DEF ToSet
    <2>3. x \in ToSet(Append(s, x))
      <3>1. Len(s) + 1 \in DOMAIN Append(s, x) /\ Append(s, x)[Len(s) + 1] = x
        OBVIOUS
      <3> QED
        BY <3>1 DEF ToSet
    <2>4. ToSet(s) \subseteq ToSet(Append(s, x))
      <3>1. \A i \in DOMAIN s : i \in DOMAIN Append(s, x) /\ Append(s, x)[i] = s[i]
        OBVIOUS
      <3> QED
        BY <3>1 DEF ToSet
    <2> QED
      BY <2>1, <2>2, <2>3, <2>4
  <1>3. ASSUME s # <<>>
        PROVE  /\ Head(s) \in ToSet(s) /\ Tail(s) \in Seq(S)
               /\ ToSet(s) = {Head(s)} \cup ToSet(Tail(s))
    <2>1. Tail(s) \in Seq(S) /\ Len(s) # 0 /\ Head(s) = s[1] /\ 1 \in DOMAIN s
      BY <1>3
    <2>2. Head(s) \in ToSet(s)
      BY <2>1 DEF ToSet
    <2>3. \A i \in DOMAIN Tail(s) : i + 1 \in DOMAIN s /\ Tail(s)[i] = s[i + 1]
      BY <1>3
    <2>4. ToSet(Tail(s)) \subseteq ToSet(s)
      BY <2>3 DEF ToSet
    <2>5. \A i \in DOMAIN s : i # 1 => i - 1 \in DOMAIN Tail(s) /\ Tail(s)[i - 1] = s[i]
      BY <1>3
    <2>6. ToSet(s) \subseteq {Head(s)} \cup ToSet(Tail(s))
      BY <2>1, <2>5 DEF ToSet
    <2> QED
      BY <2>1, <2>2, <2>4, <2>6
  <1> QED
    BY <1>1, <1>2, <1>3

LEMMA ConcatElements ==
  ASSUME NEW S, NEW s \in Seq(S), NEW t \in Seq(S)
  PROVE  s \o t \in Seq(S) /\ ToSet(s \o t) = ToSet(s) \cup ToSet(t)
  <1>1. s \o t \in Seq(S) /\ Len(s \o t) = Len(s) + Len(t)
    OBVIOUS
  <1>2. ToSet(s \o t) \subseteq ToSet(s) \cup ToSet(t)
    BY DEF ToSet
  <1>3. \A i \in DOMAIN s : i \in DOMAIN (s \o t) /\ (s \o t)[i] = s[i]
    OBVIOUS
  <1>4. \A i \in DOMAIN t : Len(s) + i \in DOMAIN (s \o t) /\ (s \o t)[Len(s) + i] = t[i]
    OBVIOUS
  <1>5. ToSet(s) \subseteq ToSet(s \o t)
    BY <1>3 DEF ToSet
  <1>6. ToSet(t) \subseteq ToSet(s \o t)
    BY <1>4 DEF ToSet
  <1> QED
    BY <1>1, <1>2, <1>5, <1>6

\* A sequence is what it starts with, and the rest.
LEMMA Parts ==
  ASSUME NEW S, NEW s \in Seq(S), NEW n \in 0 .. Len(s)
  PROVE  LET front == SubSeq(s, 1, n)
             rest == SubSeq(s, n + 1, Len(s))
         IN  /\ front \in Seq(S) /\ Len(front) = n /\ \A i \in 1 .. n : front[i] = s[i]
             /\ rest \in Seq(S) /\ ToSet(s) = ToSet(front) \cup ToSet(rest)
             /\ ToSet(front) = {s[i] : i \in 1 .. n}
  <1> DEFINE front == SubSeq(s, 1, n)
             rest == SubSeq(s, n + 1, Len(s))
  <1>1. Len(s) \in Nat /\ DOMAIN s = 1 .. Len(s) /\ n \in Nat /\ \A i \in 1 .. Len(s) : s[i] \in S
    OBVIOUS
  <1>2. front = [i \in 1 .. n |-> s[i]]
    BY <1>1
  <1>3. front \in Seq(S) /\ Len(front) = n /\ DOMAIN front = 1 .. n
    BY <1>1, <1>2
  <1>4. rest = [i \in 1 .. (Len(s) - n) |-> s[n + i]]
    BY <1>1
  <1>5. rest \in Seq(S) /\ DOMAIN rest = 1 .. (Len(s) - n)
    BY <1>1, <1>4
  <1>6. ToSet(front) = {s[i] : i \in 1 .. n}
    BY <1>2, <1>3 DEF ToSet
  <1>7. ToSet(rest) = {s[i] : i \in n + 1 .. Len(s)}
    <2>1. ToSet(rest) = {s[n + i] : i \in 1 .. (Len(s) - n)}
      BY <1>4, <1>5 DEF ToSet
    <2>2. \A i \in n + 1 .. Len(s) : i - n \in 1 .. (Len(s) - n) /\ n + (i - n) = i
      BY <1>1
    <2>3. \A i \in 1 .. (Len(s) - n) : n + i \in n + 1 .. Len(s)
      BY <1>1
    <2> QED
      BY <2>1, <2>2, <2>3
  <1>8. 1 .. Len(s) = (1 .. n) \cup (n + 1 .. Len(s))
    BY <1>1
  <1>9. ToSet(s) = ToSet(front) \cup ToSet(rest)
    BY <1>1, <1>6, <1>7, <1>8 DEF ToSet
  <1> QED
    BY <1>2, <1>3, <1>5, <1>6, <1>9

\* The messages may be taken to include a new one.
LEMMA OneMore ==
  ASSUME NEW M, PickupTypes(M), NEW m, SoundIn(m, M)
  PROVE  PickupTypes(M \cup {m})
  <1> DEFINE N == M \cup {m}
  <1>1. \A q \in Seq(M) : q \in Seq(N)
    OBVIOUS
  <1>2. \A x \in N : SoundIn(x, N)
    BY <1>1 DEF PickupTypes, SoundIn
  <1>3. \A k \in SocketType(M) : k \in SocketType(N)
    <2> HIDE DEF N
    <2> QED
      BY <1>1 DEF SocketType
  <1> HIDE DEF N
  <1>4. sockets \in [Sockets -> SocketType(N)]
    BY <1>3 DEF PickupTypes
  <1> QED
    BY <1>1, <1>2, <1>4 DEF PickupTypes, N

LEMMA SocketQueues ==
  ASSUME NEW M, NEW socket \in SocketType(M)
  PROVE  socket.up \in Seq(M) /\ socket.down \in Seq(M)
  BY DEF SocketType

\* What the recipient sends joins what is on its way to the mediator.
LEMMA SendToMediatorAdds ==
  ASSUME NEW M, PickupTypes(M), NEW m \in M, SendToMediator(m)
  PROVE  /\ table' \in Sockets \cup {0} /\ sockets' \in [Sockets -> SocketType(M)]
         /\ \A s \in Sockets :
              /\ sockets'[s].down = sockets[s].down
              /\ sockets'[s].state = "unused" => sockets'[s].down = <<>>
              /\ ToSet(sockets'[s].up) \subseteq ToSet(sockets[s].up) \cup {m}
  <1>1. CASE /\ table # 0 /\ sockets[table].state = "open"
             /\ sockets' = [sockets EXCEPT ![table].up = Append(@, m)]
             /\ UNCHANGED table
    <2>1. table \in Sockets /\ sockets[table] \in SocketType(M)
      BY <1>1 DEF PickupTypes
    <2> DEFINE new == [sockets[table] EXCEPT !.up = Append(@, m)]
    <2>2. sockets' = [sockets EXCEPT ![table] = new]
      BY <1>1
    <2>3. /\ new \in SocketType(M) /\ new.state = sockets[table].state
          /\ new.down = sockets[table].down /\ new.up = Append(sockets[table].up, m)
      <3>1. Append(sockets[table].up, m) \in Seq(M)
        BY <2>1, SocketQueues
      <3>2. PICK q \in Seq(M) : q = Append(sockets[table].up, m)
        BY <3>1
      <3>3. new = [sockets[table] EXCEPT !.up = q]
        BY <3>2
      <3> HIDE DEF new
      <3> QED
        BY <2>1, <3>2, <3>3 DEF SocketType
    <2>4. ToSet(new.up) \subseteq ToSet(sockets[table].up) \cup {m}
      <3>1. sockets[table].up \in Seq(M)
        BY <2>1 DEF SocketType
      <3> QED
        BY <2>3, <3>1, SequenceElements
    <2> HIDE DEF new
    <2> QED
      BY <1>1, <2>1, <2>2, <2>3, <2>4 DEF PickupTypes
  <1>2. CASE \E s \in Sockets :
               /\ sockets[s].state = "unused"
               /\ sockets' = [sockets EXCEPT ![s] = [NewSocket EXCEPT !.up = <<m>>]]
               /\ table' = s
    <2>1. PICK s \in Sockets :
            /\ sockets[s].state = "unused"
            /\ sockets' = [sockets EXCEPT ![s] = [NewSocket EXCEPT !.up = <<m>>]]
            /\ table' = s
      BY <1>2
    <2> DEFINE new == [NewSocket EXCEPT !.up = <<m>>]
    <2>2. new = [state |-> "open", up |-> <<m>>, down |-> <<>>]
      BY DEF NewSocket
    <2>3. new \in SocketType(M) /\ new.state = "open" /\ new.down = <<>> /\ ToSet(new.up) = {m}
      <3>1. <<m>> \in Seq(M) /\ <<>> \in Seq(M)
        OBVIOUS
      <3>2. ToSet(<<m>>) = {m}
        BY DEF ToSet
      <3> QED
        BY <2>2, <3>1, <3>2 DEF SocketType
    <2> HIDE DEF new
    <2>4. sockets[s].down = <<>>
      BY <2>1 DEF PickupTypes
    <2> QED
      BY <2>1, <2>3, <2>4 DEF PickupTypes, new
  <1> QED
    BY <1>1, <1>2 DEF SendToMediator

\* The mediator has taken up the next message of a socket: its answer goes over a session,
\* or joins the queue.
LEMMA ReplyGoesOut ==
  ASSUME NEW M, PickupTypes(M), NEW m \in M, NEW s \in Sockets, NEW left \in Seq(M),
         sockets[s].up # <<>>, sessions' = SaveSession(s), Reply(s, left, m)
  PROVE  /\ sessions' \in Seq(Sockets) /\ sockets' \in [Sockets -> SocketType(M)]
         /\ queue' \in Seq(M)
         /\ sockets'[s].up = Tail(sockets[s].up)
         /\ \A k \in Sockets \ {s} : sockets'[k].up = sockets[k].up
         /\ \A k \in Sockets : sockets'[k].state = "unused" => sockets'[k].down = <<>>
         /\ \/ /\ queue' = left
               /\ \E session \in Sockets :
                    /\ ToSet(sockets'[session].down) = ToSet(sockets[session].down) \cup {m}
                    /\ \A k \in Sockets \ {session} : sockets'[k].down = sockets[k].down
            \/ /\ queue' = Append(left, m)
               /\ \A k \in Sockets : sockets'[k].down = sockets[k].down
  <1> DEFINE session == IF Contains(sessions', s) THEN s ELSE Head(sessions')
             old == sockets[s]
             shorter == [old EXCEPT !.up = Tail(@)]
             taken == [sockets EXCEPT ![s].up = Tail(@)]
  <1>1. sessions' \in Seq(Sockets) /\ sessions' # <<>>
    <2>1. CASE Contains(sessions, s)
      BY <2>1 DEF SaveSession, PickupTypes, Contains
    <2>2. CASE ~Contains(sessions, s)
      BY <2>2 DEF SaveSession, PickupTypes
    <2> QED
      BY <2>1, <2>2
  <1>2. session \in Sockets
    BY <1>1
  <1>3. taken = [sockets EXCEPT ![s] = shorter]
    OBVIOUS
  <1>4. /\ shorter \in SocketType(M) /\ shorter.state = old.state /\ shorter.down = old.down
        /\ shorter.up = Tail(old.up)
    <2>1. old \in SocketType(M)
      BY DEF PickupTypes
    <2>2. old.up \in Seq(M) /\ Tail(old.up) \in Seq(M)
      <3>1. old.up \in Seq(M)
        BY <2>1 DEF SocketType
      <3> QED
        BY <3>1, SequenceElements
    <2>3. /\ shorter \in SocketType(M) /\ shorter.state = old.state /\ shorter.down = old.down
          /\ shorter.up = Tail(old.up)
      <3> HIDE DEF old
      <3> QED
        BY <2>1, <2>2 DEF SocketType
    <2> QED
      BY <2>2, <2>3
  <1> HIDE DEF shorter, old
  <1>5. /\ taken \in [Sockets -> SocketType(M)]
        /\ \A k \in Sockets : /\ taken[k].state = sockets[k].state
                              /\ taken[k].down = sockets[k].down
        /\ taken[s].up = Tail(sockets[s].up)
        /\ \A k \in Sockets \ {s} : taken[k].up = sockets[k].up
    BY <1>3, <1>4 DEF PickupTypes, old
  <1>6. \/ /\ Usable(session) /\ queue' = left
           /\ sockets' = [taken EXCEPT ![session].down = Append(@, m)]
        \/ sockets' = taken /\ queue' = Append(left, m)
    BY DEF Reply
  <1> HIDE DEF taken, session
  <1>7. CASE /\ Usable(session) /\ queue' = left
             /\ sockets' = [taken EXCEPT ![session].down = Append(@, m)]
    <2> DEFINE before == taken[session]
               new == [before EXCEPT !.down = Append(@, m)]
    <2>1. before \in SocketType(M) /\ before.down \in Seq(M)
      BY <1>2, <1>5 DEF SocketType
    <2>2. sockets' = [taken EXCEPT ![session] = new]
      BY <1>7
    <2> HIDE DEF before
    <2>3. /\ new \in SocketType(M) /\ new.state = before.state /\ new.up = before.up
          /\ new.down = Append(before.down, m)
      <3>1. Append(before.down, m) \in Seq(M)
        BY <2>1
      <3>2. PICK q \in Seq(M) : q = Append(before.down, m)
        BY <3>1
      <3>3. new = [before EXCEPT !.down = q]
        BY <3>2
      <3> HIDE DEF new
      <3> QED
        BY <2>1, <3>2, <3>3 DEF SocketType
    <2>4. ToSet(new.down) = ToSet(before.down) \cup {m}
      BY <2>1, <2>3, SequenceElements
    <2> HIDE DEF new
    <2>5. /\ sockets' \in [Sockets -> SocketType(M)] /\ sockets'[session] = new
          /\ \A k \in Sockets \ {session} : sockets'[k] = taken[k]
      BY <1>2, <1>5, <2>2, <2>3
    <2>6. new.state = "open"
      BY <1>2, <1>5, <1>7, <2>3 DEF Usable, before
    <2>7. /\ sockets'[s].up = Tail(sockets[s].up)
          /\ \A k \in Sockets \ {s} : sockets'[k].up = sockets[k].up
      BY <1>5, <2>3, <2>5 DEF before
    <2>8. \A k \in Sockets : sockets'[k].state = "unused" => sockets'[k].down = <<>>
      BY <1>5, <2>5, <2>6 DEF PickupTypes
    <2>9. /\ ToSet(sockets'[session].down) = ToSet(sockets[session].down) \cup {m}
          /\ \A k \in Sockets \ {session} : sockets'[k].down = sockets[k].down
      BY <1>2, <1>5, <2>4, <2>5 DEF before
    <2> QED
      BY <1>1, <1>2, <1>7, <2>5, <2>7, <2>8, <2>9
  <1>8. CASE sockets' = taken /\ queue' = Append(left, m)
    <2>1. Append(left, m) \in Seq(M)
      OBVIOUS
    <2>2. \A k \in Sockets : sockets[k].state = "unused" => sockets[k].down = <<>>
      BY DEF PickupTypes
    <2> QED
      BY <1>1, <1>5, <1>8, <2>1, <2>2
  <1> QED
    BY <1>6, <1>7, <1>8

\* A step that takes nothing out of the queue, and adds to what is in flight only such
\* deliveries as are of its front.
LEMMA RoundsKept ==
  ASSUME NEW M, PickupTypes(M), RoundInv, mishaps \subseteq mishaps', queue' \in Seq(M),
         InFlight' \subseteq M,
         Len(queue) <= Len(queue'), \A i \in 1 .. Len(queue) : queue'[i] = queue[i],
         received \cup Carried(inbox) \subseteq received' \cup Carried(inbox'),
         \A m \in InFlight' :
           m \in InFlight \/ ("overlap" \notin mishaps /\ m.type = "delivery" => IsFront(m.messages)),
         \A s \in Sockets : \A m \in ToSet(sockets'[s].up) :
           \/ m \in ToSet(sockets[s].up)
           \/ "overlap" \notin mishaps /\ m.type = "messages-received" => Handed(m.count)'
  PROVE  RoundInv'
  <1> SUFFICES ASSUME "overlap" \notin mishaps'
               PROVE  (/\ \A m \in InFlight : m.type = "delivery" => IsFront(m.messages)
                       /\ \A s \in Sockets : \A m \in ToSet(sockets[s].up) :
                            m.type = "messages-received" => Handed(m.count))'
    BY DEF RoundInv
  <1>1. /\ "overlap" \notin mishaps
        /\ \A m \in InFlight : m.type = "delivery" => IsFront(m.messages)
        /\ \A s \in Sockets : \A m \in ToSet(sockets[s].up) :
             m.type = "messages-received" => Handed(m.count)
    BY DEF RoundInv
  <1>2. Len(queue) \in Nat /\ Len(queue') \in Nat
    BY DEF PickupTypes
  <1>3. ASSUME NEW m \in InFlight', m.type = "delivery" PROVE IsFront(m.messages)'
    <2>1. m.messages \in Seq(M) /\ IsFront(m.messages)
      <3>1. IsFront(m.messages)
        BY <1>1, <1>3
      <3> QED
        BY <1>3, <3>1 DEF PickupTypes, SoundIn
    <2> QED
      BY <1>2, <2>1 DEF IsFront
  <1>4. ASSUME NEW s \in Sockets, NEW m \in ToSet(sockets'[s].up), m.type = "messages-received"
        PROVE  Handed(m.count)'
    <2>1. CASE m \in ToSet(sockets[s].up)
      <3>1. Handed(m.count)
        BY <1>1, <1>4, <2>1
      <3>2. sockets[s].up \in Seq(M)
        BY SocketQueues DEF PickupTypes
      <3>3. m \in M
        BY <2>1, <3>2, SequenceElements
      <3>4. m.count \in Nat
        BY <1>4, <3>3 DEF PickupTypes, SoundIn
      <3>5. \A i \in 1 .. m.count : i \in 1 .. Len(queue) /\ queue'[i] = queue[i]
        BY <1>2, <3>1, <3>4 DEF Handed
      <3>6. m.count <= Len(queue')
        BY <1>2, <3>1, <3>4 DEF Handed
      <3>7. \A i \in 1 .. m.count : Carries(queue'[i]) \subseteq received' \cup Carried(inbox')
        BY <3>1, <3>5 DEF Handed
      <3> QED
        BY <3>6, <3>7 DEF Handed
    <2> QED
      BY <1>1, <1>4, <2>1
  <1> QED
    BY <1>3, <1>4

LEMMA CarriedWith ==
  ASSUME NEW A, NEW m
  PROVE  CarriedBy(A \cup {m}) = CarriedBy(A) \cup Carries(m)
  BY DEF CarriedBy

LEMMA CarriedByThree ==
  ASSUME NEW A, NEW B, NEW C
  PROVE  CarriedBy(A \cup B \cup C) = CarriedBy(A) \cup CarriedBy(B) \cup CarriedBy(C)
  BY DEF CarriedBy

LEMMA CarriedUnion ==
  \A A, B : /\ CarriedBy(A \cup B) = CarriedBy(A) \cup CarriedBy(B)
            /\ A \subseteq B => CarriedBy(A) \subseteq CarriedBy(B)
            /\ CarriedBy({}) = {} /\ \A m : CarriedBy({m}) = Carries(m)
  BY DEF CarriedBy

LEMMA InFlightTypes ==
  ASSUME NEW M, PickupTypes(M)
  PROVE  /\ InFlight \subseteq M /\ ToSet(queue) \subseteq M /\ ToSet(inbox) \subseteq M
         /\ \A s \in Sockets : /\ sockets[s].up \in Seq(M) /\ sockets[s].down \in Seq(M)
                               /\ ToSet(sockets[s].up) \subseteq M
                               /\ ToSet(sockets[s].down) \subseteq M
  <1>1. \A s \in Sockets : sockets[s].up \in Seq(M) /\ sockets[s].down \in Seq(M)
    BY SocketQueues DEF PickupTypes
  <1>2. \A q \in Seq(M) : ToSet(q) \subseteq M
    BY SequenceElements
  <1>3. ToSet(queue) \subseteq M /\ ToSet(inbox) \subseteq M
    BY <1>2 DEF PickupTypes
  <1>4. Downs \subseteq M
    BY <1>1, <1>2 DEF Downs
  <1> QED
    BY <1>1, <1>2, <1>3, <1>4 DEF InFlight

LEMMA InFlightTypesNext ==
  ASSUME NEW M, PickupTypes(M)'
  PROVE  /\ InFlight' \subseteq M
         /\ \A s \in Sockets : ToSet(sockets'[s].up) \subseteq M
  <1>1. \A s \in Sockets : sockets'[s].up \in Seq(M) /\ sockets'[s].down \in Seq(M)
    BY SocketQueues DEF PickupTypes
  <1>2. \A q \in Seq(M) : ToSet(q) \subseteq M
    BY SequenceElements
  <1>3. ToSet(queue') \subseteq M /\ ToSet(inbox') \subseteq M
    BY <1>2 DEF PickupTypes
  <1>4. Downs' \subseteq M
    BY <1>1, <1>2 DEF Downs
  <1> QED
    BY <1>1, <1>2, <1>3, <1>4 DEF InFlight

\* What is neither handled nor lost is in flight.
LEMMA WhereMessagesAre ==
  NothingIsLost <=>
    (forwarded \ (received \cup lost) \subseteq CarriedBy(InFlight) \/ "overlap" \in mishaps)
  <1>1. CarriedBy(InFlight) =
          Carried(queue) \cup Carried(inbox) \cup UNION {Carried(sockets[s].down) : s \in Sockets}
    BY DEF CarriedBy, InFlight, Downs, Carried
  <1> QED
    BY <1>1 DEF NothingIsLost

LEMMA WhereMessagesAreNext ==
  NothingIsLost' <=>
    (forwarded' \ (received' \cup lost') \subseteq CarriedBy(InFlight') \/ "overlap" \in mishaps')
  <1>1. CarriedBy(InFlight') =
          Carried(queue') \cup Carried(inbox')
          \cup UNION {Carried(sockets'[s].down) : s \in Sockets}
    BY DEF CarriedBy, InFlight, Downs, Carried
  <1> QED
    BY <1>1 DEF NothingIsLost

LEMMA PickupStep ==
  ASSUME NEW M, PickupTypes(M), PickupTypes(M)', RoundInv, NothingIsLost,
         mishaps \subseteq mishaps', received \subseteq received', lost \subseteq lost',
         Len(queue) <= Len(queue'), \A i \in 1 .. Len(queue) : queue'[i] = queue[i],
         received \cup Carried(inbox) \subseteq received' \cup Carried(inbox'),
         \A m \in InFlight' :
           m \in InFlight \/ ("overlap" \notin mishaps /\ m.type = "delivery" => IsFront(m.messages)),
         \A s \in Sockets : \A m \in ToSet(sockets'[s].up) :
           \/ m \in ToSet(sockets[s].up)
           \/ "overlap" \notin mishaps /\ m.type = "messages-received" => Handed(m.count)',
         forwarded' \subseteq forwarded \cup CarriedBy(InFlight'),
         "overlap" \notin mishaps =>
           CarriedBy(InFlight) \subseteq CarriedBy(InFlight') \cup received' \cup lost'
  PROVE  PickupInv'
  <1>1. queue' \in Seq(M) /\ InFlight' \subseteq M
    BY InFlightTypesNext DEF PickupTypes
  <1>2. RoundInv'
    BY <1>1, RoundsKept
  <1>3. NothingIsLost'
    BY WhereMessagesAre, WhereMessagesAreNext
  <1> QED
    BY <1>2, <1>3 DEF PickupInv

\* A message joins what is on its way to the recipient.
LEMMA DownsGrow ==
  ASSUME NEW m, NEW session \in Sockets,
         ToSet(sockets'[session].down) = ToSet(sockets[session].down) \cup {m},
         \A k \in Sockets \ {session} : sockets'[k].down = sockets[k].down
  PROVE  Downs' = Downs \cup {m}
  BY DEF Downs

LEMMA DownsStay ==
  ASSUME \A k \in Sockets : sockets'[k].down = sockets[k].down
  PROVE  Downs' = Downs
  BY DEF Downs

LEMMA PickupInvInitially == PickupInit => PickupInv
  <1> SUFFICES ASSUME PickupInit PROVE PickupInv
    OBVIOUS
  <1>1. <<>> \in Seq({}) /\ ToSet(<<>>) = {}
    BY DEF ToSet
  <1>2. sockets = [s \in Sockets |-> [state |-> "unused", up |-> <<>>, down |-> <<>>]]
    BY DEF PickupInit, NewSocket
  <1>3. [state |-> "unused", up |-> <<>>, down |-> <<>>] \in SocketType({})
    BY <1>1 DEF SocketType
  <1>4. PickupTypes({})
    BY <1>1, <1>2, <1>3 DEF PickupTypes, PickupInit
  <1>5. InFlight = {}
    BY <1>1, <1>2 DEF InFlight, Downs, PickupInit
  <1>6. RoundInv
    BY <1>1, <1>2, <1>5 DEF RoundInv
  <1>7. NothingIsLost
    BY DEF NothingIsLost, PickupInit
  <1> QED
    BY <1>4, <1>6, <1>7 DEF PickupInv

LEMMA ForwardKeeps ==
  ASSUME PickupInv, NEW f, Forward(f)
  PROVE  PickupInv'
  <1> DEFINE m == Forwarded(f)
  <1>1. /\ m.type = "forwarded" /\ Carries(m) = {f}
        /\ \A M : SoundIn(m, M)
    BY DEF Forwarded, SoundIn, RoundTypes, Carries
  <1> HIDE DEF m
  <1>2. PICK N : PickupTypes(N)
    BY DEF PickupInv
  <1> DEFINE M == N \cup {m}
  <1>3. PickupTypes(M) /\ m \in M
    BY <1>1, <1>2, OneMore
  <1> HIDE DEF M
  <1>4. /\ forwarded' = forwarded \cup {f}
        /\ UNCHANGED <<strategy, table, sessions, inbox, received, lost, mishaps>>
        /\ RoundInv /\ NothingIsLost
    BY DEF Forward, PickupInv
  <1>5. queue \in Seq(M) /\ Len(queue) \in Nat
    BY <1>3 DEF PickupTypes
  <1>6. CASE /\ sessions # <<>> /\ Usable(Head(sessions))
             /\ sockets' = [sockets EXCEPT ![Head(sessions)].down = Append(@, m)]
             /\ UNCHANGED queue
    <2> DEFINE session == Head(sessions)
               old == sockets[session]
               new == [old EXCEPT !.down = Append(@, m)]
    <2>1. session \in Sockets
      BY <1>3, <1>6 DEF PickupTypes
    <2>2. sockets' = [sockets EXCEPT ![session] = new]
      BY <1>6
    <2> HIDE DEF session
    <2>3. old \in SocketType(M) /\ old.down \in Seq(M)
      BY <1>3, <2>1, SocketQueues DEF PickupTypes
    <2>4. /\ new \in SocketType(M) /\ new.state = old.state /\ new.up = old.up
          /\ ToSet(new.down) = ToSet(old.down) \cup {m}
      <3>1. Append(old.down, m) \in Seq(M) /\ ToSet(Append(old.down, m)) = ToSet(old.down) \cup {m}
        BY <1>3, <2>3, SequenceElements
      <3>2. PICK q \in Seq(M) : q = Append(old.down, m)
        BY <3>1
      <3>3. new = [old EXCEPT !.down = q]
        BY <3>2
      <3> HIDE DEF new, old
      <3>4. new \in SocketType(M) /\ new.state = old.state /\ new.up = old.up /\ new.down = q
        BY <2>3, <3>2, <3>3 DEF SocketType
      <3> QED
        BY <3>1, <3>2, <3>4
    <2> HIDE DEF new
    <2>5. /\ sockets' \in [Sockets -> SocketType(M)] /\ sockets'[session] = new
          /\ \A k \in Sockets \ {session} : sockets'[k] = sockets[k]
      BY <1>3, <2>1, <2>2, <2>4 DEF PickupTypes
    <2>6. old.state = "open"
      BY <1>6 DEF Usable, session
    <2>7. PickupTypes(M)'
      BY <1>3, <1>4, <1>6, <2>4, <2>5, <2>6 DEF PickupTypes, SoundIn
    <2>8. InFlight' = InFlight \cup {m}
      <3>1. Downs' = Downs \cup {m}
        BY <2>1, <2>4, <2>5, DownsGrow
      <3> QED
        BY <1>4, <1>6, <3>1 DEF InFlight
    <2>9. \A s \in Sockets : sockets'[s].up = sockets[s].up
      BY <2>4, <2>5
    <2>10. CarriedBy(InFlight') = CarriedBy(InFlight) \cup {f}
      BY <1>1, <2>8, CarriedWith
    <2>11. /\ mishaps \subseteq mishaps' /\ received \subseteq received' /\ lost \subseteq lost'
           /\ Len(queue) <= Len(queue') /\ \A i \in 1 .. Len(queue) : queue'[i] = queue[i]
           /\ received \cup Carried(inbox) \subseteq received' \cup Carried(inbox')
      BY <1>4, <1>5, <1>6
    <2>12. \A x \in InFlight' : x \in InFlight \/ x.type # "delivery"
      BY <1>1, <2>8
    <2>13. \A s \in Sockets : \A x \in ToSet(sockets'[s].up) : x \in ToSet(sockets[s].up)
      BY <2>9
    <2>14. /\ forwarded' \subseteq forwarded \cup CarriedBy(InFlight')
           /\ CarriedBy(InFlight) \subseteq CarriedBy(InFlight') \cup received' \cup lost'
      BY <1>4, <2>10
    <2> QED
      BY <1>3, <1>4, <2>7, <2>11, <2>12, <2>13, <2>14, PickupStep
  <1>7. CASE queue' = Append(queue, m) /\ UNCHANGED sockets
    <2>1. queue' \in Seq(M) /\ ToSet(queue') = ToSet(queue) \cup {m}
      BY <1>3, <1>5, <1>7, SequenceElements
    <2>2. PickupTypes(M)'
      BY <1>3, <1>4, <1>7, <2>1 DEF PickupTypes, SoundIn
    <2>3. InFlight' = InFlight \cup {m}
      BY <1>4, <1>7, <2>1 DEF InFlight, Downs
    <2>4. CarriedBy(InFlight') = CarriedBy(InFlight) \cup {f}
      BY <1>1, <2>3, CarriedWith
    <2>5. Len(queue) <= Len(queue') /\ \A i \in 1 .. Len(queue) : queue'[i] = queue[i]
      BY <1>3, <1>5, <1>7
    <2>6. /\ mishaps \subseteq mishaps' /\ received \subseteq received' /\ lost \subseteq lost'
           /\ Len(queue) <= Len(queue') /\ \A i \in 1 .. Len(queue) : queue'[i] = queue[i]
           /\ received \cup Carried(inbox) \subseteq received' \cup Carried(inbox')
      BY <1>4, <1>5, <2>5
    <2>7. \A x \in InFlight' : x \in InFlight \/ x.type # "delivery"
      BY <1>1, <2>3
    <2>8. \A s \in Sockets : \A x \in ToSet(sockets'[s].up) : x \in ToSet(sockets[s].up)
      BY <1>7
    <2>9. /\ forwarded' \subseteq forwarded \cup CarriedBy(InFlight')
           /\ CarriedBy(InFlight) \subseteq CarriedBy(InFlight') \cup received' \cup lost'
      BY <1>4, <2>4
    <2> QED
      BY <1>3, <1>4, <2>2, <2>6, <2>7, <2>8, <2>9, PickupStep
  <1> QED
    BY <1>6, <1>7 DEF Forward, m

\* The types after an answer, and what is in flight then.
LEMMA ReplyTypes ==
  ASSUME NEW M, PickupTypes(M), NEW m \in M, NEW s \in Sockets, NEW left \in Seq(M),
         sockets[s].up # <<>>, sessions' = SaveSession(s), Reply(s, left, m),
         UNCHANGED <<strategy, table, inbox>>
  PROVE  /\ PickupTypes(M)'
         /\ InFlight' = ToSet(left) \cup ToSet(inbox) \cup Downs \cup {m}
         /\ queue' \in {left, Append(left, m)}
         /\ sockets'[s].up = Tail(sockets[s].up)
         /\ \A k \in Sockets \ {s} : sockets'[k].up = sockets[k].up
         /\ \A k \in Sockets : ToSet(sockets'[k].up) \subseteq ToSet(sockets[k].up)
  <1>1. /\ sessions' \in Seq(Sockets) /\ sockets' \in [Sockets -> SocketType(M)]
        /\ queue' \in Seq(M)
        /\ sockets'[s].up = Tail(sockets[s].up)
        /\ \A k \in Sockets \ {s} : sockets'[k].up = sockets[k].up
        /\ \A k \in Sockets : sockets'[k].state = "unused" => sockets'[k].down = <<>>
        /\ \/ /\ queue' = left
              /\ \E session \in Sockets :
                   /\ ToSet(sockets'[session].down) = ToSet(sockets[session].down) \cup {m}
                   /\ \A k \in Sockets \ {session} : sockets'[k].down = sockets[k].down
           \/ /\ queue' = Append(left, m)
              /\ \A k \in Sockets : sockets'[k].down = sockets[k].down
    BY ReplyGoesOut
  <1>2. PickupTypes(M)'
    BY <1>1 DEF PickupTypes, SoundIn
  <1>3. InFlight' = ToSet(left) \cup ToSet(inbox) \cup Downs \cup {m}
    <2>1. CASE queue' = left /\ Downs' = Downs \cup {m}
      BY <2>1 DEF InFlight
    <2>2. CASE queue' = Append(left, m) /\ Downs' = Downs
      <3>1. ToSet(queue') = ToSet(left) \cup {m}
        BY <2>2, SequenceElements
      <3> QED
        BY <2>2, <3>1 DEF InFlight
    <2> QED
      BY <1>1, <2>1, <2>2, DownsGrow, DownsStay
  <1>4. sockets[s].up \in Seq(M)
    BY InFlightTypes
  <1>5. ToSet(Tail(sockets[s].up)) \subseteq ToSet(sockets[s].up)
    BY <1>4, SequenceElements
  <1> QED
    BY <1>1, <1>2, <1>3, <1>5

LEMMA ReplyKeeps ==
  ASSUME NEW M, PickupTypes(M), RoundInv, NothingIsLost, NEW m \in M, NEW s \in Sockets,
         sockets[s].up # <<>>, sessions' = SaveSession(s), mishaps \subseteq mishaps',
         Reply(s, queue, m), UNCHANGED <<strategy, table, inbox, forwarded, received, lost>>,
         "overlap" \notin mishaps /\ m.type = "delivery" => IsFront(m.messages)
  PROVE  PickupInv'
  <1>1. queue \in Seq(M)
    BY DEF PickupTypes
  <1>2. /\ PickupTypes(M)'
        /\ InFlight' = InFlight \cup {m}
        /\ queue' \in {queue, Append(queue, m)}
        /\ \A k \in Sockets : ToSet(sockets'[k].up) \subseteq ToSet(sockets[k].up)
    BY <1>1, ReplyTypes DEF InFlight
  <1>3. Len(queue) <= Len(queue') /\ \A i \in 1 .. Len(queue) : queue'[i] = queue[i]
    BY <1>1, <1>2
  <1>4. CarriedBy(InFlight') = CarriedBy(InFlight) \cup Carries(m)
    BY <1>2, CarriedWith
  <1>5. received \cup Carried(inbox) \subseteq received' \cup Carried(inbox')
    OBVIOUS
  <1>6. \A x \in InFlight' :
          x \in InFlight \/ ("overlap" \notin mishaps /\ x.type = "delivery" => IsFront(x.messages))
    BY <1>2
  <1>7. \A k \in Sockets : \A x \in ToSet(sockets'[k].up) : x \in ToSet(sockets[k].up)
    BY <1>2
  <1>8. /\ forwarded' \subseteq forwarded \cup CarriedBy(InFlight')
        /\ CarriedBy(InFlight) \subseteq CarriedBy(InFlight') \cup received' \cup lost'
        /\ received \subseteq received' /\ lost \subseteq lost'
    BY <1>4
  <1> QED
    BY <1>2, <1>3, <1>5, <1>6, <1>7, <1>8, PickupStep

\* What a socket has brought the mediator is one of the messages there are.
LEMMA TakenUp ==
  ASSUME NEW M, PickupTypes(M), NEW s \in Sockets, NEW type, TakesUp(s, type)
  PROVE  /\ sockets[s].up # <<>> /\ sockets[s].up \in Seq(M) /\ 1 \in DOMAIN sockets[s].up
         /\ Head(sockets[s].up) = sockets[s].up[1]
         /\ Head(sockets[s].up) \in ToSet(sockets[s].up)
         /\ Head(sockets[s].up).type = type /\ SoundIn(Head(sockets[s].up), M)
         /\ sessions' = SaveSession(s) /\ Noted(s) /\ mishaps \subseteq mishaps'
  <1>1. sockets[s].up \in Seq(M) /\ sockets[s].up # <<>> /\ Head(sockets[s].up).type = type
        /\ sessions' = SaveSession(s) /\ Noted(s)
    BY InFlightTypes DEF TakesUp
  <1>2. Head(sockets[s].up) \in ToSet(sockets[s].up) /\ Head(sockets[s].up) \in M
    BY <1>1, SequenceElements
  <1>3. 1 \in DOMAIN sockets[s].up /\ Head(sockets[s].up) = sockets[s].up[1]
    BY <1>1
  <1> QED
    BY <1>1, <1>2, <1>3 DEF PickupTypes, Noted

LEMMA ProcessStatusRequestKeeps ==
  ASSUME PickupInv, NEW s \in Sockets, ProcessStatusRequest(s)
  PROVE  PickupInv'
  <1>1. PICK N : PickupTypes(N)
    BY DEF PickupInv
  <1>2. TakesUp(s, "status-request") /\ RoundInv /\ NothingIsLost
        /\ Reply(s, queue, Status(Len(queue)))
        /\ UNCHANGED <<strategy, table, inbox, forwarded, received, lost>>
    BY DEF ProcessStatusRequest, PickupInv
  <1>3. PICK m : m = Status(Len(queue))
    OBVIOUS
  <1>4. /\ Head(sockets[s].up).type = "status-request" /\ SoundIn(Head(sockets[s].up), N)
        /\ Len(queue) \in Nat
    BY <1>1, <1>2, TakenUp DEF PickupTypes
  <1>5. SoundIn(m, N) /\ m.type = "status"
    BY <1>3, <1>4 DEF SoundIn, Status, RoundTypes
  <1>6. PickupTypes(N \cup {m})
    BY <1>1, <1>5, OneMore
  <1>7. sockets[s].up # <<>> /\ sessions' = SaveSession(s) /\ mishaps \subseteq mishaps'
    BY <1>1, <1>2, TakenUp
  <1> QED
    BY <1>2, <1>3, <1>5, <1>6, <1>7, ReplyKeeps

\* What is in front of the queue.
LEMMA FrontOfQueue ==
  ASSUME NEW M, PickupTypes(M), NEW n \in Nat
  PROVE  /\ FirstOf(n) \in Seq(M) /\ IsFront(FirstOf(n))
         /\ Without(n) \in Seq(M)
         /\ ToSet(queue) = ToSet(FirstOf(n)) \cup ToSet(Without(n))
         /\ \A x \in ToSet(FirstOf(n)) : \E i \in 1 .. n : i \in 1 .. Len(queue) /\ x = queue[i]
  <1> DEFINE k == IF n < Len(queue) THEN n ELSE Len(queue)
  <1>1. queue \in Seq(M) /\ k \in 0 .. Len(queue) /\ k <= n /\ Len(queue) \in Nat
    BY DEF PickupTypes
  <1>2. FirstOf(n) = SubSeq(queue, 1, k) /\ Without(n) = SubSeq(queue, k + 1, Len(queue))
    BY DEF FirstOf, Without
  <1> HIDE DEF k
  <1>3. /\ FirstOf(n) \in Seq(M) /\ Len(FirstOf(n)) = k
        /\ \A i \in 1 .. k : FirstOf(n)[i] = queue[i]
        /\ Without(n) \in Seq(M) /\ ToSet(queue) = ToSet(FirstOf(n)) \cup ToSet(Without(n))
        /\ ToSet(FirstOf(n)) = {queue[i] : i \in 1 .. k}
    BY <1>1, <1>2, Parts
  <1>4. IsFront(FirstOf(n))
    BY <1>1, <1>3 DEF IsFront
  <1>5. \A i \in 1 .. k : i \in 1 .. n /\ i \in 1 .. Len(queue)
    BY <1>1
  <1> QED
    BY <1>3, <1>4, <1>5

LEMMA ProcessDeliveryRequestKeeps ==
  ASSUME PickupInv, NEW s \in Sockets, ProcessDeliveryRequest(s)
  PROVE  PickupInv'
  <1> DEFINE request == Head(sockets[s].up)
             answer == IF queue = <<>> THEN Status(0) ELSE Delivery(FirstOf(request.limit))
  <1>1. PICK N : PickupTypes(N)
    BY DEF PickupInv
  <1>2. TakesUp(s, "delivery-request") /\ RoundInv /\ NothingIsLost
        /\ Reply(s, queue, answer)
        /\ UNCHANGED <<strategy, table, inbox, forwarded, received, lost>>
    BY DEF ProcessDeliveryRequest, PickupInv
  <1>3. PICK m : m = answer
    OBVIOUS
  <1>4. request.type = "delivery-request" /\ SoundIn(request, N)
    BY <1>1, <1>2, TakenUp
  <1>5. request.limit \in Nat /\ strategy # "PickUpV1"
    BY <1>4 DEF SoundIn, RoundTypes
  <1>6. FirstOf(request.limit) \in Seq(N) /\ IsFront(FirstOf(request.limit))
    BY <1>1, <1>5, FrontOfQueue
  <1>7. SoundIn(m, N) /\ (m.type = "delivery" => IsFront(m.messages))
    <2>1. CASE m = Status(0)
      BY <1>5, <2>1 DEF SoundIn, Status
    <2>2. CASE m = Delivery(FirstOf(request.limit))
      <3> HIDE DEF request
      <3> QED
        BY <1>5, <1>6, <2>2 DEF SoundIn, Delivery
    <2> QED
      BY <1>3, <2>1, <2>2
  <1>8. PickupTypes(N \cup {m})
    BY <1>1, <1>7, OneMore
  <1>9. sockets[s].up # <<>> /\ sessions' = SaveSession(s) /\ mishaps \subseteq mishaps'
    BY <1>1, <1>2, TakenUp
  <1> HIDE DEF answer
  <1> QED
    BY <1>2, <1>3, <1>7, <1>8, <1>9, ReplyKeeps

\* What the mediator takes up of a round is all there is of rounds, or they overlap.
LEMMA OnlyRound ==
  ASSUME NEW s \in Sockets, Noted(s), "overlap" \notin mishaps', 1 \in DOMAIN sockets[s].up,
         sockets[s].up[1].type \in RoundTypes
  PROVE  /\ \A x \in InFlight : x.type \notin RoundTypes
         /\ \A k \in Sockets : \A i \in DOMAIN sockets[k].up :
              sockets[k].up[i].type \in RoundTypes => k = s /\ i = 1
  <1>1. \A p, q \in Rounds : p = q
    BY DEF Noted
  <1>2. <<"up", s, 1>> \in Rounds
    BY DEF Rounds, InRound
  <1>3. \A p \in Rounds : p = <<"up", s, 1>>
    BY <1>1, <1>2
  <1>4. ASSUME NEW i \in InRound(inbox) PROVE FALSE
    <2>1. <<"inbox", 0, i>> \in Rounds
      BY <1>4 DEF Rounds
    <2> QED
      BY <1>3, <2>1
  <1>5. ASSUME NEW i \in InRound(queue) PROVE FALSE
    <2>1. <<"queue", 0, i>> \in Rounds
      BY <1>5 DEF Rounds
    <2> QED
      BY <1>3, <2>1
  <1>6. ASSUME NEW k \in Sockets, NEW i \in InRound(sockets[k].down) PROVE FALSE
    <2>1. <<"down", k, i>> \in Rounds
      BY <1>6 DEF Rounds
    <2> QED
      BY <1>3, <2>1
  <1>7. ASSUME NEW k \in Sockets, NEW i \in InRound(sockets[k].up) PROVE k = s /\ i = 1
    <2>1. <<"up", k, i>> \in Rounds
      BY <1>7 DEF Rounds
    <2>2. <<"up", k, i>> = <<"up", s, 1>>
      BY <1>3, <2>1
    <2> QED
      BY <2>2
  <1>8. \A x \in InFlight : x.type \notin RoundTypes
    BY <1>4, <1>5, <1>6 DEF InFlight, Downs, InRound, ToSet
  <1> QED
    BY <1>7, <1>8 DEF InRound

LEMMA ProcessMessagesReceivedKeeps ==
  ASSUME PickupInv, NEW s \in Sockets, ProcessMessagesReceived(s)
  PROVE  PickupInv'
  <1> DEFINE request == Head(sockets[s].up)
             rest == Without(request.count)
  <1>1. PICK N : PickupTypes(N)
    BY DEF PickupInv
  <1>2. TakesUp(s, "messages-received") /\ RoundInv /\ NothingIsLost
        /\ Reply(s, rest, Status(Len(rest)))
        /\ UNCHANGED <<strategy, table, inbox, forwarded, received, lost>>
    BY DEF ProcessMessagesReceived, PickupInv
  <1>3. PICK m : m = Status(Len(rest))
    OBVIOUS
  <1>4. /\ sockets[s].up # <<>> /\ sockets[s].up \in Seq(N) /\ 1 \in DOMAIN sockets[s].up
        /\ request = sockets[s].up[1] /\ request \in ToSet(sockets[s].up)
        /\ request.type = "messages-received" /\ SoundIn(request, N)
        /\ sessions' = SaveSession(s) /\ Noted(s) /\ mishaps \subseteq mishaps'
    BY <1>1, <1>2, TakenUp
  <1>5. request.count \in Nat /\ strategy # "PickUpV1"
    BY <1>4 DEF SoundIn, RoundTypes
  <1>6. /\ rest \in Seq(N) /\ Len(rest) \in Nat
        /\ ToSet(queue) = ToSet(FirstOf(request.count)) \cup ToSet(rest)
        /\ \A x \in ToSet(FirstOf(request.count)) :
             \E i \in 1 .. request.count : i \in 1 .. Len(queue) /\ x = queue[i]
    <2>1. \A n \in Nat : Without(n) \in Seq(N) => Len(Without(n)) \in Nat
      OBVIOUS
    <2> HIDE DEF request
    <2> QED
      BY <1>1, <1>5, <2>1, FrontOfQueue
  <1> HIDE DEF request, rest
  <1>7. SoundIn(m, N) /\ m.type = "status"
    BY <1>3, <1>5, <1>6 DEF SoundIn, Status, RoundTypes
  <1> DEFINE M == N \cup {m}
  <1>8. PickupTypes(M) /\ m \in M /\ rest \in Seq(M)
    BY <1>1, <1>6, <1>7, OneMore
  <1> HIDE DEF M
  <1>9. /\ PickupTypes(M)'
        /\ InFlight' = ToSet(rest) \cup ToSet(inbox) \cup Downs \cup {m}
        /\ sockets'[s].up = Tail(sockets[s].up)
        /\ \A k \in Sockets \ {s} : sockets'[k].up = sockets[k].up
    BY <1>2, <1>3, <1>4, <1>8, ReplyTypes
  <1>10. InFlight' \subseteq InFlight \cup {m}
    BY <1>6, <1>9 DEF InFlight
  <1>11. ASSUME "overlap" \notin mishaps'
         PROVE  /\ \A x \in InFlight' : x.type # "delivery"
                /\ \A k \in Sockets : \A x \in ToSet(sockets'[k].up) : x.type # "messages-received"
                /\ ToSet(FirstOf(request.count)) \subseteq ToSet(queue)
                /\ CarriedBy(ToSet(FirstOf(request.count))) \subseteq received \cup Carried(inbox)
    <2>1. /\ \A x \in InFlight : x.type \notin RoundTypes
          /\ \A k \in Sockets : \A i \in DOMAIN sockets[k].up :
               sockets[k].up[i].type \in RoundTypes => k = s /\ i = 1
      <3>1. sockets[s].up[1].type \in RoundTypes
        BY <1>4 DEF RoundTypes
      <3> QED
        BY <1>4, <1>11, <3>1, OnlyRound
    <2>2. \A x \in InFlight' : x.type # "delivery"
      BY <1>7, <1>10, <2>1 DEF RoundTypes
    <2>3. ASSUME NEW k \in Sockets, NEW x \in ToSet(sockets'[k].up), x.type = "messages-received"
          PROVE  FALSE
      <3>1. CASE k # s
        BY <1>9, <2>1, <2>3, <3>1 DEF ToSet, RoundTypes
      <3>2. CASE k = s
        <4>1. PICK i \in DOMAIN Tail(sockets[s].up) : x = Tail(sockets[s].up)[i]
          BY <1>9, <2>3, <3>2 DEF ToSet
        <4>2. i + 1 \in DOMAIN sockets[s].up /\ x = sockets[s].up[i + 1] /\ i + 1 # 1
          BY <1>4, <4>1
        <4> QED
          BY <2>1, <2>3, <4>2 DEF RoundTypes
      <3> QED
        BY <3>1, <3>2
    <2>4. Handed(request.count)
      BY <1>2, <1>4, <1>11 DEF RoundInv
    <2>5. CarriedBy(ToSet(FirstOf(request.count))) \subseteq received \cup Carried(inbox)
      BY <1>6, <2>4 DEF CarriedBy, Handed
    <2> QED
      BY <1>6, <2>2, <2>3, <2>5
  <1>12. RoundInv'
    BY <1>11 DEF RoundInv
  <1>13. NothingIsLost'
    <2> SUFFICES ASSUME "overlap" \notin mishaps'
                 PROVE  forwarded' \ (received' \cup lost') \subseteq CarriedBy(InFlight')
      BY WhereMessagesAreNext
    <2>1. forwarded \ (received \cup lost) \subseteq CarriedBy(InFlight)
      BY <1>2, <1>4, WhereMessagesAre
    <2>2. CarriedBy(InFlight) = CarriedBy(ToSet(queue)) \cup CarriedBy(ToSet(inbox)) \cup CarriedBy(Downs)
      BY CarriedByThree DEF InFlight
    <2>3. CarriedBy(ToSet(queue)) =
            CarriedBy(ToSet(FirstOf(request.count))) \cup CarriedBy(ToSet(rest))
      BY <1>6, CarriedUnion
    <2>4. /\ CarriedBy(ToSet(rest)) \subseteq CarriedBy(InFlight')
          /\ CarriedBy(ToSet(inbox)) \subseteq CarriedBy(InFlight')
          /\ CarriedBy(Downs) \subseteq CarriedBy(InFlight')
      BY <1>9, CarriedUnion
    <2> QED
      BY <1>2, <1>11, <2>1, <2>2, <2>3, <2>4 DEF Carried
  <1> QED
    BY <1>9, <1>12, <1>13 DEF PickupInv

LEMMA ProcessBatchPickupKeeps ==
  ASSUME PickupInv, NEW s \in Sockets, ProcessBatchPickup(s)
  PROVE  PickupInv'
  <1> DEFINE request == Head(sockets[s].up)
             size == request.size
             rest == Without(size)
             front == FirstOf(size)
  <1>1. PICK N : PickupTypes(N)
    BY DEF PickupInv
  <1>2. TakesUp(s, "batch-pickup") /\ NothingIsLost
        /\ Reply(s, rest, Batch(front))
        /\ UNCHANGED <<strategy, table, inbox, forwarded, received, lost>>
    BY DEF ProcessBatchPickup, PickupInv
  <1>3. PICK m : m = Batch(front)
    OBVIOUS
  <1>4. /\ sockets[s].up # <<>> /\ request.type = "batch-pickup" /\ SoundIn(request, N)
        /\ sessions' = SaveSession(s) /\ mishaps \subseteq mishaps'
    BY <1>1, <1>2, TakenUp
  <1>5. size \in Nat /\ strategy = "PickUpV1"
    BY <1>4 DEF SoundIn
  <1>6. /\ rest \in Seq(N) /\ front \in Seq(N)
        /\ ToSet(queue) = ToSet(front) \cup ToSet(rest)
    BY <1>1, <1>5, FrontOfQueue
  <1> HIDE DEF request, size, rest, front
  <1>7. SoundIn(m, N) /\ Carries(m) = CarriedBy(ToSet(front))
    BY <1>3, <1>5, <1>6 DEF SoundIn, Batch, RoundTypes, Carries, Carried
  <1> DEFINE M == N \cup {m}
  <1>8. PickupTypes(M) /\ m \in M /\ rest \in Seq(M)
    BY <1>1, <1>6, <1>7, OneMore
  <1> HIDE DEF M
  <1>9. /\ PickupTypes(M)'
        /\ InFlight' = ToSet(rest) \cup ToSet(inbox) \cup Downs \cup {m}
        /\ \A k \in Sockets : ToSet(sockets'[k].up) \subseteq ToSet(sockets[k].up)
    BY <1>2, <1>3, <1>4, <1>8, ReplyTypes
  <1>10. \A x \in M : x.type \notin RoundTypes
    BY <1>5, <1>8 DEF PickupTypes, SoundIn
  <1>11. RoundInv'
    <2>1. \A x \in InFlight' : x.type # "delivery"
      BY <1>9, <1>10, InFlightTypesNext DEF RoundTypes
    <2>2. \A k \in Sockets : \A x \in ToSet(sockets'[k].up) : x.type # "messages-received"
      BY <1>9, <1>10, InFlightTypesNext DEF RoundTypes
    <2> QED
      BY <2>1, <2>2 DEF RoundInv
  <1>12. CarriedBy(InFlight) \subseteq CarriedBy(InFlight')
    <2>1. CarriedBy(InFlight) =
            CarriedBy(ToSet(queue)) \cup CarriedBy(ToSet(inbox)) \cup CarriedBy(Downs)
      BY CarriedByThree DEF InFlight
    <2>2. CarriedBy(ToSet(queue)) = Carries(m) \cup CarriedBy(ToSet(rest))
      BY <1>6, <1>7, CarriedUnion
    <2>3. CarriedBy(InFlight') =
            CarriedBy(ToSet(rest) \cup ToSet(inbox) \cup Downs) \cup Carries(m)
      BY <1>9, CarriedWith
    <2>4. CarriedBy(ToSet(rest) \cup ToSet(inbox) \cup Downs) =
            CarriedBy(ToSet(rest)) \cup CarriedBy(ToSet(inbox)) \cup CarriedBy(Downs)
      BY CarriedByThree
    <2> QED
      BY <2>1, <2>2, <2>3, <2>4
  <1>13. NothingIsLost'
    BY <1>2, <1>4, <1>12, WhereMessagesAre, WhereMessagesAreNext
  <1> QED
    BY <1>9, <1>11, <1>13 DEF PickupInv

\* One socket changes.
LEMMA SocketReplaced ==
  ASSUME NEW M, PickupTypes(M), NEW s \in Sockets, NEW new \in SocketType(M),
         sockets' = [sockets EXCEPT ![s] = new], new.state = "unused" => new.down = <<>>
  PROVE  /\ sockets' \in [Sockets -> SocketType(M)] /\ sockets'[s] = new
         /\ \A k \in Sockets \ {s} : sockets'[k] = sockets[k]
         /\ \A k \in Sockets : sockets'[k].state = "unused" => sockets'[k].down = <<>>
  BY DEF PickupTypes

LEMMA SavedSessions ==
  ASSUME NEW M, PickupTypes(M), NEW s \in Sockets
  PROVE  SaveSession(s) \in Seq(Sockets)
  BY DEF SaveSession, PickupTypes

LEMMA ProcessPingKeeps ==
  ASSUME PickupInv, NEW s \in Sockets, ProcessPing(s)
  PROVE  PickupInv'
  <1> DEFINE old == sockets[s]
             new == [old EXCEPT !.up = Tail(@)]
  <1>1. PICK M : PickupTypes(M)
    BY DEF PickupInv
  <1>2. TakesUp(s, "ping") /\ RoundInv /\ NothingIsLost
        /\ sockets' = [sockets EXCEPT ![s] = new]
        /\ UNCHANGED <<strategy, table, queue, inbox, forwarded, received, lost>>
    BY DEF ProcessPing, PickupInv
  <1>3. /\ old.up # <<>> /\ sessions' = SaveSession(s) /\ mishaps \subseteq mishaps'
    BY <1>1, <1>2, TakenUp
  <1>4. /\ new \in SocketType(M) /\ new.state = old.state /\ new.down = old.down
        /\ ToSet(new.up) \subseteq ToSet(old.up)
    <2>1. old \in SocketType(M) /\ old.up \in Seq(M)
      BY <1>1, SocketQueues DEF PickupTypes
    <2> HIDE DEF old
    <2>2. Tail(old.up) \in Seq(M) /\ ToSet(Tail(old.up)) \subseteq ToSet(old.up)
      BY <1>3, <2>1, SequenceElements
    <2>3. PICK q \in Seq(M) : q = Tail(old.up)
      BY <2>2
    <2>4. new = [old EXCEPT !.up = q]
      BY <2>3
    <2> HIDE DEF new
    <2>5. new \in SocketType(M) /\ new.state = old.state /\ new.down = old.down /\ new.up = q
      BY <2>1, <2>3, <2>4 DEF SocketType
    <2> QED
      BY <2>2, <2>3, <2>5
  <1> HIDE DEF new
  <1>5. /\ sockets' \in [Sockets -> SocketType(M)] /\ sockets'[s] = new
        /\ \A k \in Sockets \ {s} : sockets'[k] = sockets[k]
        /\ \A k \in Sockets : sockets'[k].state = "unused" => sockets'[k].down = <<>>
    <2>1. new.state = "unused" => new.down = <<>>
      BY <1>1, <1>4 DEF PickupTypes
    <2> QED
      BY <1>1, <1>2, <1>4, <2>1, SocketReplaced
  <1>6. PickupTypes(M)'
    BY <1>1, <1>2, <1>3, <1>5, SavedSessions DEF PickupTypes, SoundIn
  <1>7. InFlight' = InFlight
    <2>1. Downs' = Downs
      BY <1>4, <1>5, DownsStay
    <2> QED
      BY <1>2, <2>1 DEF InFlight
  <1>8. \A k \in Sockets : \A x \in ToSet(sockets'[k].up) : x \in ToSet(sockets[k].up)
    BY <1>4, <1>5
  <1>9. /\ received \subseteq received' /\ lost \subseteq lost'
        /\ Len(queue) <= Len(queue') /\ \A i \in 1 .. Len(queue) : queue'[i] = queue[i]
        /\ received \cup Carried(inbox) \subseteq received' \cup Carried(inbox')
        /\ forwarded' \subseteq forwarded \cup CarriedBy(InFlight')
        /\ CarriedBy(InFlight) \subseteq CarriedBy(InFlight') \cup received' \cup lost'
    BY <1>1, <1>2, <1>7 DEF PickupTypes
  <1> QED
    BY <1>1, <1>2, <1>3, <1>6, <1>7, <1>8, <1>9, PickupStep

LEMMA ArriveKeeps ==
  ASSUME PickupInv, NEW s \in Sockets, Arrive(s)
  PROVE  PickupInv'
  <1> DEFINE old == sockets[s]
             new == [old EXCEPT !.down = Tail(@)]
             m == Head(old.down)
  <1>1. PICK M : PickupTypes(M)
    BY DEF PickupInv
  <1>2. /\ old.state # "unused" /\ old.down # <<>> /\ RoundInv /\ NothingIsLost
        /\ inbox' = Append(inbox, m) /\ sockets' = [sockets EXCEPT ![s] = new]
        /\ UNCHANGED <<strategy, table, sessions, queue, forwarded, received, lost, mishaps>>
    BY DEF Arrive, PickupInv
  <1>3. old \in SocketType(M) /\ old.down \in Seq(M)
    BY <1>1, SocketQueues DEF PickupTypes
  <1> HIDE DEF old
  <1>4. /\ Tail(old.down) \in Seq(M) /\ ToSet(old.down) = {m} \cup ToSet(Tail(old.down))
        /\ m \in M
    BY <1>2, <1>3, SequenceElements
  <1> HIDE DEF m
  <1>5. /\ new \in SocketType(M) /\ new.state = old.state /\ new.up = old.up
        /\ ToSet(old.down) = {m} \cup ToSet(new.down)
    <2>1. PICK q \in Seq(M) : q = Tail(old.down)
      BY <1>4
    <2>2. new = [old EXCEPT !.down = q]
      BY <2>1
    <2> HIDE DEF new
    <2>3. new \in SocketType(M) /\ new.state = old.state /\ new.up = old.up /\ new.down = q
      BY <1>3, <2>1, <2>2 DEF SocketType
    <2> QED
      BY <1>4, <2>1, <2>3
  <1> HIDE DEF new
  <1>6. /\ sockets' \in [Sockets -> SocketType(M)] /\ sockets'[s] = new
        /\ \A k \in Sockets \ {s} : sockets'[k] = sockets[k]
        /\ \A k \in Sockets : sockets'[k].state = "unused" => sockets'[k].down = <<>>
    BY <1>1, <1>2, <1>5, SocketReplaced
  <1>7. inbox' \in Seq(M) /\ ToSet(inbox') = ToSet(inbox) \cup {m}
    <2>1. inbox \in Seq(M)
      BY <1>1 DEF PickupTypes
    <2> QED
      BY <1>2, <1>4, <2>1, SequenceElements
  <1>8. PickupTypes(M)'
    BY <1>1, <1>2, <1>6, <1>7 DEF PickupTypes, SoundIn
  <1>9. InFlight' = InFlight
    <2>1. Downs = Downs' \cup {m}
      BY <1>5, <1>6 DEF Downs, old
    <2> QED
      BY <1>2, <1>7, <2>1 DEF InFlight
  <1>10. \A k \in Sockets : \A x \in ToSet(sockets'[k].up) : x \in ToSet(sockets[k].up)
    BY <1>5, <1>6 DEF old
  <1>11. Carried(inbox) \subseteq Carried(inbox')
    BY <1>7, CarriedUnion DEF Carried
  <1>12. /\ received \subseteq received' /\ lost \subseteq lost' /\ mishaps \subseteq mishaps'
         /\ Len(queue) <= Len(queue') /\ \A i \in 1 .. Len(queue) : queue'[i] = queue[i]
         /\ received \cup Carried(inbox) \subseteq received' \cup Carried(inbox')
         /\ forwarded' \subseteq forwarded \cup CarriedBy(InFlight')
         /\ CarriedBy(InFlight) \subseteq CarriedBy(InFlight') \cup received' \cup lost'
    BY <1>1, <1>2, <1>9, <1>11 DEF PickupTypes
  <1> QED
    BY <1>1, <1>2, <1>8, <1>9, <1>10, <1>12, PickupStep

\* The next event of the recipient.
LEMMA NextEvent ==
  ASSUME NEW M, PickupTypes(M), NEW type, Handles(type)
  PROVE  /\ Head(inbox).type = type /\ SoundIn(Head(inbox), M)
         /\ Head(inbox) \in InFlight /\ Tail(inbox) \in Seq(M)
         /\ ToSet(inbox) = {Head(inbox)} \cup ToSet(Tail(inbox))
         /\ Carried(inbox) = Carries(Head(inbox)) \cup Carried(Tail(inbox))
  <1>1. inbox \in Seq(M) /\ inbox # <<>> /\ Head(inbox).type = type
    BY DEF Handles, PickupTypes
  <1>2. /\ Head(inbox) \in ToSet(inbox) /\ Tail(inbox) \in Seq(M) /\ ToSet(inbox) \subseteq M
        /\ ToSet(inbox) = {Head(inbox)} \cup ToSet(Tail(inbox))
    BY <1>1, SequenceElements
  <1>3. Carried(inbox) = Carries(Head(inbox)) \cup Carried(Tail(inbox))
    <2>1. \A A, m : CarriedBy(A \cup {m}) = CarriedBy(A) \cup Carries(m)
      BY CarriedWith
    <2>2. ToSet(inbox) = ToSet(Tail(inbox)) \cup {Head(inbox)}
      BY <1>2
    <2>3. CarriedBy(ToSet(inbox)) = CarriedBy(ToSet(Tail(inbox))) \cup Carries(Head(inbox))
      BY <2>1, <2>2, Zenon
    <2> QED
      BY <2>3 DEF Carried
  <1> QED
    BY <1>1, <1>2, <1>3 DEF InFlight, PickupTypes

\* The recipient's events change, and nothing else that is in flight.
LEMMA InboxKeeps ==
  ASSUME NEW M, PickupTypes(M), RoundInv, NothingIsLost, inbox' \in Seq(M),
         UNCHANGED <<strategy, sessions, queue, forwarded, lost, mishaps>>,
         table' \in Sockets \cup {0}, sockets' \in [Sockets -> SocketType(M)],
         \A k \in Sockets : /\ sockets'[k].down = sockets[k].down
                            /\ sockets'[k].state = "unused" => sockets'[k].down = <<>>,
         \A k \in Sockets : \A x \in ToSet(sockets'[k].up) :
           \/ x \in ToSet(sockets[k].up)
           \/ "overlap" \notin mishaps /\ x.type = "messages-received" => Handed(x.count)',
         received \subseteq received',
         received \cup Carried(inbox) \subseteq received' \cup Carried(inbox'),
         \A x \in ToSet(inbox') :
           x \in InFlight \/ ("overlap" \notin mishaps /\ x.type = "delivery" => IsFront(x.messages))
  PROVE  PickupInv'
  <1>1. PickupTypes(M)'
    BY DEF PickupTypes, SoundIn
  <1>2. Downs' = Downs
    BY DownsStay
  <1>3. \A x \in InFlight' :
          x \in InFlight \/ ("overlap" \notin mishaps /\ x.type = "delivery" => IsFront(x.messages))
    BY <1>2 DEF InFlight
  <1>4. CarriedBy(InFlight) \subseteq CarriedBy(InFlight') \cup received'
    <2>1. CarriedBy(InFlight) = CarriedBy(ToSet(queue)) \cup Carried(inbox) \cup CarriedBy(Downs)
      BY CarriedByThree DEF InFlight, Carried
    <2>2. CarriedBy(InFlight') = CarriedBy(ToSet(queue)) \cup Carried(inbox') \cup CarriedBy(Downs)
      BY <1>2, CarriedByThree DEF InFlight, Carried
    <2> QED
      BY <2>1, <2>2
  <1>5. Len(queue) <= Len(queue') /\ \A i \in 1 .. Len(queue) : queue'[i] = queue[i]
    BY DEF PickupTypes
  <1>6. /\ lost \subseteq lost' /\ mishaps \subseteq mishaps'
        /\ forwarded' \subseteq forwarded \cup CarriedBy(InFlight')
    OBVIOUS
  <1> QED
    BY <1>1, <1>3, <1>4, <1>5, <1>6, PickupStep

LEMMA ReceiveForwardedKeeps ==
  ASSUME PickupInv, ReceiveForwarded
  PROVE  PickupInv'
  <1>1. PICK M : PickupTypes(M)
    BY DEF PickupInv
  <1>2. /\ Handles("forwarded") /\ RoundInv /\ NothingIsLost
        /\ received' = received \cup {Head(inbox).message} /\ inbox' = Tail(inbox)
        /\ UNCHANGED <<sockets, table, strategy, sessions, queue, forwarded, lost, mishaps>>
    BY DEF ReceiveForwarded, RecipientUnchanged, PickupInv
  <1>3. /\ Head(inbox).type = "forwarded" /\ SoundIn(Head(inbox), M) /\ Tail(inbox) \in Seq(M)
        /\ ToSet(inbox) = {Head(inbox)} \cup ToSet(Tail(inbox))
        /\ Carried(inbox) = Carries(Head(inbox)) \cup Carried(Tail(inbox))
    BY <1>1, <1>2, NextEvent
  <1>4. Carries(Head(inbox)) = {Head(inbox).message}
    BY <1>3 DEF Carries, SoundIn
  <1>5. \A x \in ToSet(inbox') : x \in InFlight
    BY <1>2, <1>3 DEF InFlight
  <1>6. /\ sockets' \in [Sockets -> SocketType(M)] /\ table' \in Sockets \cup {0}
        /\ \A k \in Sockets : sockets'[k].state = "unused" => sockets'[k].down = <<>>
    BY <1>1, <1>2 DEF PickupTypes
  <1>7. received \subseteq received' /\ Carried(inbox) \subseteq received' \cup Carried(inbox')
    BY <1>2, <1>3, <1>4
  <1> QED
    BY <1>1, <1>2, <1>3, <1>5, <1>6, <1>7, InboxKeeps

LEMMA ProcessBatchKeeps ==
  ASSUME PickupInv, ProcessBatch
  PROVE  PickupInv'
  <1> DEFINE m == Head(inbox)
  <1>1. PICK M : PickupTypes(M)
    BY DEF PickupInv
  <1>2. /\ Handles("batch") /\ RoundInv /\ NothingIsLost
        /\ inbox' = Tail(inbox) \o m.messages
        /\ UNCHANGED <<sockets, table, strategy, sessions, queue, received, forwarded, lost, mishaps>>
    BY DEF ProcessBatch, RecipientUnchanged, PickupInv
  <1>3. /\ m.type = "batch" /\ SoundIn(m, M) /\ Tail(inbox) \in Seq(M)
        /\ Carried(inbox) = Carries(m) \cup Carried(Tail(inbox))
    BY <1>1, <1>2, NextEvent
  <1> HIDE DEF m
  <1>4. m.messages \in Seq(M) /\ Carries(m) = Carried(m.messages) /\ strategy = "PickUpV1"
    BY <1>3 DEF Carries, SoundIn
  <1>5. inbox' \in Seq(M) /\ ToSet(inbox') = ToSet(Tail(inbox)) \cup ToSet(m.messages)
    <2>1. PICK t \in Seq(M), ms \in Seq(M) : t = Tail(inbox) /\ ms = m.messages
      BY <1>3, <1>4
    <2>2. t \o ms \in Seq(M) /\ ToSet(t \o ms) = ToSet(t) \cup ToSet(ms)
      BY ConcatElements
    <2> QED
      BY <1>2, <2>1, <2>2
  <1>6. Carried(inbox) \subseteq Carried(inbox')
    BY <1>3, <1>4, <1>5, CarriedUnion DEF Carried
  <1>7. \A x \in ToSet(inbox') : x.type # "delivery"
    <2>1. ToSet(inbox') \subseteq M
      BY <1>5, SequenceElements
    <2> QED
      BY <1>1, <1>4, <2>1 DEF PickupTypes, SoundIn, RoundTypes
  <1>8. /\ sockets' \in [Sockets -> SocketType(M)] /\ table' \in Sockets \cup {0}
        /\ \A k \in Sockets : sockets'[k].state = "unused" => sockets'[k].down = <<>>
    BY <1>1, <1>2 DEF PickupTypes
  <1> QED
    BY <1>1, <1>2, <1>5, <1>6, <1>7, <1>8, InboxKeeps

LEMMA ProcessDeliveryKeeps ==
  ASSUME PickupInv, ProcessDelivery
  PROVE  PickupInv'
  <1> DEFINE d == Head(inbox)
             confirmation == MessagesReceived(Len(d.messages))
  <1>1. PICK N : PickupTypes(N)
    BY DEF PickupInv
  <1>2. /\ Handles("delivery") /\ RoundInv /\ NothingIsLost
        /\ inbox' = Tail(inbox) \o d.messages
        /\ SendToMediator(confirmation)
        /\ UNCHANGED <<strategy, sessions, queue, received, forwarded, lost, mishaps>>
    BY DEF ProcessDelivery, RecipientUnchanged, PickupInv
  <1>3. PICK m : m = confirmation
    OBVIOUS
  <1>4. /\ d.type = "delivery" /\ SoundIn(d, N) /\ d \in InFlight /\ Tail(inbox) \in Seq(N)
        /\ ToSet(inbox) = {d} \cup ToSet(Tail(inbox))
        /\ Carried(inbox) = Carries(d) \cup Carried(Tail(inbox))
    BY <1>1, <1>2, NextEvent
  <1> HIDE DEF d
  <1>5. /\ d.messages \in Seq(N) /\ Carries(d) = Carried(d.messages) /\ strategy # "PickUpV1"
        /\ Len(d.messages) \in Nat
    <2>1. d.messages \in Seq(N) /\ Carries(d) = Carried(d.messages) /\ strategy # "PickUpV1"
      BY <1>4 DEF Carries, SoundIn, RoundTypes
    <2> QED
      BY <2>1
  <1>6. SoundIn(m, N) /\ m.count = Len(d.messages)
    BY <1>3, <1>5 DEF SoundIn, MessagesReceived
  <1> DEFINE M == N \cup {m}
  <1>7. PickupTypes(M) /\ m \in M
    BY <1>1, <1>6, OneMore
  <1>8. d.messages \in Seq(M) /\ Tail(inbox) \in Seq(M)
    BY <1>4, <1>5
  <1> HIDE DEF M, confirmation
  <1>9. inbox' \in Seq(M) /\ ToSet(inbox') = ToSet(Tail(inbox)) \cup ToSet(d.messages)
    <2>1. PICK t \in Seq(M), ms \in Seq(M) : t = Tail(inbox) /\ ms = d.messages
      BY <1>8
    <2>2. t \o ms \in Seq(M) /\ ToSet(t \o ms) = ToSet(t) \cup ToSet(ms)
      BY ConcatElements
    <2> QED
      BY <1>2, <2>1, <2>2
  <1>10. Carried(inbox) \subseteq Carried(inbox') /\ Carried(d.messages) \subseteq Carried(inbox')
    BY <1>4, <1>5, <1>9, CarriedUnion DEF Carried
  <1>11. /\ table' \in Sockets \cup {0} /\ sockets' \in [Sockets -> SocketType(M)]
         /\ \A k \in Sockets :
              /\ sockets'[k].down = sockets[k].down
              /\ sockets'[k].state = "unused" => sockets'[k].down = <<>>
              /\ ToSet(sockets'[k].up) \subseteq ToSet(sockets[k].up) \cup {m}
    BY <1>2, <1>3, <1>7, SendToMediatorAdds
  <1>12. "overlap" \notin mishaps => IsFront(d.messages)
    BY <1>2, <1>4 DEF RoundInv
  <1>13. \A x \in ToSet(inbox') : x \in InFlight \/ "overlap" \in mishaps
    <2>1. "overlap" \notin mishaps => ToSet(d.messages) \subseteq ToSet(queue)
      <3>1. \A i \in 1 .. Len(d.messages) :
              Len(d.messages) <= Len(queue) => i \in DOMAIN queue
        BY <1>1, <1>5 DEF PickupTypes
      <3>2. DOMAIN d.messages = 1 .. Len(d.messages)
        BY <1>5
      <3> QED
        BY <1>12, <3>1, <3>2 DEF IsFront, ToSet
    <2> QED
      BY <1>4, <1>9, <2>1 DEF InFlight
  <1>14. "overlap" \notin mishaps => Handed(m.count)'
    <2> SUFFICES ASSUME "overlap" \notin mishaps PROVE Handed(m.count)'
      OBVIOUS
    <2>1. IsFront(d.messages)
      BY <1>12
    <2>2. \A i \in 1 .. Len(d.messages) : Carries(queue[i]) \subseteq Carried(d.messages)
      <3>1. \A i \in 1 .. Len(d.messages) : queue[i] \in ToSet(d.messages)
        BY <1>5, <2>1 DEF IsFront, ToSet
      <3> QED
        BY <3>1 DEF Carried, CarriedBy
    <2> QED
      BY <1>2, <1>6, <1>10, <2>1, <2>2 DEF Handed, IsFront
  <1>15. \A k \in Sockets : \A x \in ToSet(sockets'[k].up) :
           \/ x \in ToSet(sockets[k].up)
           \/ "overlap" \notin mishaps /\ x.type = "messages-received" => Handed(x.count)'
    BY <1>11, <1>14
  <1> QED
    BY <1>2, <1>7, <1>9, <1>10, <1>11, <1>13, <1>15, InboxKeeps

\* The recipient sends what confirms nothing.
LEMMA SendKeeps ==
  ASSUME NEW N, PickupTypes(N), RoundInv, NothingIsLost, NEW m, SoundIn(m, N),
         m.type # "messages-received", SendToMediator(m), inbox' \in Seq(N),
         UNCHANGED <<strategy, sessions, queue, received, forwarded, lost, mishaps>>,
         Carried(inbox) \subseteq Carried(inbox'), ToSet(inbox') \subseteq InFlight
  PROVE  PickupInv'
  <1> DEFINE M == N \cup {m}
  <1>1. PickupTypes(M) /\ m \in M
    BY OneMore
  <1>2. inbox' \in Seq(M)
    OBVIOUS
  <1> HIDE DEF M
  <1>3. /\ table' \in Sockets \cup {0} /\ sockets' \in [Sockets -> SocketType(M)]
        /\ \A k \in Sockets :
             /\ sockets'[k].down = sockets[k].down
             /\ sockets'[k].state = "unused" => sockets'[k].down = <<>>
             /\ ToSet(sockets'[k].up) \subseteq ToSet(sockets[k].up) \cup {m}
    BY <1>1, SendToMediatorAdds
  <1>4. \A k \in Sockets : \A x \in ToSet(sockets'[k].up) :
          x \in ToSet(sockets[k].up) \/ x.type # "messages-received"
    BY <1>3
  <1> QED
    BY <1>1, <1>2, <1>3, <1>4, InboxKeeps

LEMMA ProcessStatusKeeps ==
  ASSUME PickupInv, ProcessStatus
  PROVE  PickupInv'
  <1> DEFINE n == Head(inbox).count
             request == DeliveryRequest(IF n < MaxBatch THEN n ELSE MaxBatch)
  <1>1. PICK N : PickupTypes(N)
    BY DEF PickupInv
  <1>2. /\ Handles("status") /\ RoundInv /\ NothingIsLost /\ inbox' = Tail(inbox)
        /\ IF n = 0 THEN SendToMediator(TrustPing) ELSE SendToMediator(request)
        /\ UNCHANGED <<strategy, sessions, queue, received, forwarded, lost, mishaps>>
    BY DEF ProcessStatus, RecipientUnchanged, PickupInv
  <1>3. /\ Head(inbox).type = "status" /\ SoundIn(Head(inbox), N) /\ Tail(inbox) \in Seq(N)
        /\ ToSet(inbox) = {Head(inbox)} \cup ToSet(Tail(inbox))
        /\ Carried(inbox) = Carries(Head(inbox)) \cup Carried(Tail(inbox))
    BY <1>1, <1>2, NextEvent
  <1>4. Carries(Head(inbox)) = {} /\ n \in Nat /\ strategy # "PickUpV1"
    BY <1>3 DEF Carries, SoundIn, RoundTypes
  <1>5. PICK m : SendToMediator(m) /\ m \in {TrustPing, request}
    BY <1>2
  <1>6. SoundIn(m, N) /\ m.type # "messages-received"
    <2>1. CASE m = TrustPing
      BY <2>1 DEF SoundIn, TrustPing, RoundTypes
    <2>2. CASE m = request
      <3>1. (IF n < MaxBatch THEN n ELSE MaxBatch) \in Nat
        BY <1>4, PickupAssumption
      <3> HIDE DEF n
      <3> QED
        BY <1>4, <2>2, <3>1 DEF SoundIn, DeliveryRequest, RoundTypes
    <2> QED
      BY <1>5, <2>1, <2>2
  <1>7. ToSet(inbox') \subseteq InFlight /\ Carried(inbox) \subseteq Carried(inbox')
    BY <1>2, <1>3, <1>4 DEF InFlight
  <1> QED
    BY <1>1, <1>2, <1>3, <1>5, <1>6, <1>7, SendKeeps

LEMMA PickupStutters ==
  ASSUME PickupInv,
         UNCHANGED <<strategy, sockets, table, sessions, queue, inbox, forwarded, received, lost,
                     mishaps>>
  PROVE  PickupInv'
  <1>1. PICK M : PickupTypes(M)
    BY DEF PickupInv
  <1>2. PickupTypes(M)'
    BY <1>1 DEF PickupTypes, SoundIn
  <1>3. RoundInv'
    BY DEF PickupInv, RoundInv, InFlight, Downs, Handed, IsFront
  <1>4. NothingIsLost'
    BY DEF PickupInv, NothingIsLost
  <1> QED
    BY <1>2, <1>3, <1>4 DEF PickupInv

LEMMA FirstMessages ==
  ASSUME NEW N
  PROVE  /\ SoundIn(FirstMessage, N) /\ FirstMessage.type # "messages-received"
         /\ strategy = "PickUpV1" => /\ SoundIn(BatchPickup(MaxBatch), N)
                                     /\ BatchPickup(MaxBatch).type # "messages-received"
  <1>1. CASE strategy = "PickUpV2"
    BY <1>1 DEF FirstMessage, StatusRequest, SoundIn
  <1>2. CASE strategy # "PickUpV2"
    BY <1>2, PickupAssumption DEF FirstMessage, TrustPing, BatchPickup, SoundIn, RoundTypes
  <1> QED
    BY <1>1, <1>2

LEMMA StartsKeep ==
  ASSUME PickupInv, InitiateMessagePickup \/ Poll \/ Reconnect
  PROVE  PickupInv'
  <1>1. PICK N : PickupTypes(N)
    BY DEF PickupInv
  <1>2. /\ RoundInv /\ NothingIsLost
        /\ UNCHANGED <<strategy, sessions, queue, inbox, received, forwarded, lost, mishaps>>
        /\ \/ SendToMediator(FirstMessage)
           \/ strategy = "PickUpV1" /\ SendToMediator(BatchPickup(MaxBatch))
           \/ UNCHANGED <<sockets, table>>
    BY DEF InitiateMessagePickup, Poll, Reconnect, PickupInv
  <1>3. inbox \in Seq(N) /\ ToSet(inbox) \subseteq InFlight
    BY <1>1 DEF PickupTypes, InFlight
  <1>4. CASE UNCHANGED <<sockets, table>>
    BY <1>2, <1>4, PickupStutters
  <1>5. ASSUME NEW m, SoundIn(m, N), m.type # "messages-received", SendToMediator(m)
        PROVE  PickupInv'
    BY <1>1, <1>2, <1>3, <1>5, SendKeeps
  <1>6. CASE SendToMediator(FirstMessage)
    <2>1. PICK m : m = FirstMessage
      OBVIOUS
    <2> QED
      BY <1>5, <1>6, <2>1, FirstMessages
  <1>7. CASE strategy = "PickUpV1" /\ SendToMediator(BatchPickup(MaxBatch))
    <2>1. PICK m : m = BatchPickup(MaxBatch)
      OBVIOUS
    <2> QED
      BY <1>5, <1>7, <2>1, FirstMessages
  <1> QED
    BY <1>2, <1>4, <1>6, <1>7

\* What is dropped is noted as lost, but for deliveries: what they carry is queued.
LEMMA DropKeeps ==
  ASSUME PickupInv, NEW s \in Sockets, Drop(s)
  PROVE  PickupInv'
  <1> DEFINE old == sockets[s]
  <1>1. PICK M : PickupTypes(M)
    BY DEF PickupInv
  <1>2. PICK i \in 0 .. Len(old.up), j \in 0 .. Len(old.down) :
          /\ sockets' = [sockets EXCEPT ![s] =
               [state |-> "closing", up |-> SubSeq(@.up, 1, i), down |-> SubSeq(@.down, 1, j)]]
          /\ LET dropped == ToSet(SubSeq(old.down, j + 1, Len(old.down)))
             IN  lost' = lost \cup CarriedBy({m \in dropped : m.type # "delivery"})
    BY DEF Drop
  <1>3. /\ RoundInv /\ NothingIsLost /\ sessions' = RemoveFirst(sessions, s)
        /\ UNCHANGED <<strategy, table, queue, inbox, forwarded, received, mishaps>>
    BY DEF Drop, PickupInv
  <1>4. old \in SocketType(M) /\ old.up \in Seq(M) /\ old.down \in Seq(M)
    BY <1>1, SocketQueues DEF PickupTypes
  <1> DEFINE up == SubSeq(old.up, 1, i)
             down == SubSeq(old.down, 1, j)
             dropped == ToSet(SubSeq(old.down, j + 1, Len(old.down)))
             new == [state |-> "closing", up |-> up, down |-> down]
  <1>5. up \in Seq(M) /\ ToSet(up) \subseteq ToSet(old.up)
    BY <1>4, Parts
  <1>6. down \in Seq(M) /\ ToSet(old.down) = ToSet(down) \cup dropped
    BY <1>4, Parts
  <1>7. sockets' = [sockets EXCEPT ![s] = new]
    BY <1>2
  <1>8. lost' = lost \cup CarriedBy({m \in dropped : m.type # "delivery"})
    BY <1>2
  <1> HIDE DEF up, down, dropped
  <1>9. new \in SocketType(M) /\ new.state # "unused" /\ new.up = up /\ new.down = down
    BY <1>5, <1>6 DEF SocketType
  <1> HIDE DEF new, old
  <1>10. /\ sockets' \in [Sockets -> SocketType(M)] /\ sockets'[s] = new
         /\ \A k \in Sockets \ {s} : sockets'[k] = sockets[k]
         /\ \A k \in Sockets : sockets'[k].state = "unused" => sockets'[k].down = <<>>
    BY <1>1, <1>7, <1>9, SocketReplaced
  <1>11. sessions' \in Seq(Sockets)
    <2>1. sessions \in Seq(Sockets)
      BY <1>1 DEF PickupTypes
    <2> QED
      BY <1>3, <2>1, RemoveFirstType
  <1>12. PickupTypes(M)'
    BY <1>1, <1>3, <1>10, <1>11 DEF PickupTypes, SoundIn
  <1>13. Downs = Downs' \cup dropped
    BY <1>6, <1>9, <1>10 DEF Downs, old
  <1>14. InFlight = InFlight' \cup dropped
    BY <1>3, <1>13 DEF InFlight
  <1>15. ASSUME "overlap" \notin mishaps
         PROVE  CarriedBy(dropped) \subseteq CarriedBy(InFlight') \cup lost'
    <2> SUFFICES ASSUME NEW m \in dropped
                 PROVE  Carries(m) \subseteq CarriedBy(InFlight') \cup lost'
      BY DEF CarriedBy
    <2>1. CASE m.type # "delivery"
      BY <1>8, <2>1 DEF CarriedBy
    <2>2. CASE m.type = "delivery"
      <3>1. m \in InFlight /\ m \in M
        BY <1>1, <1>14, InFlightTypes
      <3>2. IsFront(m.messages) /\ m.messages \in Seq(M) /\ m.carries = Carried(m.messages)
        BY <1>1, <1>3, <1>15, <2>2, <3>1 DEF RoundInv, PickupTypes, SoundIn
      <3>3. ToSet(m.messages) \subseteq ToSet(queue)
        <4>1. queue \in Seq(M)
          BY <1>1 DEF PickupTypes
        <4>2. \A k \in DOMAIN m.messages : k \in DOMAIN queue /\ m.messages[k] = queue[k]
          BY <3>2, <4>1 DEF IsFront
        <4> QED
          BY <4>2 DEF ToSet
      <3>4. ToSet(queue) \subseteq InFlight'
        BY <1>3 DEF InFlight
      <3>5. Carries(m) = CarriedBy(ToSet(m.messages))
        BY <2>2, <3>2 DEF Carries, Carried
      <3> QED
        BY <3>3, <3>4, <3>5, CarriedUnion
    <2> QED
      BY <2>1, <2>2
  <1>16. "overlap" \notin mishaps =>
           CarriedBy(InFlight) \subseteq CarriedBy(InFlight') \cup received' \cup lost'
    BY <1>14, <1>15, CarriedUnion
  <1>17. \A k \in Sockets : \A x \in ToSet(sockets'[k].up) : x \in ToSet(sockets[k].up)
    BY <1>5, <1>9, <1>10 DEF old
  <1>18. /\ received \subseteq received' /\ lost \subseteq lost' /\ mishaps \subseteq mishaps'
         /\ Len(queue) <= Len(queue') /\ \A k \in 1 .. Len(queue) : queue'[k] = queue[k]
         /\ received \cup Carried(inbox) \subseteq received' \cup Carried(inbox')
         /\ forwarded' \subseteq forwarded \cup CarriedBy(InFlight')
         /\ InFlight' \subseteq InFlight
    <2>1. queue' = queue /\ inbox' = inbox /\ received' = received /\ mishaps' = mishaps
          /\ forwarded' = forwarded
      BY <1>3
    <2>2. Carried(inbox') = Carried(inbox) /\ Len(queue) \in Nat
      BY <1>1, <2>1 DEF PickupTypes
    <2> QED
      BY <1>8, <1>14, <2>1, <2>2
  <1> QED
    BY <1>1, <1>3, <1>12, <1>16, <1>17, <1>18, PickupStep

LEMMA OnCloseKeeps ==
  ASSUME PickupInv, NEW s \in Sockets, OnClose(s)
  PROVE  PickupInv'
  <1>1. PICK M : PickupTypes(M)
    BY DEF PickupInv
  <1>2. /\ RoundInv /\ NothingIsLost /\ table' = 0 /\ sockets[s].state = "closing"
        /\ sockets' = [sockets EXCEPT ![s] = [sockets[s] EXCEPT !.state = "closed"]]
        /\ UNCHANGED <<strategy, sessions, queue, inbox, forwarded, received, lost, mishaps>>
    BY DEF OnClose, PickupInv
  <1> DEFINE old == sockets[s]
             new == [old EXCEPT !.state = "closed"]
  <1>3. old \in SocketType(M)
    BY <1>1 DEF PickupTypes
  <1>4. sockets' = [sockets EXCEPT ![s] = new]
    BY <1>2
  <1> HIDE DEF old
  <1>5. /\ new \in SocketType(M) /\ new.state # "unused"
        /\ new.up = old.up /\ new.down = old.down
    BY <1>3 DEF SocketType
  <1> HIDE DEF new
  <1>6. /\ sockets' \in [Sockets -> SocketType(M)] /\ sockets'[s] = new
        /\ \A k \in Sockets \ {s} : sockets'[k] = sockets[k]
        /\ \A k \in Sockets : sockets'[k].state = "unused" => sockets'[k].down = <<>>
    BY <1>1, <1>4, <1>5, SocketReplaced
  <1>7. \A k \in Sockets : /\ sockets'[k].down = sockets[k].down
                           /\ sockets'[k].up = sockets[k].up
    BY <1>5, <1>6 DEF old
  <1>8. /\ inbox' \in Seq(M) /\ table' \in Sockets \cup {0} /\ ToSet(inbox') \subseteq InFlight
        /\ received \subseteq received'
        /\ received \cup Carried(inbox) \subseteq received' \cup Carried(inbox')
    BY <1>1, <1>2 DEF PickupTypes, InFlight
  <1> QED
    BY <1>1, <1>2, <1>6, <1>7, <1>8, InboxKeeps

LEMMA PickupInvKept ==
  ASSUME PickupInv, [PickupNext]_pickupVars
  PROVE  PickupInv'
  <1>1. CASE UNCHANGED pickupVars
    BY <1>1, PickupStutters DEF pickupVars
  <1>2. ASSUME NEW f \in Forwards, Forward(f) PROVE PickupInv'
    BY <1>2, ForwardKeeps
  <1>3. ASSUME NEW s \in Sockets, MediatorHandles(s) PROVE PickupInv'
    BY <1>3, ProcessStatusRequestKeeps, ProcessDeliveryRequestKeeps,
       ProcessMessagesReceivedKeeps, ProcessBatchPickupKeeps, ProcessPingKeeps
       DEF MediatorHandles
  <1>4. ASSUME NEW s \in Sockets, Arrive(s) \/ Drop(s) \/ OnClose(s) PROVE PickupInv'
    BY <1>4, ArriveKeeps, DropKeeps, OnCloseKeeps
  <1>5. CASE RecipientHandles
    BY <1>5, ReceiveForwardedKeeps, ProcessStatusKeeps, ProcessDeliveryKeeps, ProcessBatchKeeps
       DEF RecipientHandles
  <1>6. CASE InitiateMessagePickup \/ Poll \/ Reconnect
    BY <1>6, StartsKeep
  <1> QED
    BY <1>1, <1>2, <1>3, <1>4, <1>5, <1>6 DEF PickupNext

\* A message that the mediator has accepted for a recipient is in its queue, on its way
\* or handled, however often the WebSocket drops and whatever is forwarded or polled
\* meanwhile, with these exceptions: the WebSocket dropped while it carried the message
\* outside of a delivery, or two rounds of pickup overlapped, and the confirmation of
\* one took messages of the other (MessageReceivedHandler, InMemoryMessageRepository).
THEOREM AcceptedMessagesAreKept == PickupSpec => []NothingIsLost
<1>1. PickupInv => NothingIsLost
  BY DEF PickupInv
<1> QED
  BY <1>1, PickupInvInitially, PickupInvKept, PTL DEF PickupSpec
================================================================================
