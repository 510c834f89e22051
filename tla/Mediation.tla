------------------------------- MODULE Mediation -------------------------------
(***************************************************************************)
(* Mediation coordination: an agent (the recipient) asks mediators to      *)
(* receive messages for it, tells them the keys of its connections, and    *)
(* hands routings with those keys to other agents.                         *)
(*                                                                         *)
(* Granularity: a read of a record and the later write of the whole record *)
(* are two steps, because the code awaits something else in between.  One  *)
(* message handler runs at a time; API calls run between its steps.        *)
(***************************************************************************)
EXTENDS Naturals, Sequences, FiniteSets, SequencesExt

CONSTANTS
  Mediators,         \* mediators the recipient is connected with
  MediationIds,      \* ids of mediation records, one per request
  MediationCallers,  \* API calls of the recipient that run concurrently
  RoutingKeys,       \* keys the recipient creates for its connections
  MaxMediationCalls, \* bounds the calls of a behaviour
  Nothing            \* "undefined" / "null"

VARIABLES
  mediations,    \* mediations[id]: the recipient's record, or Nothing
  served,        \* served[id]: the record the mediator made for that request
  mediationNet,  \* messages in flight
  awaiting,      \* awaiting[c]: what call c of the recipient is doing
  handling,      \* the message the recipient's handler is at, with the record read
  handed,        \* keys of mediated routings handed out and not withdrawn since
  shared,        \* keys whose update was sent or awaited together with another
  raced,         \* which races over a record have happened
  made           \* number of calls made

mediationVars ==
  <<mediations, served, mediationNet, awaiting, handling, handed, shared, raced, made>>

-------------------------------------------------------------------------------
(* Values *)

MediationStates == {"requested", "granted", "denied"}

KeylistActions == {"add", "remove"}

\* A keylist message holds a list of updates: one, as a routing has one recipient key.
KeylistUpdates == [action : KeylistActions, key : RoutingKeys]

\* MediationRecord, as the recipient keeps it.  keys lists recipientKeys.
RecipientRecordType ==
  [mediator : Mediators, state : MediationStates, keys : Seq(RoutingKeys),
   default : BOOLEAN, strategy : {Nothing, "discovered"}]

\* MediationRecord, as the mediator keeps it.
MediatorRecordType == [mediator : Mediators, state : MediationStates, keys : Seq(RoutingKeys)]

RequestMessage(m, id) == [type |-> "mediate-request", mediator |-> m, id |-> id, update |-> Nothing]
GrantMessage(m, id)   == [type |-> "mediate-grant", mediator |-> m, id |-> id, update |-> Nothing]
DenyMessage(m, id)    == [type |-> "mediate-deny", mediator |-> m, id |-> id, update |-> Nothing]
KeylistUpdateMessage(m, update) ==
  [type |-> "keylist-update", mediator |-> m, id |-> Nothing, update |-> update]
KeylistUpdateResponse(m, update) ==
  [type |-> "keylist-update-response", mediator |-> m, id |-> Nothing, update |-> update]

MediationMessageType ==
  [type : {"mediate-request", "mediate-grant", "mediate-deny", "keylist-update",
           "keylist-update-response"},
   mediator : Mediators, id : MediationIds \cup {Nothing}, update : KeylistUpdates \cup {Nothing}]

ASSUME MediationAssumption ==
  /\ MediationIds \subseteq Nat /\ MaxMediationCalls \in Nat
  /\ Nothing \notin RoutingKeys \cup MediationIds \cup Mediators
  /\ Nothing \notin RecipientRecordType \cup MediatorRecordType
  /\ Nothing \notin MediationMessageType \cup KeylistUpdates

\* A call: the record it concerns (id), its copy of that record, the key it waits
\* for, and the copies of default records that it has yet to clear.
CallType ==
  [pc : {"idle", "awaitGrant", "awaitKeylist", "clearDefaults", "saveStrategy"},
   id : MediationIds \cup {Nothing}, copy : RecipientRecordType \cup {Nothing},
   key : RoutingKeys \cup {Nothing}, provision : BOOLEAN,
   defaults : [MediationIds -> RecipientRecordType \cup {Nothing}]]

NoDefaults == [id \in MediationIds |-> Nothing]

NoCall == [pc |-> "idle", id |-> Nothing, copy |-> Nothing, key |-> Nothing,
           provision |-> FALSE, defaults |-> NoDefaults]

NotHandling == [message |-> Nothing, id |-> Nothing, read |-> Nothing]

-------------------------------------------------------------------------------
(* Storage *)

Saved == {id \in MediationIds : mediations[id] # Nothing}

\* getByConnectionId finds a record of the connection with mediator m, and only one.
RecordWith(m, id) == {i \in Saved : mediations[i].mediator = m} = {id}

ServedWith(m, id) ==
  {i \in MediationIds : served[i] # Nothing /\ served[i].mediator = m} = {id}

Defaults == {id \in Saved : mediations[id].default}

\* Update writes the whole record, as it was read and then changed.
Write(id, read, record) ==
  /\ mediations' = [mediations EXCEPT ![id] = record]
  /\ raced' = IF mediations[id] = read THEN raced ELSE raced \cup {"lost update"}

\* addRecipientKey pushes, removeRecipientKey removes the first occurrence.
ApplyUpdate(keys, update) ==
  IF update.action = "add" THEN Append(keys, update.key) ELSE RemoveFirst(keys, update.key)

Continues(c, call) == awaiting' = [awaiting EXCEPT ![c] = call]

Starts(c) ==
  /\ awaiting[c].pc = "idle" /\ made < MaxMediationCalls
  /\ made' = made + 1

-------------------------------------------------------------------------------
(* Requests *)

FreshMediationId(id) == mediations[id] = Nothing /\ \A i \in MediationIds : i < id => i \in Saved

\* createRequest saves a record whether or not there is one, then the request is
\* sent; requestAndAwaitGrant (and provision, which calls it) waits for the grant.
SendRequest(c, m, call) ==
  \E id \in MediationIds :
    /\ FreshMediationId(id)
    /\ mediations' = [mediations EXCEPT ![id] =
         [mediator |-> m, state |-> "requested", keys |-> <<>>, default |-> FALSE,
          strategy |-> Nothing]]
    /\ mediationNet' = mediationNet \cup {RequestMessage(m, id)}
    /\ Continues(c, [call EXCEPT !.id = id])
    /\ UNCHANGED <<served, handling, handed, shared, raced>>

RequestMediation(c, m) == Starts(c) /\ SendRequest(c, m, NoCall)

RequestAndAwaitGrant(c, m) ==
  Starts(c) /\ SendRequest(c, m, [NoCall EXCEPT !.pc = "awaitGrant"])

\* With a record already there provision returns it, granted or not.
Provision(c, m) ==
  /\ Starts(c)
  /\ \A id \in Saved : mediations[id].mediator # m
  /\ SendRequest(c, m, [NoCall EXCEPT !.pc = "awaitGrant", !.provision = TRUE])

ReceiveRequest(msg) ==
  /\ msg \in mediationNet /\ msg.type = "mediate-request"
  /\ served' = [served EXCEPT ![msg.id] =
                  [mediator |-> msg.mediator, state |-> "requested", keys |-> <<>>]]
  /\ mediationNet' = mediationNet \ {msg}
  /\ UNCHANGED <<mediations, awaiting, handling, handed, shared, raced, made>>

\* Mutant: the grant goes out and the record stays in requested.
GrantMediation_NotSaved(id) ==
  /\ served[id] # Nothing /\ served[id].state = "requested"
  /\ mediationNet' = mediationNet \cup {GrantMessage(served[id].mediator, id)}
  /\ UNCHANGED <<mediations, served, awaiting, handling, handed, shared, raced, made>>

\* createGrantMediationMessage, at once or when the mediator's application accepts.
\* (If the mediator has no routing keys yet it throws after the update: the grant
\* is then a message that never arrives.)
GrantMediation(id) ==
  /\ served[id] # Nothing /\ served[id].state = "requested"
  /\ served' = [served EXCEPT ![id].state = "granted"]
  /\ mediationNet' = mediationNet \cup {GrantMessage(served[id].mediator, id)}
  /\ UNCHANGED <<mediations, awaiting, handling, handed, shared, raced, made>>

\* Nothing in the repository sends a denial; other mediators do.
DenyMediation(id) ==
  /\ served[id] # Nothing /\ served[id].state = "requested"
  /\ served' = [served EXCEPT ![id].state = "denied"]
  /\ mediationNet' = mediationNet \cup {DenyMessage(served[id].mediator, id)}
  /\ UNCHANGED <<mediations, awaiting, handling, handed, shared, raced, made>>

-------------------------------------------------------------------------------
(* The recipient's handlers: a record is read ... *)

Reads(msg, type, state) ==
  /\ handling = NotHandling
  /\ msg \in mediationNet /\ msg.type = type
  /\ mediationNet' = mediationNet \ {msg}
  /\ \E id \in Saved :
       /\ RecordWith(msg.mediator, id) /\ mediations[id].state = state
       /\ handling' = [message |-> msg, id |-> id, read |-> mediations[id]]
  /\ UNCHANGED <<mediations, served, awaiting, handed, shared, raced, made>>

ProcessMediationGrant(msg)       == Reads(msg, "mediate-grant", "requested")
ProcessMediationDeny(msg)        == Reads(msg, "mediate-deny", "requested")
ProcessKeylistUpdateResults(msg) == Reads(msg, "keylist-update-response", "granted")

(* ... and written, and the calls that wait for the event go on. *)

\* The first event of the record ends the wait of requestAndAwaitGrant; provision
\* makes the record that came with it the default.
Granted(id, record) ==
  awaiting' = [c \in MediationCallers |->
    IF awaiting[c].pc # "awaitGrant" \/ awaiting[c].id # id THEN awaiting[c]
    ELSE IF awaiting[c].provision
         THEN [NoCall EXCEPT !.pc = "clearDefaults", !.id = id, !.copy = record,
               !.defaults = [i \in MediationIds |->
                               IF i \in Defaults THEN mediations[i] ELSE Nothing]]
         ELSE NoCall]

WriteState ==
  /\ handling.message # Nothing /\ handling.message.type \in {"mediate-grant", "mediate-deny"}
  /\ LET granted == handling.message.type = "mediate-grant"
         record  == [handling.read EXCEPT !.state = IF granted THEN "granted" ELSE "denied"]
     IN  /\ Write(handling.id, handling.read, record)
         /\ IF granted THEN Granted(handling.id, record) ELSE UNCHANGED awaiting
  /\ handling' = NotHandling
  /\ UNCHANGED <<served, mediationNet, handed, shared, made>>

\* The calls that take this event: it is matched by the record alone, so it may be
\* the answer to an update of another call, or of one that has timed out.
EndedBy(id) == {c \in MediationCallers : awaiting[c].pc = "awaitKeylist" /\ awaiting[c].id = id}

\* The update in the response is applied, whatever its result says.
WriteKeylist ==
  /\ handling.message # Nothing /\ handling.message.type = "keylist-update-response"
  /\ Write(handling.id, handling.read,
           [handling.read EXCEPT !.keys = ApplyUpdate(@, handling.message.update)])
  /\ LET ended == EndedBy(handling.id)
     IN  /\ handed' = handed \cup ({awaiting[c].key : c \in ended} \ {Nothing})
         /\ awaiting' = [c \in MediationCallers |-> IF c \in ended THEN NoCall ELSE awaiting[c]]
  /\ handling' = NotHandling
  /\ UNCHANGED <<served, mediationNet, shared, made>>

-------------------------------------------------------------------------------
(* Keylist updates *)

\* Another update of the record is under way: unanswered, or still awaited.
UnderWay(id) ==
  \/ \E msg \in mediationNet : msg.update # Nothing /\ msg.mediator = mediations[id].mediator
  \/ handling.message # Nothing /\ handling.message.update # Nothing /\ handling.id = id
  \/ \E c \in MediationCallers : awaiting[c].pc = "awaitKeylist" /\ awaiting[c].id = id

\* keylistUpdateAndAwait sends the update and waits for the first event of the record.
KeylistUpdateAndAwait(c, id, update, key) ==
  /\ UNCHANGED <<mediations, served, handling, raced>>
  /\ mediations[id] # Nothing /\ mediations[id].state = "granted"
  /\ mediationNet' = mediationNet \cup {KeylistUpdateMessage(mediations[id].mediator, update)}
  /\ Continues(c, [NoCall EXCEPT !.pc = "awaitKeylist", !.id = id, !.key = key])
  /\ shared' = IF UnderWay(id)
               THEN shared \cup {update.key}
                           \cup ({awaiting[d].key : d \in EndedBy(id)} \ {Nothing})
               ELSE shared

\* A key that the wallet has just made.
FreshKey(key) ==
  /\ key \notin handed
  /\ \A c \in MediationCallers : awaiting[c].key # key
  /\ \A msg \in mediationNet \cup ({handling.message} \ {Nothing}) :
       msg.update # Nothing => msg.update.key # key
  /\ \A id \in MediationIds : /\ served[id] # Nothing => ~Contains(served[id].keys, key)
                              /\ mediations[id] # Nothing => ~Contains(mediations[id].keys, key)

\* getRouting with the mediator that is named, or with the default mediator: with
\* several defaults the query throws.
GetRouting(c, id, named) ==
  /\ Starts(c)
  /\ ~named => Defaults = {id}
  /\ \E key \in RoutingKeys :
       /\ FreshKey(key)
       /\ KeylistUpdateAndAwait(c, id, [action |-> "add", key |-> key], key)
  /\ UNCHANGED handed

RemoveRouting(c, id, key) ==
  /\ Starts(c)
  /\ key \in handed /\ handed' = handed \ {key}
  /\ KeylistUpdateAndAwait(c, id, [action |-> "remove", key |-> key], Nothing)

\* Mutant: the mediator answers before the update, and the update fails.
ReceiveKeylistUpdate_NotSaved(msg) ==
  /\ msg \in mediationNet /\ msg.type = "keylist-update"
  /\ \E id \in MediationIds :
       /\ ServedWith(msg.mediator, id) /\ served[id].state = "granted"
  /\ mediationNet' = (mediationNet \ {msg})
                     \cup {KeylistUpdateResponse(msg.mediator, msg.update)}
  /\ UNCHANGED <<mediations, served, awaiting, handling, handed, shared, raced, made>>

ReceiveKeylistUpdate(msg) ==
  /\ msg \in mediationNet /\ msg.type = "keylist-update"
  /\ \E id \in MediationIds :
       /\ ServedWith(msg.mediator, id) /\ served[id].state = "granted"
       /\ served' = [served EXCEPT ![id].keys = ApplyUpdate(@, msg.update)]
  /\ mediationNet' = (mediationNet \ {msg})
                     \cup {KeylistUpdateResponse(msg.mediator, msg.update)}
  /\ UNCHANGED <<mediations, awaiting, handling, handed, shared, raced, made>>

\* notifyKeylistUpdate sends an update by hand and waits for nothing.
NotifyKeylistUpdate(c, id, key, action) ==
  /\ Starts(c) /\ key \in handed
  /\ mediations[id] # Nothing
  /\ mediationNet' = mediationNet \cup {KeylistUpdateMessage(mediations[id].mediator,
                                          [action |-> action, key |-> key])}
  /\ shared' = IF UnderWay(id)
               THEN shared \cup {key} \cup ({awaiting[d].key : d \in EndedBy(id)} \ {Nothing})
               ELSE shared
  /\ handed' = IF action = "remove" THEN handed \ {key} ELSE handed
  /\ UNCHANGED <<mediations, served, awaiting, handling, raced>>

\* The wait of a call ends with an error; the answer may still come.
Timeout(c) ==
  /\ awaiting[c].pc \in {"awaitGrant", "awaitKeylist"}
  /\ Continues(c, NoCall)
  /\ UNCHANGED <<mediations, served, mediationNet, handling, handed, shared, raced, made>>

-------------------------------------------------------------------------------
(* The default mediator and its pickup strategy *)

\* setDefaultMediator takes the record that the application has: as it is stored now,
\* or as requestMediation returned it.
SetDefaultMediator(c, id, copy) ==
  /\ Starts(c) /\ id \in Saved
  /\ copy \in {mediations[id], [mediations[id] EXCEPT !.state = "requested", !.keys = <<>>,
                                                      !.default = FALSE]}
  /\ Continues(c, [NoCall EXCEPT !.pc = "clearDefaults", !.id = id, !.copy = copy,
                   !.defaults = [i \in MediationIds |->
                                   IF i \in Defaults THEN mediations[i] ELSE Nothing]])
  /\ UNCHANGED <<mediations, served, mediationNet, handling, handed, shared, raced>>

\* Mutant: the record that was the default keeps the tag.
ClearOneDefault_Kept(c, id) ==
  /\ awaiting[c].pc = "clearDefaults" /\ awaiting[c].defaults[id] # Nothing
  /\ Write(id, awaiting[c].defaults[id], awaiting[c].defaults[id])
  /\ Continues(c, [awaiting[c] EXCEPT !.defaults[id] = Nothing])
  /\ UNCHANGED <<served, mediationNet, handling, handed, shared, made>>

\* The copies found at the start are written back without the tag, one by one.
ClearOneDefault(c, id) ==
  /\ awaiting[c].pc = "clearDefaults" /\ awaiting[c].defaults[id] # Nothing
  /\ Write(id, awaiting[c].defaults[id], [awaiting[c].defaults[id] EXCEPT !.default = FALSE])
  /\ Continues(c, [awaiting[c] EXCEPT !.defaults[id] = Nothing])
  /\ UNCHANGED <<served, mediationNet, handling, handed, shared, made>>

\* A copy that differs in the tag alone is not stale.  Another call that is still
\* clearing has not found this default and will set its own.
WriteDefault(c) ==
  LET call == awaiting[c]
      new  == [call.copy EXCEPT !.default = TRUE]
  IN
  /\ call.pc = "clearDefaults" /\ call.defaults = NoDefaults
  /\ mediations' = [mediations EXCEPT ![call.id] = new]
  /\ raced' = raced
       \cup {r \in {"lost update"} : [mediations[call.id] EXCEPT !.default = TRUE] # new}
       \cup {r \in {"two setters"} : \E d \in MediationCallers \ {c} :
                                        awaiting[d].pc = "clearDefaults"}
  /\ Continues(c, NoCall)
  /\ UNCHANGED <<served, mediationNet, handling, handed, shared, made>>

\* clearDefaultMediator reads and writes the one default record.
ClearDefaultMediator(c) ==
  /\ Starts(c)
  /\ \E id \in Saved : /\ Defaults = {id}
                       /\ Write(id, mediations[id], [mediations[id] EXCEPT !.default = FALSE])
  /\ UNCHANGED <<served, mediationNet, awaiting, handling, handed, shared>>

\* getPickupStrategyForMediator asks the mediator what it supports and stores the
\* answer in the record as it was before the question.
DiscoverStrategy(c, id) ==
  /\ Starts(c) /\ id \in Saved /\ mediations[id].strategy = Nothing
  /\ Continues(c, [NoCall EXCEPT !.pc = "saveStrategy", !.id = id, !.copy = mediations[id]])
  /\ UNCHANGED <<mediations, served, mediationNet, handling, handed, shared, raced>>

SaveStrategy(c) ==
  /\ awaiting[c].pc = "saveStrategy"
  /\ Write(awaiting[c].id, awaiting[c].copy, [awaiting[c].copy EXCEPT !.strategy = "discovered"])
  /\ Continues(c, NoCall)
  /\ UNCHANGED <<served, mediationNet, handling, handed, shared, made>>

-------------------------------------------------------------------------------
MediationInit ==
  /\ mediations = [id \in MediationIds |-> Nothing]
  /\ served = [id \in MediationIds |-> Nothing]
  /\ mediationNet = {}
  /\ awaiting = [c \in MediationCallers |-> NoCall]
  /\ handling = NotHandling
  /\ handed = {} /\ shared = {} /\ raced = {}
  /\ made = 0

MediationCallNext ==
  \E c \in MediationCallers :
    \/ \E m \in Mediators : RequestMediation(c, m) \/ RequestAndAwaitGrant(c, m) \/ Provision(c, m)
    \/ \E id \in MediationIds :
         \/ \E named \in BOOLEAN : GetRouting(c, id, named)
         \/ \E key \in RoutingKeys :
              \/ RemoveRouting(c, id, key)
              \/ \E action \in KeylistActions : NotifyKeylistUpdate(c, id, key, action)
         \/ mediations[id] # Nothing /\ \E copy \in {mediations[id],
                [mediations[id] EXCEPT !.state = "requested", !.keys = <<>>, !.default = FALSE]} :
              SetDefaultMediator(c, id, copy)
         \/ ClearOneDefault(c, id)
         \/ DiscoverStrategy(c, id)
    \/ WriteDefault(c) \/ ClearDefaultMediator(c) \/ SaveStrategy(c) \/ Timeout(c)

MediationNext ==
  \/ MediationCallNext
  \/ \E msg \in mediationNet :
       \/ ReceiveRequest(msg) \/ ReceiveKeylistUpdate(msg)
       \/ ProcessMediationGrant(msg) \/ ProcessMediationDeny(msg)
       \/ ProcessKeylistUpdateResults(msg)
  \/ \E id \in MediationIds : GrantMediation(id) \/ DenyMediation(id)
  \/ WriteState \/ WriteKeylist

MediationSpec == MediationInit /\ [][MediationNext]_mediationVars

-------------------------------------------------------------------------------
(* Properties *)

\* The records, the messages and the copies that calls and handlers hold have their types.
MediationTypeOK ==
  /\ mediations \in [MediationIds -> RecipientRecordType \cup {Nothing}]
  /\ served \in [MediationIds -> MediatorRecordType \cup {Nothing}]
  /\ mediationNet \subseteq MediationMessageType
  /\ awaiting \in [MediationCallers -> CallType]
  /\ handling \in [message : MediationMessageType \cup {Nothing}, id : MediationIds \cup {Nothing},
                   read : RecipientRecordType \cup {Nothing}]
  /\ handed \subseteq RoutingKeys /\ shared \subseteq RoutingKeys
  /\ raced \subseteq {"lost update", "two setters"}
  /\ made \in 0 .. MaxMediationCalls

\* A mediator routes every key in a routing that was handed out, unless the key was
\* withdrawn or its update ran together with another one: keylistUpdateAndAwait takes
\* any keylist event of the record for its answer.
HandedKeysAreRouted ==
  \A key \in handed \ shared :
    \E id \in MediationIds : served[id] # Nothing /\ Contains(served[id].keys, key)

\* The recipient regards mediation as granted only where the mediator does.
GrantIsMutual ==
  \A id \in Saved : mediations[id].state = "granted" =>
    served[id] # Nothing /\ served[id].state = "granted"

\* At most one mediator is the default (with two, every getRouting throws), unless two
\* calls set it at once or a record was overwritten with a stale copy.
OneDefault == Cardinality(Defaults) <= 1 \/ raced # {}
================================================================================
