# Aries Framework JavaScript: a TLA+ model

This directory holds a formal model of the core package of Aries Framework
JavaScript (version 0.4.0, the TypeScript under `src/src`). An *agent* of the
framework owns a wallet in which it stores records, exchanges encrypted
messages with other agents, and runs protocols over them: making connections,
issuing credentials, presenting proofs, being reached through a mediator. Every
operation is an `async` function; storage and the network are `await`ed in the
middle of it. What is hard is therefore what happens *between* two awaits: another
handler, another application call, a message that arrives twice, a process that
stops.

The model grows from the part everything else rests on, the **handshake**: from an
out-of-band invitation to a connection that both ends can use. On such a connection
run the **exchanges**: a credential that is proposed, offered, requested and issued,
and a proof that is proposed, requested, presented and verified. Below both is the
**routing** of messages: a mediator that receives for an agent without an endpoint, the
queue it keeps, and the agent's own way from an envelope to a handler and from its answer
to a session, a service or a queue. And the **services** an agent is made of: its
start and its end, the migration of its storage, its caches, its DIDs, and the
credentials it signs and verifies.

## 1. Inventory of the system

| Component | State it keeps | Operations | Talks to |
|---|---|---|---|
| Out-of-band (`modules/oob`) | `OutOfBandRecord`: role, state, reusable, reuse connection | create, receive, accept an invitation; handshake reuse | connections (starts a handshake), event bus (waits for reuse) |
| DID exchange (`modules/connections/DidExchange*`) | `ConnectionRecord` state, role, DIDs, thread | create/process request, response, complete | out-of-band records, DID records |
| Connection protocol (`modules/connections/services`) | the same records | create/process request, response; trust ping; problem report | the same |
| Message pipeline (`agent/`) | event queue, handler registry, transport sessions | receive, unpack, find the connection, dispatch, send | every protocol |
| Storage (`storage/`) | records by id and tags, DidComm messages, queued messages | save, update, find, find single | everything |
| Storage updates (`storage/migration`) | version record, backup | update in steps, restore | wallet, storage |
| Mediation (`modules/routing`) | `MediationRecord`: state, role, routing keys, recipient keys | request, grant, deny, keylist update, forward | connections, pickup |
| Message pickup (`modules/message-p?ckup`) | queue of messages per connection | batch, status, deliver, acknowledge | mediation, storage |
| Credential exchange (`modules/credentials`) | `CredentialExchangeRecord` state | propose, offer, request, issue, acknowledge, decline, report | connections, formats |
| Proof exchange (`modules/proofs`) | `ProofExchangeRecord` state | propose, request, present, acknowledge, decline, report | connections, formats |
| DIDs (`modules/dids`) | DID records, keys in the wallet | create, import, resolve | wallet, storage |
| DID documents (`modules/dids/domain`, `methods/peer`, `methods/key`) | none: documents are values | dereference, key of a method, encode and decode DIDs | |
| W3C credentials (`modules/vc/jwt-vc`) | none: JWTs are values | sign, verify credentials and presentations | DIDs, wallet |
| Caches (`modules/cache`) | LRU map with expiry, in memory or in a record | get, set, remove | storage |
| Transports (`transport/`) | socket table | send, receive, stop | message pipeline |
| Agent, contexts, plugins (`agent/`) | initialised flag, subscription to messages, what runs | construct, initialise, shut down | wallet, storage updates, modules, transports |

The remaining parts (crypto, wallet interface, decorators, utilities, basic messages,
generic records, feature discovery) transform data or write one record per operation. `PROJECT.json` lists
every component with its status and its reason.

### What is hard, and what makes each component correct

* **Handshake** (two agents, five messages, three kinds of record, handlers that
  write three or four times with an await between the writes). Correct when both
  ends agree on the DIDs before either relies on them, when a request leads to one
  connection however often it is delivered, when a ready connection is found by the
  keys of its peer's messages, when single-use invitations are used once, and when
  every request is answered if nothing fails.
* **Message pipeline**: a session may close while its message is handled; a message
  is tried over several services; an error must not stop the queue. Correct when a
  reply goes to the sender of its message, an undeliverable message is queued and
  not lost, and every message is handled.
* **Mediation and pickup**: the recipient acknowledges what it has taken from the
  queue; batch pickup removes what it delivers. Correct when a message is removed
  only after it was delivered (v2), when a key is routed only between its add and
  its remove, and when only a granted mediator is used.
* **Credential and proof exchange**: two state machines that move on messages,
  application calls and automatic acceptance, over records and messages that are saved one
  by one. Correct when states keep their order, when a thread has one exchange at each
  end, when what is answered automatically, issued, stored and verified is what was agreed
  before, however often messages are delivered and wherever the process stops.
* **Storage updates**: migrations that write many records, and several per record, with
  a backup that is made before and imported again when something throws. Correct when the
  wallet as it was is never lost, when the storage version never promises more than the
  migrations have done, and when a record always finds what it refers to, wherever a
  migration stopped and however often it is run again.
* **Caches**: an entry set by one caller while another loads or writes the record.
  Correct when a hit is the value last set and not expired.
* **Agent**: two calls of initialise and shutdown at once, a failure in the middle,
  another try. Correct when an agent that says it is initialised has an open wallet of the
  current version, and everything started.
* **DIDs**: key, document and record are made one after the other, and a DID is resolved
  from what its method encodes or from one of several records. Correct when every DID
  that the agent has stored resolves, and to the keys it was made with.
* **W3C credentials**: a JWT names a key in a document that changes. Correct when what is
  verified was signed by those it speaks of, with keys that are theirs now, and when what
  is signed is read back as it was given, but for the fractions of its dates.

## 2. Modules

```
AgentRecords                 records, messages, tasks, storage queries
 |- OutOfBand                invitations, handshake reuse
 |- DidExchange              DID exchange 1.0        (+ DidExchangeStateMachine)
 |- ConnectionProtocol       connections 1.0, trust ping, problem report
      \  |  /
     Handshake               the composition: API calls, ignored messages, faults
         |
     HandshakeProperties     properties; refinement of HandshakeContract
       /       \
  MCHandshake  HandshakeProofs      TLC instances; types, stored DIDs, proved
                   |
               AgreementProofs      agreement, one connection per request, proved
                   |
               ContractProofs       the refinement of HandshakeContract, proved
                   |
               InvitationProofs     closed invitations, handshake reuse, proved

ExchangeRecords              exchange records, saved messages, wallet, the writes of a task
 |- CredentialExchange       issue-credential 2.0, with the JSON-LD format
 |- ProofExchange            present-proof 2.0
      \  |
     Exchanges               the composition: problem reports, deletion, crashes
         |
     ExchangeProperties      properties
       /       \
  MCExchanges  ExchangeProofs           TLC instances; types, one exchange per thread, proved
                   |
               ExchangeContentProofs    order of states, saved messages, contents, proved

Mediation                    requests, grants, keylists, default mediator
 |- MediationProofs          types, mutual grants, one default, routed keys, pickup, proved
MessagePickup                forwarding, sessions, the queue, pickup v1, v2, implicit
MessagePipeline              receiver, dispatcher, sessions, services, queue
      \  |  /
     MCRouting               TLC instances

DidDocuments                 keys, documents, did:key, did:jwk, did:peer
 |- Dids                     registrars, import, resolvers
 |- W3cCredentials           credentials and presentations as JWTs
Filter                       Array.filter
 |- StorageUpdates           update assistant, all migrations
 |- LruCache                 both caches
AgentLifecycle               constructor, initialize, shutdown
      \  |  /
     MCServices              TLC instances

MessagePipeline, AgentLifecycle, StorageUpdates, W3cCredentials, LruCache
     AgentProofs             answers and their sender, initialize, backups, migrated records,
                             JWTs, caches, proved
```

The components of `MCRouting`, and those of `MCServices`, share no state in these
instances. Either module composes them with a variable `part`, which the initial state
chooses: a behaviour runs one component, and the others stay where they were. One run then
checks several components, each with the constants of its own, and no step of one is
multiplied by the states of another. Where the code of one component uses another, the
user models what it relies on (`AgentLifecycle` has the update of the storage as one step
that works or fails; `MessagePickup` has the sessions of the mediator; `AgentRecords` has
messages in flight where `MessagePipeline` has how they get there).

| Module | Code | How state and actions correspond |
|---|---|---|
| `AgentRecords` | repositories of `oob`, `connections`, `dids`; `ConnectionService.findByKeys`; `MessageReceiver`; `MessageSender` | `oob`, `conns`, `dids`: the records in each agent's storage. `net`: messages in flight. `tasks`: what each message handler and application call is doing, with the copies of records it read. |
| `DidExchangeStateMachine` | `DidExchangeStateMachine.ts` | the two rule tables and the three lookups in them |
| `DidExchange` | `DidExchangeProtocol.ts`, the three handlers | `Dx...`: one action per write. `DxCreateRequestDid` and `DxSendRequest` are the two halves of `createRequest` on either side of the await in `createPeerDidDoc`, and so on. |
| `ConnectionProtocol` | `ConnectionService.ts`, its handlers | `Cx...`, in the same way |
| `OutOfBand` | `OutOfBandApi.ts`, `OutOfBandService.ts`, the reuse handlers | invitations, `handleHandshakeReuse` with its wait of 15 seconds, the two reuse messages |
| `Handshake` | `ConnectionsApi.ts`, `Dispatcher.ts`, the process | calls by hand, messages that are dropped, faults, fairness |
| `HandshakeContract` | none: an abstract specification | per request, a requester's end and a responder's end that swap DIDs |
| `ExchangeRecords` | both exchange records, `DidCommMessageRepository.ts`, `updateState`, `composeAutoAccept` | `exchanges`: the exchange records of each agent, by id. `stored`: the DIDComm messages saved with each. `wallet`: the credentials held. `net`, `tasks` as in `AgentRecords`. The writes every handler and call is made of: save the message received, update the record, save the answer, update the record, send. |
| `CredentialExchange` | `V2CredentialProtocol.ts`, its handlers, `CredentialFormatCoordinator.ts`, `CredentialsApi.ts`, `JsonLdCredentialFormatService.ts` | `Receive...`: `process...` up to its first write; `DecideCredential`: `shouldAutoRespondTo...` and the handler's answer; one action per call of the API |
| `ProofExchange` | `V2ProofProtocol.ts`, its handlers, `ProofFormatCoordinator.ts`, `ProofsApi.ts` | the same |
| `Exchanges` | `BaseCredentialProtocol.ts`, `BaseProofProtocol.ts`, the process | problem reports, `delete`, crashes |
| `Mediation` | `MediationRecipientApi.ts`, `MediationRecipientService.ts`, `MediatorService.ts`, `RoutingService.ts` | `mediations`, `served`: the records of the recipient and of the mediators, by request. `awaiting`: the recipient's calls, with the copies they hold. A handler is two steps (`Reads`, then `WriteState` or `WriteKeylist`), as the code awaits in between. |
| `MessagePickup` | `ForwardHandler.ts`, the pickup protocols, `MessageSender.ts`, `InMemoryMessageRepository.ts`, `WsOutboundTransport.ts`, `MediationRecipientApi.ts` | `queue`, `sessions` at the mediator, `table` and `inbox` at the recipient, `sockets` with what is in flight each way. One action per message handled; `Drop`, `OnClose`, `Reconnect` for the WebSocket. |
| `MessagePipeline` | `MessageReceiver.ts`, `Dispatcher.ts`, `TransportService.ts`, `MessageSender.ts` | `progress`: how far the agent is with each message; `sessionTable`, `channels`; `carriers`: what took each answer, and for whom |
| `StorageUpdates` | `UpdateAssistant.ts`, `StorageUpdateService.ts`, every script under `migration/updates` | `wallet`, `backups`; `work`: the stage of the update that runs, the updates it still has to do (`updates`), how many migrations of the first of them were started (`done`), the current `migration`, the records it has read and not come to (`todo`), the writes left for the current one (`writes`). One action per write. |
| `Filter` | `Array.prototype.filter`, as the migrations and the map of the cache use it | an operator |
| `LruCache` | `InMemoryLruCache.ts`, `SingleContextStorageLruCache.ts` | `lruMaps`, `cacheRecord`; a step ends where a call awaits the storage. Time is a flag of an entry that says it has expired. |
| `AgentLifecycle` | `BaseAgent.ts`, `Agent.ts`, `WalletApi.ts`, `AgentModules.ts` | `agentCalls`: how far each call of `initialize` or `shutdown` is; `running`: what it has started |
| `DidDocuments` | `DidDocument.ts`, key types, `peerDidNumAlgo0..2.ts`, `DidKey.ts`, `DidJwk.ts` | operators only: a DID is its method and what it encodes, a method id is a DID and a fragment |
| `Dids` | `DidsApi.ts`, the registrars and resolvers, `DidRepository.ts` | `didRecords`, `walletKeys`; `didCalls`: creation in its steps (key, record), import in its own |
| `W3cCredentials` | `W3cJwtCredentialService.ts`, `credentialTransformer.ts`, `presentationTransformer.ts`, `JwtPayload.ts`, `JwsService.ts` | operators for the conversion to claims and back and for verification; `jwts`: what was signed or received, with what it was made of; `didDocuments` and `now` change |

### Reading the actions

A task (an inbound message being handled, or an application's call) is a record
with a program counter named for the *next write*. One action is one write to
storage together with the computation in front of it, and a send that directly
follows a write is part of that action. A message is taken from `net` by the action
`...Receive...`, which stands for the whole read-only front of a handler: unpacking,
the connection lookup, every guard of the handler. The guards of the code are
conjuncts (`DxRequestAcceptable`, `CxResponseAcceptable`, ...); a message whose
handler throws, or which needs no write, is `IgnoreMessage`, with the negation of
the same guards, so nothing waits for a guard to become true.

`t \in Handlers` separates the two callers that several steps have (a handler
accepting automatically and an application accepting by hand) where the code
differs: `DxCreateComplete` sends at once for an application, but the handler closes
its out-of-band record first.

Values are abstract: a key is named by its agent and its use, a peer DID by
the key in it and, for DID exchange, a number (its DID document has random key ids;
the connection protocol's has not, so equal keys give equal DIDs). A thread is named
by the connection that opened it.

In the exchanges every handler and call is made of the same few writes, so the modules
of the protocols only say what a task does up to its first write (`Receive...`, the calls)
and whether and what it answers (`Decide...`); `ExchangeRecords` has the rest. A
message that a handler refuses is one that no action takes; it stays in `net`, where it
is as good as lost. Which content a proposal, offer or request carries is all the model
knows of it: the formats copy the attachment of the message that is answered (JSON-LD:
`acceptProposal`, `acceptOffer`, `acceptRequest`), negotiation replaces it.

## 3. Properties and runs

| Property | Says | Where the code could break it |
|---|---|---|
| `TypeOK` | types of all records | rule tables |
| `ImplementsContract` | the connection records of both ends move as `HandshakeContract` allows: one answer per request, DIDs swapped before either end is complete, the responder completes last, abandoned is final | replayed messages, crashes between writes |
| `Agreement` | when the requester has the response, the inviter has a connection with the same thread and the mirrored DIDs, and has answered | concurrent handlers, repeated acceptance |
| `DidsStored` | each DID of a connection record has its DID record | order of the writes, crashes |
| `OneConnectionPerRequest` | a thread has one responder connection | duplicated requests |
| `ReadyConnectionsAreFound` | `findByKeys` finds exactly the ready connection for its peer's messages and does not throw | duplicate DID records, shared keys |
| `UsedInvitationIsClosed`, `ClosedInvitationWasUsed` | a single-use invitation is closed when, and only when, it was used | early close, forgotten close, reuse |
| `SingleUseInvitation` | one connection per single-use invitation | overlapping handshakes |
| `ReuseAgreement` | an invitee that closed an invitation without a new connection reuses one that the inviter holds ready, and a single-use invitation is closed at the inviter | the timeout against the answer |
| `RequestsAreAnswered` | a sent request leads to a connection completed at both ends | a handler that drops a valid message |
| `StatesFollowProtocol` | the state of an exchange only moves as RFC 0453 and RFC 0454 say | late and repeated messages, writes of stale copies |
| `OneExchangePerThread` | one exchange per thread and agent | duplicated first messages, deletion |
| `OneMessagePerKind` | one saved message of each kind per exchange, or every lookup throws | crashes between two writes, repeated messages |
| `AutomaticAnswersAreApproved` | with `contentApproved`, what is sent without the application has the content agreed before, up to the moment it is sent | the check rests on reads some writes earlier |
| `IssuedIsHeld` | an issuer whose exchange is done has issued a credential that the holder holds | acknowledgement before the wallet's write |
| `HeldAsRequested` | what an exchange has put in the wallet is what it requested | a thread that is started anew after deletion |
| `VerifiedAnswersRequest` | a presentation called valid answers the request that is saved | negotiation while a presentation is under way |
| `OfferedExchangeIsUsed` | the request that answers an offer belongs to the exchange the offer was made in | offers without a connection |
| `HandedKeysAreRouted` | a mediator routes every key in a routing that was handed out | an answer that is taken for the answer to another update |
| `GrantIsMutual` | the recipient regards mediation as granted only where the mediator does | a grant is matched by connection; stale copies are written back |
| `OneDefault` | at most one mediator is the default | the tag is cleared and set in several writes |
| `NothingIsLost` | a message that the mediator accepted is in its queue, on its way or handled | what takes messages from the queue, and when; sessions that fail |
| `EventuallyReceived` | and it is handled in the end, though the WebSocket drops | a reconnection that does not start a round of pickup |
| `SentIsCarried` | where the sender reports success, something has taken the message | errors of a session or a service that are swallowed |
| `AnswersReachTheirSender` | an answer is packed for the party whose message it answers | the choice of a session, and of the keys it holds |
| `OriginalIsKept` | the wallet as it was before an update that has not completed is there, or in a backup file | a restoration that fails half way, a crash |
| `VersionMatchesData` | the storage version never says more than the migrations have done | the order of migrations and version; restored and half migrated wallets |
| `MigratedRecordsAreWhole` | at every write of every migration, connections find their DIDs and invitation and keep their types, exchanges have their messages, multi-use invitations stay open | the order of the writes of a migration, and its second run |
| `HitsAreCurrent` | a hit is the value that was set last, and has not expired | two maps, a record that lags behind, removal, expiry, restarts |
| `InitializedAgentIsReady` | an agent that says it is initialised has a wallet of the current version and everything started, and listens | a second try after a failure, a flag set too early |
| `StoredDidsResolve` | every stored DID resolves, and only to documents with the keys it was given for it; a record is found by its recipient keys | a record saved with something else than its DID encodes; overwritten records |
| `VerifiedIsSigned` | a valid credential is signed with a key of its issuer now and is in its time; a valid presentation with a key its holder controls, for its challenge, with credentials about that holder; of a presentation with a key in its header only what it names and contains is known (section 4) | which key is looked up, and what it is compared with |
| `SignedCredentialsVerify` | a credential signed here is read back as it was given, with its dates cut to the second, and verifies exactly as long as its method has the key, is the issuer's, and its time is not over | claims that are moved and not put back, conversions of dates, clocks |

Some of these hold except where the code is known not to keep them. The exceptions are part
of the state, so that a reader sees how narrow they are, and each has an entry under
*Behaviours* in section 4:

* `shared` (`HandedKeysAreRouted`): keys whose update ran together with another one of
  the same mediator. `raced` (`OneDefault`): two calls set the default at once, or a record
  was overwritten with a copy that had gone stale.
* `lost` (`NothingIsLost`): messages that a WebSocket had taken when it dropped, which
  no part of the code can know of. `mishaps`: two rounds of pickup overlapped, or a message was
  handled when its own socket had closed.
* `overwritten` (`AnswersReachTheirSender`): another party's message replaced the keys
  of a session while an answer was due on it.
* `disturbed` (`HitsAreCurrent`): two calls met while they loaded or wrote the record, or
  the process ended under one. A hit has not expired even then.
* `undisturbed` (`InitializedAgentIsReady`): calls of `initialize` and `shutdown`
  overlapped or a shutdown failed. The wallet is of the current version even then.
* `TypesAreKept` (in `MigratedRecordsAreWhole`): the types of a connection may be lost where an
  update runs on a wallet in which an earlier one had moved them; the backup of the later one shows it.
* `Signatories` (in `VerifiedIsSigned`): who is known to have signed a presentation, which depends on
  what its header has.

| Run | Instance | Shows |
|---|---|---|
| `did_exchange_faults` | alice invites bob and carol with one multi-use invitation; duplication, crashes, closed sessions | contract, stored DIDs, one connection per request survive every interleaving of faults |
| `connections_faults` | alice and bob, connection protocol; loss, duplication, crashes, closed sessions, problem reports at any moment | the same contract for the other protocol |
| `single_use` | bob answers a single-use invitation of each protocol at once; loss, duplication, closed sessions | invitations are closed exactly when used; ready connections are found |
| `reuse_by_hand` | every step accepted by hand; a second, single-use invitation with the same key is answered by reuse, or by a new connection when the answer is late | reuse leaves both agents with the same view |
| `concurrent_handlers` | two handlers per agent, one invitation of each protocol, the first accepted repeatedly; no faults; fairness | agreement and liveness |
| `single_use_two_invitees` | bob and carol get one single-use invitation | **violated**: see findings |
| `crash_in_response` | a crash while the response is handled, and a second delivery | **violated**: see findings |
| `exchange_faults` | one exchange of either protocol with two contents, every call of the API but deletion, problem reports from the holder, automatic acceptance of approved content; duplication, crashes | the exchange keeps its order and its content under every interleaving of a handler, a call and faults |
| `deleted_exchanges` | the holder deletes its exchange at any moment; the issuer answers everything | an exchange that messages make anew does not mix with the one before |
| `oob_offer` | an offer without a connection, answered over one | **violated**: see findings |
| `routing` | one of three parts: a recipient with two mediators and two calls at once; two messages forwarded to an agent behind a WebSocket that drops, with each pickup strategy; two messages of eight kinds over two sessions that close | keys, grants and defaults stay consistent under concurrent calls; no message is lost between forwarding and handling; every answer is carried, for its sender |
| `services` | one of five parts: wallets of versions 0.1, 0.2 and 0.3.1 that are updated to any version, with failures and a crash; two callers of either cache with a restart; two callers of an agent with failures and a crash; two callers that create and import DIDs; credentials and presentations of two signers while time passes and a document changes | the services keep their promises when steps fail, calls overlap and the process ends between two writes |

Each property of a passing run has a mutant in `PROJECT.json`: a plausible bug in one
definition (a dropped state check, a forgotten close, a DID that is not saved) under
which TLC finds the property violated. The mutated forms stand in the modules beside
the definitions they change, marked `Mutant:`, and nothing else uses them.

### Bounds

* Two or three agents: alice creates the invitations; the third agent is there where
  two invitees can interfere at the inviter.
* `ConnIds = 1..2`: two connections per agent, the least with which a second one can
  collide with a first. It bounds new connections (`FreshConnId`); a task that would
  create a third stays where it is.
* One or two invitations, one application call at a time (`Callers`), one message
  handler (`concatMap` in `Agent.ts`) or two (transports that call `MessageReceiver`
  directly).
* `AcceptAgain`: the invitations that applications accept more than once.
* `Faults` names the faults that may happen in a run. There is no counter on them: a
  crash or a repeated delivery may happen in every state. `net` is a set, so a message
  that is lost is one that is never handled; the separate fault `loss` matters only
  with fairness or deadlock in mind and is kept to the small runs.
* Deadlock is not checked: a system whose handshakes are over rests.
* Exchanges: an authority (issuer and verifier) and a holder, one handler and one call at a
  time at each, one thread per behaviour (`MaxThreads`): exchanges on different threads
  share nothing but the wallet. Two contents, the least that can differ; they are
  interchangeable, so `SYMMETRY` is sound. One record per agent in `exchange_faults`, two
  in the others, where a second one can come up. `MaxCredentials = 2`: a credential that is
  stored a second time after a crash; a handler that would store a third stays where it is.
* `ByHand`: an application answers an exchange by hand when no handler is at work on it.
  `saveOrUpdateAgentMessage` finds and saves in two steps, and a handler and a call that
  answer one exchange at once can save two messages of one kind; applications are told of
  an exchange by the event that the handler's last write emits. Deletions and
  problem reports are not restricted. In `exchange_faults` it is the holder who sends problem reports (reports from
  both ends more than triple the states): what they abandon is the exchange of the authority, whose state says
  something about the holder's. The theorems of section 5 cover reports from both.
* Routing. Two mediation records are the least with which a mediator can be replaced as the
  default, and a grant could be matched to the wrong request; with three calls and two at a
  time a call is overtaken by a call, a handler or a late answer. Two keys: the update of one
  can be taken for that of the other. Two forwarded messages and `MaxBatch = 1`: a queue is
  longer than a batch, so that a confirmation that counts wrong takes the other message.
  `MaxDrops = 1`: a socket closes at any moment; `Sockets` has room for the sockets
  that are opened after it. Two inbound messages over two sessions: they may share one. The
  second session matters when the first closes. The kinds of messages in `ArrivingKinds` take
  every way through receiver, dispatcher and sender; `alice` has a service the agent
  has a transport for and one it has not, `bob` only a queue.
* Services. Each old wallet has one record of every kind its migrations touch, and two
  connections where the migration of one can find what that of the other made (the
  invitation). `MaxUpdates = 2` and one crash: an update that stopped anywhere is run again.
  Cache: a limit of 1 or 2 with two keys, so that entries are evicted and a restart may lower
  it; three calls, so that two meet while a third changes the map. `CacheSymmetry`
  is sound: the four sets are of values that the module only compares for equality, and no
  other part has any of them. Agent: four calls let `initialize` fail, be tried again, and be
  shut down. DIDs: three calls, two at a time; `DidCreations` has each method with a
  document that has references, embedded methods, relative ids and services of both kinds,
  one that cannot be encoded, and one that is inconsistent; `DidImports` has documents that
  contradict their DID. W3C: one credential and one presentation of it, each signed here or received:
  those of other software have a relative id, a key or neither in the header, are signed with a method for
  either purpose, and a presentation names any holder or none. Times from 0 to 4 with a skew of 1
  reach both ends of every validity, and the issuer's document has three forms: the same id with
  another key, and several keys of one type with a method that the holder controls. A date is
  the second it falls in and how it is written, not before 1970: as `w3cDate` writes it, otherwise (an
  offset, zeros after the seconds), with a fraction, or as a leap second, which
  `IsRFC3339` accepts and `Date.parse` does not; `GivenCredentials` has each, in second 0 as well.
* `AutoOptions = {None}`: applications leave automatic acceptance to the agent's setting. The
  option is in the model, and its composition is the same operator for both.

### Fairness

`FairSpec` states weak fairness for the next step of every task that is under way and
for handling some message at each agent. The event loop resumes every task whose
promise has settled; `concatMap` takes the next message when the previous handler has
returned, and `MessageReceiver`'s errors are caught in the subscription, so no error
stops it. Nothing is assumed of applications: they need not accept, and no fairness is
assumed of faults or of a message being delivered again. `RequestsAreAnswered` is
checked without faults because the framework does not retry.

`PickupFairness` is weak fairness for the mediator's handling of what has arrived, the
arrival of what is in flight, the report that a socket has closed, the recipient's handling of
its events, the start (or poll) of pickup and the timer of a reconnection: a process that
runs, a network that delivers or closes, and timers that fire. No socket need drop and no message
need be forwarded. Each is one weak fairness condition for what one event loop or one
socket does next. That suffices since sockets drop `MaxDrops` times. `EventuallyReceived`
speaks of pickup v2 only: v1 polls as long as `MaxPolls` allows, and implicit pickup
leaves what was queued while the socket was closed where it is.

## 4. Findings

* **A single-use invitation can be used twice** (`single_use_two_invitees`).
  `DidExchangeRequestHandler.ts:63` means to refuse a second request ("Connection
  record for non-reusable out-of-band ... already exists"), but what it looks up is a
  *ready connection with the keys of the new message*, and the record is set to `done`
  only by `dx-complete`. A request from a second invitee, or a second acceptance,
  that arrives before that gets a connection too.
* **A crash in `processResponse` can make a connection unreachable**
  (`crash_in_response`). The DID record is saved before the connection
  is updated. If the process stops in between and the response arrives again, a second
  DID record for the same key is stored, and `findReceivedDidByRecipientKey` throws
  `RecordDuplicateError` for every message of that connection from then on.
* **The exchange of an offer without a connection is not used** (`oob_offer`). `createOffer`
  is there for out-of-band invitations; when the invitation also makes a connection, the
  request arrives over it, and `V2CredentialProtocol.ts:590` looks for an exchange with that
  thread *and that connection*. The one of the offer has none, so a second one is made
  and the first stays in `offer-sent`, with the `autoAcceptCredential` it was given.

Behaviours found on the way that no text of the repository contradicts, kept here
for whoever changes this code:

* Two concurrent `acceptRequest` calls both answer; the requester keeps the first DID
  and the inviter's record holds the second, so `Agreement` fails with two callers.
* `updateState` writes the whole record: a problem report that is handled while an
  application's call on the same connection is in progress is overwritten.
* With concurrent handlers *and* a message delivered twice, two connections are made
  for one request.
* Accepting a single-use invitation twice gives the inviter two connections with the
  invitation's key; `findByKeys` then throws for both.
* `sendPing` on a DID exchange connection in `response-received` completes both ends
  without `dx-complete`, which leaves the single-use invitation open.
* `processProblemReport` abandons an exchange whatever its state, also when it is done; and a
  call or handler that read the record before writes its own state over `abandoned`.
* `delete` of a credential exchange that has received a JSON-LD credential removes the record
  and then throws, because the format cannot delete credentials: the saved messages stay.
* A crash after a received credential was put in the wallet, and the credential again:
  the wallet holds it twice, the exchange refers to the second.
* With `contentApproved`, a proposal that repeats a JSON-LD offer is never answered: the offer
  carries a blank preview, the proposal none, and one without the other counts as a
  difference.
* With `always` a verifier acknowledges a presentation that it has found invalid.
* `V2ProofProtocol.processRequest` looks for an earlier `V2ProposeCredentialMessage`, a message
  of the other protocol, as the message it has sent; it finds none.
* When handshake reuse times out, the answer may still close the invitation although a
  new connection is being made from it.

Routing:

* `messages-received` removes as many messages as it confirms, from the head of the queue
  (`V2MessagePickupProtocol.ts:157`): messages have no ids there. When rounds of pickup
  overlap, after a reconnection, it removes messages that were never delivered.
* A session is saved again by a message that is handled after its socket has closed
  (`MessageReceiver.ts:153`), and then stands in front of the live one
  (`TransportService.ts:19`); messages go to the queue although the recipient is connected.
* A late `onclose` of an old WebSocket removes the entry of its successor
  (`WsOutboundTransport.ts:159`).
* What was delivered is confirmed before it is handled: a crash of the recipient in between loses it.
* Every message over a session replaces the keys in it, also while an answer to another party
  is due on it.
* `sendPackage` returns as though it had sent the package when the agent has no transport for the
  scheme of the service (`MessageSender.ts:152`).
* `keylistUpdateAndAwait` takes the first keylist event of the mediation record for its answer
  (`MediationRecipientService.ts:186`), whichever update it answers.
* `setDefaultMediator` and `getPickupStrategyForMediator` write records as they were before an
  await; a grant or a keylist that came in between is overwritten.
* A second mediation request to one mediator makes a second record, and `getByConnectionId` throws from
  then on.

Storage, caches, agent:

* The migration of DID records from 0.3 to 0.3.1 cannot be run again after a crash part way:
  the tags of a record that already has a uuid for an id cannot be computed
  (`updates/0.3-0.3.1/did.ts:27`). The update fails and the backup of that second try is
  restored, half migrated as it is; the first backup file still has the original.
* `moveDidCommMessages` saves the messages of an exchange a second time when it is run again.
* The types of a connection are lost when the migration from 0.2 to 0.3 runs again after a crash
  (`updates/0.2-0.3/connection.ts:54`): it reads them from the tag that the first run has unset,
  and sets `connectionTypes` to what it read, or to `Mediator` alone. Only the first backup file still has them.
* The wallet is created before its storage version is recorded (`WalletApi.ts:76`): after a crash in
  between a new wallet counts as one of version 0.1, and without automatic updates the agent never
  starts on it.
* A restart of the persistent cache with a lower limit than its record has entries makes its
  first use throw (`SingleContextStorageLruCache.ts:103`); two first uses at once replace
  each other's map, and the record gets the map of one of them.
* After `shutdown` an agent that is initialised again does not listen to messages: the
  subscription ended with `stop$` (`Agent.ts:146`).
* A `shutdown` that overlaps an `initialize` can leave `isInitialized` true with a closed wallet; one
  that fails leaves it true with stopped transports.
* `registerModules` swallows the error of a module's registration (`DependencyManager.ts:43`).

DIDs and credentials:

* The pattern for peer DIDs (`didPeer.ts:3`) has no place for `-` and `_` in the services of a
  did:peer:2, which base64url uses, nor for one without keys: such a DID is created and does
  not resolve.
* A creation from a seed whose record could not be saved cannot be tried again: the key exists.
* Two concurrent imports, or creations from one document, leave two created records of one DID;
  `findCreatedDid` then throws.
* In the resolved document of a did:peer:2 the ids of keys are made from the keys, so
  recipient keys of a service that name other ids are no longer found.
* The signer of a presentation is the `controller` of the method that signed, in whichever
  document says so; `VerifiedIsSigned` states it that way.
* `verifyPresentation` does not look at `signerKeys` (`W3cJwtCredentialService.ts:331`), as
  `verifyCredential` does, and `jwkFromJws` prefers a key in the header to the one that was resolved
  (`JwsService.ts:211`): a presentation with a key in its header and no `kid` is verified with that key,
  whoever has it. The model has such presentations; `VerifiedIsSigned` claims of them only that
  they name a DID which is the holder's, if they have one, and which their credentials are about.
* Without a `kid` the method is looked for under `assertionMethod` (`W3cJwtCredentialService.ts:526`),
  also for a presentation, where the comment at line 464 says "the specified `purpose`", which is
  `authentication`: a presentation without a `kid` is verified with a key its holder has for
  assertions, and refused when it is signed with the one it has for authentication only.
* Dates are cut to the second in the claims (`credentialTransformer.ts:26`, `:33`) and written anew by
  `w3cDate` when they are read (`:154`): a credential dated `new Date().toISOString()` is not read back
  as it was given. A date that is repeated in the credential is compared without being cut
  (`:120`, `:132`), so that one with a fraction is refused.
* An expiration date that `Date.parse` cannot read stays in the credential, and `signCredential` fails
  when it reads it back.
* An issuance date in second 0 cannot be read back, and an expiration date in second 0 is lost.
* `signCredential` signs for an issuer that is not the DID of the method; the verification
  refuses the credential.

## 5. Proofs

`HandshakeProofs` proves, for every value of the constants that satisfies
`ConstantsAssumption` and `InvitedAssumption` (any number of agents, concurrent
handlers and calls, invitations, connection ids; any faults):

* `TypesHold`: `Spec => []TypeInv`, and from it `TypeCorrect`: `Spec => []TypeOK`.
  `TypeOK` is not inductive. A task writes what it has read into records and messages,
  so the invariant must say what its copies hold at each of its steps: `SoundTasks`
  (a table from steps to what they use), `SoundRecords` (a connection record has
  the DIDs that its role and state call for) and `SoundMessages` (a message carries
  what its type calls for). What is proved this way is that no step dereferences
  something missing: no message is sent from or to a DID that a record lacks. There is
  one lemma per action (`DxSendResponseType`, ...), one per conjunct-changing operator
  (`SaveConnectionKeepsType`, ...) and one per module's next-state relation.
* `DidsAreStored`: `Spec => []DidsStored`. DID records are
  never removed (`SavedDidIsStored`), and a DID enters a connection record only after
  the step that stored it; in between it is in the task's copy of the record, or in the
  message the task handles. `StoredInv` says so for records and tasks, and rests on
  `TypesHold`. That every step is of one of four shapes (nothing, a task, a DID and a
  task, a record and a task changes) gives four lemmas that the lemmas of the actions
  cite.

These two need no assumption on the schedule: they hold with any number of concurrent
handlers and calls, where other properties fail (see section 4).

`AgreementProofs` proves, on top of `DidsAreStored`:

* `EndsAgree`: `Spec => []Agreement`, for agents whose application calls do not overlap
  (`CallsDoNotOverlap`: every agent accepts automatically, or there is one caller). Without
  it the property is false: with two callers that accept by hand, TLC finds two
  `acceptRequest` for one connection that answer with two DIDs and store one. Handlers may be
  any number. An end trusts the message it receives, so `AgreementInv` says what a message
  in flight, or in a handler's hands, proves about the records of its sender; a record is
  written by one task alone until its request or response is sent, and the DIDs
  agreed on never change afterwards.
* `RequestsLeadToOneConnection`: `Spec => []OneConnectionPerRequest`, for one handler at a
  time as well (`OneHandler`, the `concatMap` of `Agent.ts`): two handlers of one
  duplicated request find no record before either saves one (`concurrent_handlers` has no
  duplication for that reason).

`ContractProofs` proves that the handshake implements its abstract specification,
`HandshakeImplementsContract`: `Spec => ImplementsContract`, for agents that accept automatically
and handle one message at a time (`Automatic`, as in the runs that check it), under every fault.
Each write of a connection record is shown to be a step of the contract, or to change nothing it
sees. The step that needs most is the completion of the inviter's end: the message
behind it must prove that the invitee's end is complete. The complete message of DID exchange names
the thread; a trust ping names only the key it comes from, so `KeyInv` says that
no two requests share a key, from when `getRouting` makes it. `ContractInv` adds what messages in flight
prove, and that the one handler writes over what it has read.

`InvitationProofs` proves what closes an invitation, and what an invitee that reuses a connection can
rely on, for any number of handlers and under every fault:

* `ClosedInvitationsWereUsed`: `Spec => []ClosedInvitationWasUsed`.
* `UsedInvitationsAreClosed`: `Spec => []UsedInvitationIsClosed`, where the invitees of single-use
  invitations accept automatically (`InviteesAccept`). Without it TLC finds the invitee that
  sends a trust ping by hand before its dx-complete (the constants of `single_use`, `bob` not
  in `AutoAccept`).
* `ReuseIsAgreed`: `Spec => []ReuseAgreement`, where no peer gives up a connection (`NoReports`).
  With problem reports TLC finds the connection that is abandoned at the inviter (the
  constants of `reuse_by_hand` with the fault `peer-report`).

An invitation, the connections made from it and the messages about it belong to two agents, and each
message is read against a record that may have changed since. `InvitationInv` therefore says what a
message in flight, or in a handler's hands, proves about the records of its sender: a response
and a complete message, that the inviter has answered the invitation of the thread; a
handshake-reuse, that the connection it is sent over has both ends; a handshake-reuse-accepted, that the
inviter's record is closed if it is single-use. `Onward` lists what later steps keep of these
records (a lemma for each kind of value says that what is proved stays proved), and
`StepKeepsUsed` reduces a step to what it adds. Reuse messages and trust pings name
their connection by keys only. `OwnKeysInv` extends `KeyInv` of `ContractProofs` to answers: no answer has
the key of a request, though the connection protocol's answers to a single-use
invitation may share the invitation's, so the requester's key is what identifies a
connection (`RequestKeyIsItsOwn`). The three theorems assume `CallsDoNotOverlap` because they rest on
`AgreementInv`; with two callers that accept by hand TLC found no counterexample in the time it was given.

`MediationProofs` proves, for every value of the constants that satisfies
`MediationAssumption` (any number of mediators, requests, keys and concurrent calls):

* `GrantsAreMutual`: `MediationSpec => []GrantIsMutual`. The property is not inductive:
  what is written into a record is a copy that a call or a handler read before, and a grant
  is matched to a record by the connection it came over. `MediationInv` adds that every
  copy `Agrees` with its request (the same mediator, and granted only if the mediator has granted
  it), that a message names a request whose record exists with that mediator, and that a request in
  flight is not served yet. The record that `RecordWith` finds for a grant is then that of the
  grant, because it is the only one with that mediator (`ReadsKeeps`). `Onward` says what all
  steps have in common (records stay, with their mediator; a grant is not taken back), and
  `AgreesStays` that this keeps what copies and messages stand for; one lemma per
  action does the rest.
* `MediationTypesHold`: `MediationSpec => []MediationTypeOK`, from the same invariant.
* `DefaultIsUnique`: `MediationSpec => []OneDefault`. `setDefaultMediator` finds the defaults,
  clears them one by one and then sets the tag of another record. `DefaultInv` says that, as
  long as nothing has `raced`, there is one default at most, and a call that is still clearing
  has it among those it found.
* `HandedKeysStayRouted`: `MediationSpec => []HandedKeysAreRouted`. `RoutedInv` follows a key from
  the call that waits for it through its update, the mediator's handler and the answer: outside `shared`,
  every update under way that could end the wait is the call's own, and once it is
  answered the mediator routes the key. No update withdraws a key that was handed out or is waited for.

and, for every value that satisfies `PickupAssumption` (any messages, any number of polls
and of WebSockets that drop, any batch size and initial strategies):

* `AcceptedMessagesAreKept`: `PickupSpec => []NothingIsLost`. A confirmation takes as many messages
  from the front of the queue as it has ids, whatever these are, so the property rests on what the
  number stands for by then. `RoundInv` says that as long as no two rounds of pickup have
  overlapped, a delivery under way is of what is in front of the queue, and a confirmation is of no more
  messages than the queue has, all of which the recipient has received or has in its inbox.
  Without an overlap a round is one message at a time (`OnlyRound`), so that what takes messages from the front of
  the queue leaves no delivery behind. `PickupStep` reduces every other action to the message it adds. A
  message that cannot be sent is queued again, deliveries and batches included, so messages nest without
  a bound: `PickupTypes` is for any set that holds those there are, and each action adds one to it
  (`OneMore`).

`ExchangeProofs` and `ExchangeContentProofs` prove what the runs check about exchanges, for
every value of the constants that satisfies `ExchangeAssumption`: any number of threads (of
either protocol), contents, record ids and credentials, any setting of automatic acceptance
and any option that an application passes for it (the runs leave the options out), any calls of the API,
duplication and crashes. The actions of both protocols make sixteen kinds of step (a handler opens an exchange, resumes one, a
task saves a message, ...). `StepShapes` proves that every step of `Next` has one of these shapes;
each lemma after it treats one shape for both protocols.

* `ExchangesTyped`: `Spec => []TypeOK`, from `ExchangeTypes` (`ExchangeTypesHold`): what a task is
  going to write is typed from the step at which the task takes it.
* `ThreadsLeadToOneExchange`: `Spec => []OneExchangePerThread`, for `OneHandler` and
  `~WithoutConnection`. `ThreadInv`: an agent has heard of a thread only when the agent that opened it
  has saved its exchange, and what a task is about to add is the first of its thread.
  Both hypotheses are needed: two handlers of one duplicated message each make
  an exchange, and the run `oob_offer` has two exchanges for an offer without a connection.

The others are for `OneHandler` and `OneCaller` (calls that overlap each other are two calls
of one application that does not await the first). A handler and a call may still overlap, with
each other and with deletion. `TurnsInv` is what keeps them apart: an exchange waits
either for its peer or for its own application; a handler takes it up in a state of the first
kind, a call in one of the second, and two tasks never have one exchange to write to.

* `MessagesAreSavedOnce`: `Spec => []OneMessagePerKind`. `SavedInv`: what a task did not
  find is not there when it saves it.
* `ExchangesFollowProtocol`: `Spec => StatesFollowProtocol`, an action property. `StatesInv`: what a
  task is going to write follows the state that the record has by then.
* `VerdictsAreOnRequests`: `Spec => []VerifiedAnswersRequest`, and
  `CredentialsAreAsRequested`: `Spec => []HeldAsRequested`. `ContentInv` carries the comparison of a
  presentation with its request, and of a credential with its request, from the handler's front through
  its writes into the record, and says that no later write to the exchange touches what was
  compared or rests on a copy from before it.
* `AutomaticAnswersWereAgreed`: `Spec => []AutomaticAnswersAreApproved`. `ApprovedInv`: what a
  handler has received is what it has saved, and the messages that its decision rests on
  stay until its answer is sent.
* `IssuedCredentialsAreHeld`: `Spec => []IssuedIsHeld`, where the issuer deletes no exchange
  (`"delete" \notin Calls[Authority]`), with or without a connection. It relates the records of both
  agents by the messages between them. `IssuedInv` says what each message proves, in flight or in a task's hands: an
  issue-credential message, that the issuer's exchange of the thread has saved it, is final and can issue
  nothing else (`IssuedAt`); an
  acknowledgement, that the holder's wallet has this credential (`HeldAt`), although the holder's record may
  have been deleted since. `Onward` is what every step keeps of this (nothing is taken back that
  was issued or stored), so that a step is reduced to the message or the record it adds
  (`MoveKeepsIssued`). Without the hypothesis on deletion TLC found no counterexample in the time
  it was given; the proof needs it because a deleted exchange no longer tells what was issued.

`OneHandler` and `OneCaller` are not there for the proof's sake: with the constants of `exchange_faults` and two
callers, TLC violates each of the first five properties; with two handlers, each but
`HeldAsRequested`, for which it found nothing in its time. Like the runs, the theorems
have the `ByHand` of the model: a call answers what no handler is at work on.

`AgentProofs` proves properties of five components that share no state, each from an inductive
invariant of its own, for every value of their constants and with none of the bounds:

* `SentMessagesAreCarried` and `AnswersGoToTheirSender`: `PipelineSpec => []SentIsCarried` and
  `PipelineSpec => []AnswersReachTheirSender`. `PipelineInv` follows an answer from the handler to the
  session: as long as it is due on a session, the session holds the keys of the party to be
  answered, or has closed for good, or another party's message took it over. The last is
  `overwritten`, and `HandlerConnectsKeeps` shows where it matters twice: the connection that a
  handler ties a session to may not be that of the keys it holds by then.
* `InitializedAgentsAreReady`: `AgentSpec => []InitializedAgentIsReady`. `AgentInv`: storage that
  is current stays current, so it is enough that every way to `start` has looked at it; what a call
  of `initialize` has started is still running, because only a shutdown stops it, and one that ran
  meanwhile has ended `undisturbed`. The lemma `StartUpIsSequence` needs `AgentAssumption`: an
  agent has finitely many modules and transports.
* `UpdatesKeepTheOriginal`: `UpdateSpec => []OriginalIsKept`. The property is not inductive: it
  does not say that the backup which is imported and deleted is the right one. `BackupsInv` says that an
  update has one backup file of its own, and `WorkInv` where the original is at each stage. After a
  crash the original may be in the backup of an earlier update, while the one that runs now backs up
  and restores a wallet that is half migrated; it deletes its own file only. The
  hypothesis `UnsetIsNoWallet` says that `undefined` is not a wallet.
* `VersionsMatchTheData`: `UpdateSpec => []VersionMatchesData`. Nothing follows from the version
  while an update runs, so `DataInv` counts the migrations that were started since the
  first version, over all updates (`Progress`, with the table of the updates and the order of
  versions in `UpdateTable` and `VersionOrder`): after `n` of them, each record is what `n` migrations
  make of it (`UpTo(n)`), or what `n - 1` make of it and the current one has yet to come to it (`OnTheWay`: the
  record is in `todo`, or among those that a write is about to replace). Every write that waits is
  a `SoundWrite`: what it adds is what `n` migrations make of a record. A backup holds a wallet as some
  version has it, so that restoring one is sound; after a crash the wallet is that of its version with some
  records further on, which is enough, as no migration undoes what an earlier one did.
* `MigratedRecordsStayWhole`: `UpdateSpec => []MigratedRecordsAreWhole`. The property is not
  inductive: it does not say that what a write takes away was saved before. `WholeInv`
  says it of the writes that wait for one record: the earlier ones only add records, or open an
  invitation, and the last alone replaces or deletes a record; what it takes away, the messages of an exchange, the DID documents and
  the invitation of a connection, the DID of a record, is by then in the records there are or in those the earlier
  writes add (`LastWrite`). `WholeAfterEarlier` and `WholeAfterLast` are the two kinds of step. It needs
  that the ids of connections and exchanges are unique (`IdsAreUnique`, which the migrations keep), that a
  connection that still has its multi-use invitation has the one it began with (`InvitationsStay`), and that the update's own
  backup is whole. The types of connections have an invariant of their own, `TypesInv`: as long as no
  backup shows that they had been moved before, what a connection was tagged with is in its tag or among
  its types, and in those of every write that waits. Both theorems have `UnsetIsNoWallet` and `UnsetIsNoTuple`: `undefined` is no DID and no id.
* `VerifiedIsAlwaysSigned` and `SignedCredentialsStayValid`: `W3cSpec => []VerifiedIsSigned` and
  `W3cSpec => []SignedCredentialsVerify`, for any credentials, signers, sequences of their documents,
  dates and skew of the clocks. `W3cInv` says what every JWT was made of: its payload is that of a
  credential, or of a presentation, with the content repeated or not; and a JWT signed here names the
  method in its header, and no key. Of what other software puts in a header nothing is assumed. The
  work is in the functions: `Claims` and `ReadBack` show that reading a payload gives the credential it
  was made of with its dates cut to the second (`AsReadBack`), and further lemmas that the method found for a
  JWT is the one whose key the signature is compared with, if it is: `PresentationIsSigned` splits on what
  the header has, and for a key in the header claims the holder named and nothing of the signer.
* `HitsAreAlwaysCurrent`: `CacheSpec => []HitsAreCurrent`, for any callers, keys, values and
  limits. The property speaks of one hit; `CacheInv` speaks of the map and the record it may come from: the map
  in use has what was set last, a snapshot that is being written has too unless another call
  still waits to persist, and so has the record once nobody writes; a map that two calls loaded at
  once, or a write that met another, is `disturbed`.

`AmongType` says what `Array.filter` (`Among`, a recursive function) keeps, for the operations of a
cache's map and for the migrations that move messages, by a least counterexample
(`LeastIsElement`).

The constants have the assumptions that the modules name (`ConstantsAssumption`,
`InvitedAssumption`, `NoneAssumption`, `MediationAssumption`, `PickupAssumption`,
`ExchangeAssumption`, `PipelineAssumption`, `AgentAssumption`, `UpdateAssumption`, `W3cBounds`, `W3cAssumption`, `CacheAssumption`): sizes,
which sets are disjoint or finite, that credentials have dates (`Dates`) and documents list their methods, that a
wallet to be updated has records with the fields of their kind, as its version leaves them, with ids that
tell them apart and the DIDs of its connections, and
that `None`, `Absent`, `Missing` or `Null`, the model's `undefined`, is no DID, no
record (`NoneIsNoRecord`), no content, no truth value, no date and no caller. TLC evaluates them in
the runs.

Only model-checked: `ReadyConnectionsAreFound` of the handshake, which fails after a crash
(section 4) and needs a hypothesis for every way to share a key; and `StoredDidsResolve`, which
rests on what nested folds over the text of a DID compute for every input: that takes an induction over data,
which was done here for one filter (`AmongType`) only. Out of the
proof system's reach is liveness (`RequestsAreAnswered`, `EventuallyReceived`).

## 6. Not modelled

* Implicit invitations (made from a public DID), invitations with attached requests,
  deletion of records, legacy invitation formats.
* Reuse thread ids: a `handshake-reuse-accepted` is matched by invitation and
  connection.
* The ack message of the connection protocol: its handler exists, but nothing in this
  repository sends one.
* `autoAcceptConnection` is per agent; in the code a record may override it.
* The content of messages and signatures: peers run the same code, so a message that
  fails validation does not occur.
* Exchanges without a connection (`~service`), exchanges that start with a request,
  `createRequest` of proofs without a connection, revocation notifications, the selection of
  credentials for a proof, the options of `delete`, `willConfirm: false`.
* The formats beyond the content that they copy and compare: signatures are always right,
  and the verdict of a proof format on a presentation is a choice, which is never "valid"
  for a content that was not requested.
* Liveness of exchanges: an exchange whose handler is interrupted is not taken up again.
* Mediation: mediators with several routing keys per record, the `recipient_key` filters of
  pickup (nothing in the repository sends them), live delivery, the timeout of opening a WebSocket,
  inbound transports (their packages are not in this repository). A message that was lost while
  it was sent over HTTP is one that the service did not take.
* Pipeline: several agent contexts, minor versions of message types, middleware.
* Storage updates of extension modules; the wallet's own export and import formats.
* DIDs: update and deactivate fail for every method there is and change nothing; did:web is an
  answer of a server; the cache of the resolver.
* W3C: data integrity proofs of JSON-LD (canonicalisation and third-party suites), the records of
  stored credentials, credential status (the code refuses every credential that has one), dates
  before 1970.
* The components with status `not_modelled` in `PROJECT.json`: feature discovery, basic messages
  and generic records (one write per operation, no state between two), the wallet
  interface (an interface), decorators and utilities.

## 7. Plan

1. **Lookup by keys**: `ReadyConnectionsAreFound` without crashes, from `OwnKeysInv`.
2. More of the exchanges: requests and offers without a connection, revocation
   notifications.
