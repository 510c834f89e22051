--------------------------------- MODULE Dids ----------------------------------
(***************************************************************************)
(* The DIDs of one agent: creating them with the registrars, importing     *)
(* them, and resolving them, while API calls interleave and the wallet or  *)
(* the storage fails between two of their steps.                           *)
(*                                                                         *)
(* Granularity: the key operations of the wallet and the reads and writes  *)
(* of DID records are steps; what a call computes between them belongs to  *)
(* the step before.                                                        *)
(*                                                                         *)
(* Limits: update and deactivate fail for every method there is and change *)
(* nothing; they are left out.                                             *)
(***************************************************************************)
EXTENDS DidDocuments, FiniteSets, FiniteSetsExt

CONSTANTS
  DidCallers,     \* calls of the API at a time
  CreateOptions,  \* what create may be called with: [method, keyType, seed, document]
  ImportOptions,  \* what import may be called with: [did, document, keys, overwrite]
  WebDocuments,   \* documents that a web server may answer with
  WalletKeyTypes, \* key types the wallet supports
  MaxDidCalls     \* bound: calls of the API

VARIABLES
  didRecords,    \* [id, did, role, document, recipientKeys]
  walletKeys,    \* private keys in the wallet
  didCalls,      \* caller -> its call
  givenDocuments, \* [did, document]: what was created, imported or received
  didCallCount

didVars == <<didRecords, walletKeys, didCalls, givenDocuments, didCallCount>>

-------------------------------------------------------------------------------
(* DID records *)

DidRecord(did, role, document, recipientKeys) ==
  [id |-> Max({0} \cup {r.id : r \in didRecords}) + 1, did |-> did, role |-> role,
   document |-> document, recipientKeys |-> recipientKeys]

FindAllByDid(did) == {r \in didRecords : r.did = did}

FindCreatedDid(did) == {r \in FindAllByDid(did) : r.role = "created"}

Given(did, document) == givenDocuments' = givenDocuments \cup {[did |-> did, document |-> document]}

-------------------------------------------------------------------------------
(* Resolving *)

\* PeerDidResolver.resolve; of several records with the DID any may be the first.
ResolvePeerDid(did) ==
  CASE ~IsValidPeerDid(did) -> {}
    [] did[2] = 0 -> {DocumentForKey(did, did[3])}
    [] did[2] = 1 -> {r.document : r \in FindAllByDid(did)} \ {Missing}
    [] did[2] = 2 -> {NumAlgo2Document(did)}

\* The documents that a DID may resolve to; none when it cannot be resolved.
Resolve(did) ==
  CASE did[1] = "key" -> {DocumentForKey(did, did[2])}
    [] did[1] = "jwk" -> {DidJwkDocument(did, did[2])}
    [] did[1] = "peer" -> ResolvePeerDid(did)
    [] did[1] = "web" -> WebDocuments
    [] OTHER -> {}

-------------------------------------------------------------------------------
(* Calls *)

NoDidCall == [stage |-> "none", options |-> Missing, existing |-> Missing, document |-> Missing,
              keys |-> {}]

DidStage(c, stage) == didCalls[c].stage = stage

DidGoto(c, call) == didCalls' = [didCalls EXCEPT ![c] = call]

\* The call returns, with what it did or with the reason why it failed.
DidReturns(c) == DidGoto(c, NoDidCall)

Begins(c) == DidStage(c, "none") /\ didCallCount < MaxDidCalls /\ didCallCount' = didCallCount + 1

-------------------------------------------------------------------------------
(* create *)

\* The registrars that make a key: did:key, did:jwk and did:peer:0.
CreateFromKey(c, o) ==
  /\ Begins(c) /\ o.method \in {"key", "jwk", "peer0"}
  /\ DidGoto(c, [NoDidCall EXCEPT !.stage = "create key", !.options = o])
  /\ UNCHANGED <<didRecords, walletKeys, givenDocuments>>

\* did:peer:1 and did:peer:2 are made from a document.
DidFromDocument(o) == IF o.method = "peer1" THEN NumAlgo1Did(o.document) ELSE NumAlgo2Did(o.document)

CreateFromDocument(c, o) ==
  LET did == DidFromDocument(o)
      document == [o.document EXCEPT !.id = did]
  IN  /\ Begins(c) /\ o.method \in {"peer1", "peer2"}
      /\ IF did = Missing \/ RecipientKeys(document) = Missing THEN DidReturns(c)
         ELSE DidGoto(c, [NoDidCall EXCEPT !.stage = "save did", !.options = o,
                                           !.document = document])
      /\ UNCHANGED <<didRecords, walletKeys, givenDocuments>>

DidFromKey(method, key) ==
  CASE method = "key" -> <<"key", key>>
    [] method = "jwk" -> <<"jwk", key>>
    [] method = "peer0" -> <<"peer", 0, key>>

\* From a seed it is always the same key; without one a new key.
NewKey(o) ==
  KeyWith(o.keyType, IF o.seed # Missing THEN o.seed
                     ELSE Max({9} \cup {k.n : k \in walletKeys}) + 1)

CreateKey(c) ==
  LET o == didCalls[c].options
      key == NewKey(o)
      did == DidFromKey(o.method, key)
      document == IF o.method = "jwk" THEN DidJwkDocument(did, key) ELSE DocumentForKey(did, key)
  IN  /\ DidStage(c, "create key")
      /\ IF o.keyType \in WalletKeyTypes /\ key \notin walletKeys
           THEN /\ walletKeys' = walletKeys \cup {key}
                /\ IF o.method = "jwk" /\ ~HasJwk(key) THEN DidReturns(c)
                   ELSE DidGoto(c, [didCalls[c] EXCEPT !.stage = "save did", !.document = document])
           ELSE DidReturns(c) /\ UNCHANGED walletKeys
      /\ UNCHANGED <<didRecords, givenDocuments, didCallCount>>

\* Mutant: the document is stored for the DIDs it is encoded in.
SaveDid_Swapped(c) ==
  LET call == didCalls[c]
      kept == IF call.options.method = "peer2" THEN call.document ELSE Missing
  IN  /\ DidStage(c, "save did")
      /\ didRecords' = didRecords \cup
           {DidRecord(call.document.id, "created", kept, RecipientKeys(call.document))}
      /\ Given(call.document.id, call.document)
      /\ DidReturns(c)
      /\ UNCHANGED <<walletKeys, didCallCount>>

\* Only for did:peer:1 is the document stored: the others resolve by themselves.
SaveDid(c) ==
  LET call == didCalls[c]
      kept == IF call.options.method = "peer1" THEN call.document ELSE Missing
  IN  /\ DidStage(c, "save did")
      /\ didRecords' = didRecords \cup
           {DidRecord(call.document.id, "created", kept, RecipientKeys(call.document))}
      /\ Given(call.document.id, call.document)
      /\ DidReturns(c)
      /\ UNCHANGED <<walletKeys, didCallCount>>

\* The wallet or the storage throws: the call fails, and a key it made stays.
CallFails(c) ==
  /\ ~DidStage(c, "none")
  /\ DidReturns(c)
  /\ UNCHANGED <<didRecords, walletKeys, givenDocuments, didCallCount>>

-------------------------------------------------------------------------------
(* import *)

\* The record there is decides whether one is updated or made, whatever happens until then.
ImportDid(c, o) ==
  LET found == FindCreatedDid(o.did) IN
  /\ Begins(c)
  /\ o.document # Missing => o.document.id = o.did
  /\ IF Cardinality(found) > 1 \/ (found # {} /\ ~o.overwrite) THEN DidReturns(c)
     ELSE DidGoto(c, [stage |-> IF o.document = Missing THEN "resolve" ELSE "import keys",
                      options |-> o, document |-> o.document, keys |-> o.keys,
                      existing |-> IF found = {} THEN Missing ELSE (CHOOSE r \in found : TRUE).id])
  /\ UNCHANGED <<didRecords, walletKeys, givenDocuments>>

ResolveImported(c) ==
  LET call == didCalls[c]
      documents == Resolve(call.options.did)
  IN  /\ DidStage(c, "resolve")
      /\ \/ \E d \in documents : DidGoto(c, [call EXCEPT !.stage = "import keys", !.document = d])
         \/ documents = {} /\ DidReturns(c)
      /\ UNCHANGED <<didRecords, walletKeys, givenDocuments, didCallCount>>

\* A key that is there already is skipped.
ImportKey(c) ==
  LET call == didCalls[c] IN
  /\ DidStage(c, "import keys")
  /\ \E key \in call.keys :
       /\ key.type \in WalletKeyTypes
       /\ walletKeys' = walletKeys \cup {key}
       /\ DidGoto(c, [call EXCEPT !.keys = @ \ {key}])
  /\ UNCHANGED <<didRecords, givenDocuments, didCallCount>>

\* A document whose recipient keys cannot be found is not stored.
StoreImported(c) ==
  LET call == didCalls[c]
      did == call.options.did
      keys == RecipientKeys(call.document)
  IN  /\ DidStage(c, "import keys") /\ call.keys = {}
      /\ IF keys = Missing THEN UNCHANGED <<didRecords, givenDocuments>>
         ELSE /\ Given(did, call.document)
              /\ didRecords' =
                   IF call.existing = Missing
                   THEN didRecords \cup {DidRecord(did, "created", call.document, keys)}
                   ELSE {IF r.id = call.existing
                         THEN [r EXCEPT !.document = call.document, !.recipientKeys = keys]
                         ELSE r : r \in didRecords}
      /\ DidReturns(c)
      /\ UNCHANGED <<walletKeys, didCallCount>>

\* storeReceivedDid, which the connection protocols call with a document they checked.
StoreReceivedDid(document) ==
  LET did == NumAlgo1Did(document)
      full == [document EXCEPT !.id = did]
  IN  /\ didCallCount < MaxDidCalls /\ didCallCount' = didCallCount + 1
      /\ RecipientKeys(full) # Missing
      /\ didRecords' = didRecords \cup {DidRecord(did, "received", full, RecipientKeys(full))}
      /\ Given(did, full)
      /\ UNCHANGED <<walletKeys, didCalls>>

-------------------------------------------------------------------------------
DidInit ==
  /\ didRecords = {}
  /\ walletKeys = {}
  /\ didCalls = [c \in DidCallers |-> NoDidCall]
  /\ givenDocuments = {}
  /\ didCallCount = 0

DidNext ==
  \/ \E c \in DidCallers :
       \/ \E o \in CreateOptions : CreateFromKey(c, o) \/ CreateFromDocument(c, o)
       \/ \E o \in ImportOptions : ImportDid(c, o)
       \/ CreateKey(c) \/ SaveDid(c) \/ CallFails(c)
       \/ ResolveImported(c) \/ ImportKey(c) \/ StoreImported(c)
  \/ \E o \in CreateOptions : o.method = "peer1" /\ StoreReceivedDid(o.document)

-------------------------------------------------------------------------------
(* Properties *)

\* A DID that the agent created, imported or received resolves, and to nothing but
\* documents with the keys, for each purpose, of one it was given for that DID; unless
\* its services are encoded with - or _ (or it has no key), which the pattern for peer
\* DIDs has no place for.  And a record with a document is found by the recipient keys
\* of that document.
StoredDidsResolve ==
  \A r \in didRecords :
    /\ r.did[1] # "web" /\ (r.did[1] = "peer" => IsValidPeerDid(r.did)) =>
         /\ Resolve(r.did) # {}
         /\ \A doc \in Resolve(r.did) : \E g \in givenDocuments :
              g.did = r.did /\ KeysByPurpose(doc) = KeysByPurpose(g.document)
    /\ r.document # Missing => r.recipientKeys = RecipientKeys(r.document)
================================================================================
