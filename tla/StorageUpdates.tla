---------------------------- MODULE StorageUpdates -----------------------------
(***************************************************************************)
(* The update assistant: it brings the records of a wallet from the        *)
(* storage version they were written in to a later one, with a backup of   *)
(* the wallet that is restored when a migration fails.  The process may    *)
(* crash at any step; what is left then is the wallet, half migrated, and  *)
(* the backup files.                                                       *)
(*                                                                         *)
(* Granularity: one write to the storage per step, and one step for each   *)
(* operation on the wallet or its backup file.                             *)
(*                                                                         *)
(* Limits: records have the fields that a migration reads or writes;       *)
(* update scripts of extension modules touch records of their own and are  *)
(* left out.                                                               *)
(***************************************************************************)
EXTENDS Naturals, Sequences, FiniteSets, SequencesExt, FiniteSetsExt, Filter

CONSTANTS
  LegacyWallets,  \* what the wallet may hold at first: [version, records]
  RoleStrategy,   \* mediationRoleUpdateStrategy
  MaxUpdates,     \* bound: calls of update
  MaxUpdateCrashes, \* bound: crashes of the process
  Unset           \* "undefined"

VARIABLES
  wallet,    \* the wallet: [open, version, records], or Unset when there is none
  backups,   \* backup files: [run, version, records]
  work,      \* the update that runs, see Work
  settled,   \* contents at the start, or after the last update that completed
  updateRuns, updateCrashes

updateVars == <<wallet, backups, work, settled, updateRuns, updateCrashes>>

-------------------------------------------------------------------------------
(* Versions *)

v0_1 == <<0, 1, 0>>
v0_2 == <<0, 2, 0>>
v0_3 == <<0, 3, 0>>
v0_3_1 == <<0, 3, 1>>
v0_4 == <<0, 4, 0>>

IsHigher(first, second) ==
  \E k \in 1 .. 3 : first[k] > second[k] /\ \A j \in 1 .. k - 1 : first[j] = second[j]

\* The updates there are, with the migrations of each in their order.
SupportedUpdates ==
  <<[from |-> v0_1, to |-> v0_2, migrations |-> <<"credentials", "mediation", "connections">>],
    [from |-> v0_2, to |-> v0_3, migrations |-> <<"proofs", "connection types">>],
    [from |-> v0_3, to |-> v0_3_1, migrations |-> <<"did ids">>],
    [from |-> v0_3_1, to |-> v0_4, migrations |-> <<"sov dids", "cache", "w3c credentials">>]>>

FrameworkVersion == Last(SupportedUpdates).to

\* getCurrentStorageVersion: a wallet without a version record is of the first version.
StorageVersion(w) == IF w.version = Unset THEN v0_1 ELSE w.version

\* getNeededUpdates, without the errors it throws: positions in SupportedUpdates.
NeededUpdates(current, toVersion) ==
  IF toVersion # Unset /\ ~IsHigher(toVersion, current) THEN {}
  ELSE {k \in DOMAIN SupportedUpdates :
          /\ IsHigher(SupportedUpdates[k].to, current)
          /\ toVersion = Unset \/ ~IsHigher(SupportedUpdates[k].to, toVersion)}

\* The errors: the storage is older than the first update, or no update ends at toVersion.
CannotUpdate(current, toVersion) ==
  LET needed == NeededUpdates(current, toVersion) IN
  /\ needed # {}
  /\ \/ IsHigher(SupportedUpdates[Min(needed)].from, current)
     \/ toVersion # Unset /\ SupportedUpdates[Max(needed)].to # toVersion

-------------------------------------------------------------------------------
(* Records *)

OfKind(records, kind) == {r \in records : r.kind = kind}

\* uuid(): ids that no record has.
UsedUuids(records) == {0} \cup {r.id[2] : r \in {x \in records : x.id[1] = "uuid"}}

Uuid(records, n) == <<"uuid", Max(UsedUuids(records)) + n>>

Saving(record) == [op |-> "save", record |-> record, old |-> Unset]
Updating(old, new) == [op |-> "update", record |-> new, old |-> old]
Deleting(old) == [op |-> "delete", record |-> Unset, old |-> old]

\* The tags of a DID record are computed when it is written; a uuid is no DID.
WriteThrows(write) ==
  /\ write.op # "delete" /\ write.record.kind = "did"
  /\ write.record.did # Unset /\ write.record.did[1] = "uuid"

Written(records, write) ==
  (IF write.op = "save" THEN records ELSE records \ {write.old})
    \cup (IF write.op = "delete" THEN {} ELSE {write.record})

-------------------------------------------------------------------------------
(* 0.1 -> 0.2: credential records, whose messages become records of their own *)

CredentialMessages == <<"proposalMessage", "offerMessage", "requestMessage", "credentialMessage">>

\* Holders are known by what they hold, else by the states that only they are in.
CredentialRole(r) ==
  IF \/ r.credentials # {}
     \/ r.state \in {"declined", "proposal-sent", "offer-received", "request-sent",
                     "credential-received"}
  THEN "holder" ELSE "issuer"

\* What the holder sends the issuer receives, and the other way round.
CredentialMessageRoles(r) ==
  [key \in ToSet(CredentialMessages) |->
     IF (CredentialRole(r) = "holder") = (key \in {"proposalMessage", "requestMessage"})
     THEN "sender" ELSE "receiver"]

UpdatedCredential(r) ==
  [r EXCEPT !.metadata = "generic",
            !.version = IF @ = Unset THEN "v1" ELSE @,
            !.credentials = IF r.credentialId # Unset THEN {r.credentialId} ELSE @,
            !.credentialId = Unset]

\* moveDidCommMessages, and the update of the exchange record after it.
MoveDidCommMessages(records, old, r, keys, roles) ==
  LET present == Among(keys, r.messages)
  IN  [k \in DOMAIN present |->
         Saving([kind |-> "message", id |-> Uuid(records, k), of |-> r.id,
                 key |-> present[k], role |-> roles[present[k]]])]
        \o <<Updating(old, [r EXCEPT !.messages = {}])>>

MigrateCredential(records, r) ==
  MoveDidCommMessages(records, r, UpdatedCredential(r), CredentialMessages,
                      CredentialMessageRoles(UpdatedCredential(r)))

-------------------------------------------------------------------------------
(* 0.1 -> 0.2: mediation records *)

UpdatedMediationRole(r) ==
  CASE RoleStrategy = "allMediator" -> "mediator"
    [] RoleStrategy = "allRecipient" -> "recipient"
    [] RoleStrategy = "recipientIfEndpoint" -> IF r.endpoint THEN "recipient" ELSE "mediator"
    [] RoleStrategy = "doNotChange" -> r.role

MigrateMediation(r) == <<Updating(r, [r EXCEPT !.role = UpdatedMediationRole(r)])>>

-------------------------------------------------------------------------------
(* 0.1 -> 0.2: connection records, with their DID documents and invitation *)

\* didExchangeStateAndRoleFromRoleAndState
NewRole(role) ==
  CASE role \in {"inviter", "responder"} -> "responder"
    [] role \in {"invitee", "requester"} -> "requester"

NewState(role, state) ==
  LET ours == NewRole(role) = "responder" IN
  CASE state = "null" -> "start"
    [] state = "invited" -> IF ours THEN "invitation-sent" ELSE "invitation-received"
    [] state = "requested" -> IF ours THEN "request-received" ELSE "request-sent"
    [] state = "responded" -> IF ours THEN "response-sent" ELSE "response-received"
    [] state = "complete" -> "completed"
    [] OTHER -> state

\* oobStateFromDidExchangeRoleAndState
OobState(role, state) ==
  CASE state = "invitation-received" \/ (state = "start" /\ role = "requester") -> "prepare-response"
    [] state = "invitation-sent" \/ (state = "start" /\ role # "requester") -> "await-response"
    [] OTHER -> "done"

\* convertToNewDidDocument: the document of a peer DID that its content determines.
PeerDid(legacy) == <<"peer", legacy>>

\* extractDidDocument, for one of the two documents: a record unless there is one.
ExtractDidDocument(records, doc, role) ==
  IF doc = Unset \/ \E r \in OfKind(records, "did") : r.id = <<"did", PeerDid(doc)>> THEN <<>>
  ELSE <<Saving([kind |-> "did", id |-> <<"did", PeerDid(doc)>>, did |-> PeerDid(doc),
                 role |-> role, qualified |-> Unset])>>

DidAfter(did, doc) == IF doc = Unset THEN did ELSE PeerDid(doc)

UpdatedConnection(r) ==
  [r EXCEPT !.role = NewRole(@), !.state = NewState(r.role, @),
            !.did = DidAfter(@, r.didDoc), !.theirDid = DidAfter(@, r.theirDidDoc),
            !.didDoc = Unset, !.theirDidDoc = Unset]

OobRole(r) == IF r.role = "responder" THEN "sender" ELSE "receiver"

\* convertToNewInvitation keeps the id of the invitation.
OobRecordsOf(records, r) ==
  {o \in OfKind(records, "outOfBand") : o.invitation = r.invitation /\ o.role = OobRole(r)}

\* migrateToOobRecord: the invitation moves to a record of its own, which the connections
\* made from it share.  The connection of a multi-use invitation itself goes.
MigrateToOobRecord(records, old, r) ==
  LET found == OobRecordsOf(records, r)
      new == [kind |-> "outOfBand", id |-> Uuid(records, 1), invitation |-> r.invitation,
              role |-> OobRole(r), state |-> OobState(r.role, r.state), reusable |-> r.multiUse]
      oob == IF found = {} THEN new ELSE CHOOSE o \in found : TRUE
      open == [oob EXCEPT !.reusable = TRUE, !.state = "await-response"]
  IN  IF r.invitation = Unset THEN <<Updating(old, [r EXCEPT !.multiUse = FALSE])>>
      ELSE (IF found = {} THEN <<Saving(new)>> ELSE <<>>) \o
           IF r.multiUse THEN <<Updating(oob, open), Deleting(old)>>
           ELSE <<Updating(old, [r EXCEPT !.invitation = Unset, !.multiUse = FALSE,
                                          !.outOfBandId = oob.id])>>

MigrateConnection(records, r) ==
  ExtractDidDocument(records, r.didDoc, "created")
    \o ExtractDidDocument(records, r.theirDidDoc, "received")
    \o MigrateToOobRecord(records, r, UpdatedConnection(r))

-------------------------------------------------------------------------------
(* 0.2 -> 0.3: proof records, and the types of connections *)

ProofMessages == <<"proposalMessage", "requestMessage", "presentationMessage">>

\* Only a verifier has verified; a prover is known by its states.
ProofRole(r) ==
  IF /\ r.isVerified = Unset
     /\ r.state \in {"declined", "proposal-sent", "request-received", "presentation-sent", "done"}
  THEN "prover" ELSE "verifier"

ProofMessageRoles(r) ==
  [key \in ToSet(ProofMessages) |->
     IF (ProofRole(r) = "prover") = (key # "requestMessage") THEN "sender" ELSE "receiver"]

UpdatedProof(r) == [r EXCEPT !.version = IF @ = Unset THEN "v1" ELSE @]

MigrateProof(records, r) ==
  MoveDidCommMessages(records, r, UpdatedProof(r), ProofMessages,
                      ProofMessageRoles(UpdatedProof(r)))

\* migrateConnectionRecordTags: the tag becomes a property, and mediators get their type.
MigrateConnectionTypes(records, r) ==
  LET mediates == \E md \in OfKind(records, "mediation") : md.connection = r.id
  IN  <<Updating(r, [r EXCEPT !.typeTag = {},
                              !.types = r.typeTag \cup (IF mediates THEN {"mediator"} ELSE {})])>>

-------------------------------------------------------------------------------
(* 0.3 -> 0.3.1 -> 0.4 *)

\* Mutant: the old record goes before the new one is there.
MigrateDidId_DeleteFirst(records, r) ==
  LET did == IF r.id[1] = "did" THEN r.id[2] ELSE r.id
  IN  <<Deleting(r), Saving([r EXCEPT !.did = did, !.id = Uuid(records, 1)])>>

\* migrateDidRecordToV0_3_1: the id, until then the DID, becomes a uuid.
MigrateDidId(records, r) ==
  LET did == IF r.id[1] = "did" THEN r.id[2] ELSE r.id
  IN  <<Saving([r EXCEPT !.did = did, !.id = Uuid(records, 1)]), Deleting(r)>>

MigrateSovDid(r) == <<Updating(r, [r EXCEPT !.did = r.qualified, !.qualified = Unset])>>

\* Writing a W3C credential again adds the tag with its claim format.
MigrateW3cCredential(r) == <<Updating(r, [r EXCEPT !.claimFormat = TRUE])>>

-------------------------------------------------------------------------------
(* The migrations by name *)

\* getAll or findByQuery: the records that a migration goes through.
ToMigrate(migration, records) ==
  CASE migration = "credentials" -> OfKind(records, "credential")
    [] migration = "mediation" -> OfKind(records, "mediation")
    [] migration \in {"connections", "connection types"} -> OfKind(records, "connection")
    [] migration = "proofs" -> OfKind(records, "proof")
    [] migration = "did ids" -> OfKind(records, "did")
    [] migration = "sov dids" ->
         {r \in OfKind(records, "did") : r.did[1] = "sov" /\ r.role = "created"}
    [] migration = "cache" -> OfKind(records, "cache")
    [] migration = "w3c credentials" -> OfKind(records, "w3c")

WritesFor(migration, records, r) ==
  CASE migration = "credentials" -> MigrateCredential(records, r)
    [] migration = "mediation" -> MigrateMediation(r)
    [] migration = "connections" -> MigrateConnection(records, r)
    [] migration = "proofs" -> MigrateProof(records, r)
    [] migration = "connection types" -> MigrateConnectionTypes(records, r)
    [] migration = "did ids" -> MigrateDidId(records, r)
    [] migration = "sov dids" -> MigrateSovDid(r)
    [] migration = "cache" -> <<Deleting(r)>>
    [] migration = "w3c credentials" -> MigrateW3cCredential(r)

-------------------------------------------------------------------------------
(* Running an update *)

\* updates: those to run, and done: how many migrations of the first of them have been
\* started.  todo: records, as they were read, that the current migration has not come
\* to.  writes: those of the current record.
NoUpdate ==
  [stage |-> "none", updates |-> {}, done |-> 0, migration |-> Unset, todo |-> {},
   writes |-> <<>>]

AtUpdateStage(stage) == work.stage = stage

ToStage(stage) == work' = [NoUpdate EXCEPT !.stage = stage]

Contents(w) == [version |-> StorageVersion(w), records |-> w.records]

\* UpdateAssistant.initialize: the wallet is opened, or made when there is none.
InitializeWallet ==
  /\ AtUpdateStage("none")
  /\ IF wallet = Unset
       THEN wallet' = [open |-> TRUE, version |-> FrameworkVersion, records |-> {}]
       ELSE ~wallet.open /\ wallet' = [wallet EXCEPT !.open = TRUE]
  /\ UNCHANGED <<backups, work, settled, updateRuns, updateCrashes>>

Opened == wallet # Unset /\ wallet.open

\* isUpToDate, or an update that is not needed or not possible: the version record is
\* made when it is not there.
ReadStorageVersion ==
  /\ AtUpdateStage("none") /\ Opened
  /\ wallet' = [wallet EXCEPT !.version = StorageVersion(wallet)]
  /\ UNCHANGED <<backups, work, settled, updateRuns, updateCrashes>>

\* update, up to the backup.
StartUpdate(toVersion) ==
  LET needed == NeededUpdates(StorageVersion(wallet), toVersion) IN
  /\ AtUpdateStage("none") /\ Opened /\ updateRuns < MaxUpdates
  /\ needed # {} /\ ~CannotUpdate(StorageVersion(wallet), toVersion)
  /\ wallet' = [wallet EXCEPT !.version = StorageVersion(wallet)]
  /\ updateRuns' = updateRuns + 1
  /\ work' = [NoUpdate EXCEPT !.stage = "backup", !.updates = needed]
  /\ UNCHANGED <<backups, settled, updateCrashes>>

CreateBackup ==
  /\ AtUpdateStage("backup")
  /\ \/ /\ backups' = backups \cup {[run |-> updateRuns, contents |-> Contents(wallet)]}
        /\ work' = [work EXCEPT !.stage = "migrating"]
     \/ ToStage("none") /\ UNCHANGED backups
  /\ UNCHANGED <<wallet, settled, updateRuns, updateCrashes>>

Idle == AtUpdateStage("migrating") /\ work.todo = {} /\ work.writes = <<>>

CurrentUpdate == SupportedUpdates[Min(work.updates)]

\* doUpdate: the next migration reads the records it goes through.
NextMigration ==
  /\ Idle /\ work.updates # {} /\ work.done < Len(CurrentUpdate.migrations)
  /\ LET migration == CurrentUpdate.migrations[work.done + 1]
     IN  work' = [work EXCEPT !.done = @ + 1, !.migration = migration,
                              !.todo = ToMigrate(migration, wallet.records)]
  /\ UNCHANGED <<wallet, backups, settled, updateRuns, updateCrashes>>

\* Mutant: the last migration of an update is not awaited.
SetCurrentStorageVersion_NotAwaited ==
  /\ AtUpdateStage("migrating") /\ work.updates # {}
  /\ work.done = Len(CurrentUpdate.migrations)
  /\ wallet' = [wallet EXCEPT !.version = CurrentUpdate.to]
  /\ work' = [work EXCEPT !.updates = @ \ {Min(@)}, !.done = 0]
  /\ UNCHANGED <<backups, settled, updateRuns, updateCrashes>>

\* An update ends when its migrations have: the version is written.
SetCurrentStorageVersion ==
  /\ Idle /\ work.updates # {} /\ work.done = Len(CurrentUpdate.migrations)
  /\ wallet' = [wallet EXCEPT !.version = CurrentUpdate.to]
  /\ work' = [work EXCEPT !.updates = @ \ {Min(@)}, !.done = 0]
  /\ UNCHANGED <<backups, settled, updateRuns, updateCrashes>>

MigrateRecord(r) ==
  /\ r \in work.todo /\ work.writes = <<>>
  /\ work' = [work EXCEPT !.todo = @ \ {r},
                          !.writes = WritesFor(work.migration, wallet.records, r)]
  /\ UNCHANGED <<wallet, backups, settled, updateRuns, updateCrashes>>

WriteRecord ==
  /\ work.writes # <<>> /\ ~WriteThrows(Head(work.writes))
  /\ wallet' = [wallet EXCEPT !.records = Written(@, Head(work.writes))]
  /\ work' = [work EXCEPT !.writes = Tail(@)]
  /\ UNCHANGED <<backups, settled, updateRuns, updateCrashes>>

OwnBackup == {b \in backups : b.run = updateRuns}

\* The backup file is deleted, as it is not needed anymore.
FinishUpdate ==
  /\ Idle /\ work.updates = {}
  /\ backups' = backups \ OwnBackup
  /\ settled' = Contents(wallet)
  /\ work' = NoUpdate
  /\ UNCHANGED <<wallet, updateRuns, updateCrashes>>

\* A migration, a write, or the deletion of the backup file throws.
FailUpdate ==
  /\ AtUpdateStage("migrating")
  /\ ToStage("export")
  /\ UNCHANGED <<wallet, backups, settled, updateRuns, updateCrashes>>

\* Mutant: the backup file is deleted however the restoration ends.
RestoreFails_Cleanup ==
  /\ work.stage \in {"export", "delete", "import", "open", "clean up"}
  /\ ToStage("none")
  /\ backups' = backups \ OwnBackup
  /\ UNCHANGED <<wallet, settled, updateRuns, updateCrashes>>

\* A step of the restoration throws: the wallet stays as it is.
RestoreFails ==
  /\ work.stage \in {"export", "delete", "import", "open", "clean up"}
  /\ ToStage("none")
  /\ UNCHANGED <<wallet, backups, settled, updateRuns, updateCrashes>>

\* restoreBackup: the wallet is exported for later study and deleted, the backup is
\* imported and opened, and deleted then.
RestoreBackup ==
  /\ \/ /\ AtUpdateStage("export") /\ ToStage("delete")
        /\ UNCHANGED <<wallet, backups>>
     \/ /\ AtUpdateStage("delete") /\ ToStage("import")
        /\ wallet' = Unset
        /\ UNCHANGED backups
     \/ /\ AtUpdateStage("import") /\ ToStage("open")
        /\ \E b \in OwnBackup :
             wallet' = [open |-> FALSE, version |-> b.contents.version,
                        records |-> b.contents.records]
        /\ UNCHANGED backups
     \/ /\ AtUpdateStage("open") /\ ToStage("clean up")
        /\ wallet' = [wallet EXCEPT !.open = TRUE]
        /\ UNCHANGED backups
     \/ /\ AtUpdateStage("clean up") /\ ToStage("none")
        /\ backups' = backups \ OwnBackup
        /\ UNCHANGED wallet
  /\ UNCHANGED <<settled, updateRuns, updateCrashes>>

\* The process ends at any point; wallet and files are what is on the disk.
CrashInUpdate ==
  /\ updateCrashes < MaxUpdateCrashes
  /\ wallet' = IF wallet = Unset THEN Unset ELSE [wallet EXCEPT !.open = FALSE]
  /\ work' = NoUpdate
  /\ updateCrashes' = updateCrashes + 1
  /\ UNCHANGED <<backups, settled, updateRuns>>

-------------------------------------------------------------------------------
UpdateInit ==
  /\ \E w \in LegacyWallets : /\ wallet = [open |-> FALSE, version |-> w.version, records |-> w.records]
                              /\ settled = Contents(w)
  /\ backups = {}
  /\ work = NoUpdate
  /\ updateRuns = 0 /\ updateCrashes = 0

UpdateNext ==
  \/ InitializeWallet \/ ReadStorageVersion
  \/ \E toVersion \in {u.to : u \in ToSet(SupportedUpdates)} \cup {Unset} : StartUpdate(toVersion)
  \/ CreateBackup \/ NextMigration \/ SetCurrentStorageVersion
  \/ \E r \in work.todo : MigrateRecord(r)
  \/ WriteRecord \/ FinishUpdate \/ FailUpdate \/ RestoreFails \/ RestoreBackup
  \/ CrashInUpdate

UpdateSpec == UpdateInit /\ [][UpdateNext]_updateVars

-------------------------------------------------------------------------------
(* Properties *)

\* Whatever fails, and wherever the process crashes, the wallet as it was before an
\* update that has not completed is still there, or is in a backup file.
OriginalIsKept ==
  \/ wallet # Unset /\ Contents(wallet) = settled
  \/ \E b \in backups : b.contents = settled

Migrated_0_2(records) ==
  /\ \A r \in OfKind(records, "credential") :
       r.messages = {} /\ r.credentialId = Unset /\ r.version # Unset
  /\ \A r \in OfKind(records, "connection") :
       /\ {r.didDoc, r.theirDidDoc, r.invitation} = {Unset} /\ ~r.multiUse
       /\ r.role \in {"requester", "responder"}
  /\ \A r \in OfKind(records, "mediation") : r.role # Unset

Migrated_0_3(records) ==
  /\ \A r \in OfKind(records, "proof") : r.messages = {} /\ r.version # Unset
  /\ \A r \in OfKind(records, "connection") : r.typeTag = {}

Migrated_0_3_1(records) ==
  \A r \in OfKind(records, "did") : r.id[1] = "uuid" /\ r.did # Unset /\ r.did[1] # "uuid"

Migrated_0_4(records) ==
  /\ OfKind(records, "cache") = {}
  /\ \A r \in OfKind(records, "did") : r.role = "created" => r.did[1] # "sov"
  /\ \A r \in OfKind(records, "w3c") : r.claimFormat

\* What the migrations up to a version have done.
MigratedTo(version, records) ==
  /\ ~IsHigher(v0_2, version) => Migrated_0_2(records)
  /\ ~IsHigher(v0_3, version) => Migrated_0_3(records)
  /\ ~IsHigher(v0_3_1, version) => Migrated_0_3_1(records)
  /\ ~IsHigher(v0_4, version) => Migrated_0_4(records)

\* The storage version never says more than the migrations have done: an agent that
\* starts, or an update that starts again after a crash, can rely on it.
VersionMatchesData ==
  wallet # Unset => MigratedTo(StorageVersion(wallet), wallet.records)

DidOf(r) == IF r.did # Unset THEN r.did ELSE r.id[2]

\* Connections find their DIDs and their invitation.
ConnectionsAreWhole(records) ==
  \A c \in OfKind(records, "connection") :
    /\ {c.did, c.theirDid} \ {Unset} \subseteq {DidOf(d) : d \in OfKind(records, "did")}
    /\ c.outOfBandId # Unset => \E o \in OfKind(records, "outOfBand") : o.id = c.outOfBandId

\* A message of an exchange is in the exchange record or in a record of its own.
MessagesAreKept(records) ==
  \A old \in settled.records : old.kind \in {"credential", "proof"} =>
    \A r \in records : r.kind = old.kind /\ r.id = old.id =>
      \A key \in old.messages :
        key \in r.messages \/ \E x \in OfKind(records, "message") : x.of = r.id /\ x.key = key

\* A multi-use invitation has its connection record, or is open in a record of its own.
InvitationsAreKept(records) ==
  \A old \in OfKind(settled.records, "connection") : old.multiUse =>
    \/ \E c \in OfKind(records, "connection") : c.id = old.id
    \/ \E o \in OfKind(records, "outOfBand") :
         o.invitation = old.invitation /\ o.reusable /\ o.state = "await-response"

\* A connection has the types it was tagged with.  They are lost only where an update
\* starts from a wallet in which an earlier one has moved them, and moves them again: it
\* reads the tag, which is gone (migrateConnectionRecordTags).
TypesAreKept(records) ==
  \A old \in OfKind(settled.records, "connection"), c \in OfKind(records, "connection") :
    c.id = old.id =>
      \/ old.typeTag \subseteq c.typeTag \cup c.types
      \/ \E b \in backups : \E x \in OfKind(b.contents.records, "connection") :
           x.id = c.id /\ x.typeTag = {}

\* At every step of every migration, also one that runs again after a crash: a connection
\* finds its DIDs and its invitation, the messages of exchanges and the multi-use
\* invitations are still there, and so are the types of connections unless the migration
\* of these runs on what it has already migrated.
MigratedRecordsAreWhole ==
  wallet # Unset /\ wallet.records # {} =>
    /\ ConnectionsAreWhole(wallet.records)
    /\ MessagesAreKept(wallet.records)
    /\ InvitationsAreKept(wallet.records)
    /\ TypesAreKept(wallet.records)

-------------------------------------------------------------------------------
(* The wallets there may be *)

Fields ==
  [credential |-> {"kind", "id", "state", "messages", "version", "credentialId", "credentials",
                   "metadata"},
   proof |-> {"kind", "id", "state", "messages", "version", "isVerified"},
   message |-> {"kind", "id", "of", "key", "role"},
   mediation |-> {"kind", "id", "connection", "endpoint", "role"},
   connection |-> {"kind", "id", "role", "state", "didDoc", "theirDidDoc", "did", "theirDid",
                   "invitation", "multiUse", "outOfBandId", "typeTag", "types"},
   outOfBand |-> {"kind", "id", "invitation", "role", "state", "reusable"},
   did |-> {"kind", "id", "did", "role", "qualified"},
   cache |-> {"kind", "id"},
   w3c |-> {"kind", "id", "claimFormat"}]

\* The id of a DID record is the DID, or a uuid and the record has the DID; a DID of this
\* agent that is not qualified has its qualified form.
DidIsKnown(r) ==
  /\ \/ r.id[1] = "did" /\ r.id[2] # Unset /\ r.did \in {Unset, r.id[2]}
     \/ r.id[1] = "uuid" /\ r.did # Unset
  /\ r.id # Unset /\ DidOf(r)[1] # "uuid"
  /\ r.role = "created" /\ DidOf(r)[1] = "sov" =>
       r.qualified # Unset /\ r.qualified[1] \notin {"uuid", "sov"}

\* A record with the fields of its kind.  Connections are between peer DIDs.
WellFormed(r) ==
  /\ r.kind \in DOMAIN Fields /\ r = [f \in Fields[r.kind] |-> r[f]]
  /\ r.kind = "credential" => r.messages \subseteq ToSet(CredentialMessages)
  /\ r.kind = "proof" => r.messages \subseteq ToSet(ProofMessages)
  /\ r.kind = "mediation" /\ RoleStrategy = "doNotChange" => r.role # Unset
  /\ r.kind = "connection" =>
       /\ r.role \in {"inviter", "invitee", "requester", "responder"} /\ r.multiUse \in BOOLEAN
       /\ \A did \in {r.did, r.theirDid} \ {Unset} : did[1] # "sov"
  /\ r.kind = "did" => DidIsKnown(r)

\* Connections and exchanges are told apart by their ids.
IdsAreUnique(records) ==
  \A r, x \in records :
    r.kind = x.kind /\ r.kind \in {"connection", "credential", "proof"} /\ r.id = x.id => r = x

\* An older version leaves what its own migrations make of a wallet.
ASSUME UpdateAssumption ==
  /\ RoleStrategy \in {"allMediator", "allRecipient", "recipientIfEndpoint", "doNotChange"}
  /\ Unset \notin {"v1", "mediator", "recipient"}
  /\ \A w \in LegacyWallets :
       /\ w.version \in {Unset, v0_1} \cup {u.to : u \in ToSet(SupportedUpdates)}
       /\ \A r \in w.records : WellFormed(r)
       /\ MigratedTo(StorageVersion(w), w.records)
       /\ IdsAreUnique(w.records) /\ ConnectionsAreWhole(w.records)
================================================================================
