\* Two invitees answer one multi-use invitation with DID exchange while messages
\* are duplicated, processes crash and transport sessions close.
CONSTANTS
  alice = alice
  bob = bob
  carol = carol
  first = first
  second = second
  None = None
  Agents = {alice, bob, carol}
  Handlers = {h1}
  Callers = {c1}
  Invitations = {first}
  Owner <- OwnedByAlice
  Reusable <- MultiUse
  ServiceKey <- OneKeyEach
  Protocol <- ByDidExchange
  ConnIds <- TwoIds
  AutoAccept = {alice, bob, carol}
  Faults = {"duplication", "crash", "session-closed"}
  Invited <- SeenByBoth
  ReuseConnection = {}
  AcceptAgain = {}
SPECIFICATION Spec
CHECK_DEADLOCK FALSE
INVARIANTS
  TypeOK
  DidsStored
  OneConnectionPerRequest
PROPERTIES
  ImplementsContract
