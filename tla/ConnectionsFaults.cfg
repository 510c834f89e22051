\* The connection protocol under every fault, a peer that abandons the connection
\* included.
CONSTANTS
  alice = alice
  bob = bob
  carol = carol
  first = first
  second = second
  None = None
  Agents = {alice, bob}
  Handlers = {h1}
  Callers = {c1}
  Invitations = {first}
  Owner <- OwnedByAlice
  Reusable <- MultiUse
  ServiceKey <- OneKeyEach
  Protocol <- ByConnections
  ConnIds <- TwoIds
  AutoAccept = {alice, bob}
  Faults = {"loss", "duplication", "crash", "session-closed", "peer-report"}
  Invited <- SeenByBob
  ReuseConnection = {}
  AcceptAgain = {}
SPECIFICATION Spec
CHECK_DEADLOCK FALSE
INVARIANTS
  DidsStored
PROPERTIES
  ImplementsContract
