\* The invitee crashes while it handles the response, which is delivered again.
CONSTANTS
  alice = alice
  bob = bob
  carol = carol
  first = first
  second = second
  None = None
  Agents = {alice, bob}
  Handlers = {h1}
  Callers = {c1}
  Invitations = {first}
  Owner <- OwnedByAlice
  Reusable <- MultiUse
  ServiceKey <- OneKeyEach
  Protocol <- ByDidExchange
  ConnIds <- TwoIds
  AutoAccept = {alice, bob}
  Faults = {"duplication", "crash"}
  Invited <- SeenByBob
  ReuseConnection = {}
  AcceptAgain = {}
SPECIFICATION Spec
CHECK_DEADLOCK FALSE
INVARIANTS
  ReadyConnectionsAreFound
