\* Two invitees get to see one single-use invitation.
CONSTANTS
  alice = alice
  bob = bob
  carol = carol
  first = first
  second = second
  None = None
  Agents = {alice, bob, carol}
  Handlers = {h1}
  Callers = {c1}
  Invitations = {first}
  Owner <- OwnedByAlice
  Reusable <- SingleUse
  ServiceKey <- OneKeyEach
  Protocol <- ByDidExchange
  ConnIds <- TwoIds
  AutoAccept = {alice, bob, carol}
  Faults = {}
  Invited <- SeenByBoth
  ReuseConnection = {}
  AcceptAgain = {first}
SPECIFICATION Spec
CHECK_DEADLOCK FALSE
INVARIANTS
  SingleUseInvitation
