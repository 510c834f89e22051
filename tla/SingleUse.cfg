\* One invitee answers a single-use invitation of each protocol, at the same time;
\* messages are lost and duplicated and transport sessions close.
CONSTANTS
  alice = alice
  bob = bob
  carol = carol
  first = first
  second = second
  None = None
  Agents = {alice, bob}
  Handlers = {h1}
  Callers = {c1}
  Invitations = {first, second}
  Owner <- OwnedByAlice
  Reusable <- SingleUse
  ServiceKey <- OneKeyEach
  Protocol <- OneOfEach
  ConnIds <- TwoIds
  AutoAccept = {alice, bob}
  Faults = {"loss", "duplication", "session-closed"}
  Invited <- SeenByBob
  ReuseConnection = {}
  AcceptAgain = {}
SPECIFICATION Spec
CHECK_DEADLOCK FALSE
INVARIANTS
  UsedInvitationIsClosed
  ClosedInvitationWasUsed
  ReadyConnectionsAreFound
