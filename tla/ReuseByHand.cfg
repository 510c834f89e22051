\* The applications accept every step by hand, and the invitee reuses its connection
\* for the second invitation of the same key, unless the answer comes too late.
CONSTANTS
  alice = alice
  bob = bob
  carol = carol
  first = first
  second = second
  None = None
  Agents = {alice, bob}
  Handlers = {h1}
  Callers = {c1}
  Invitations = {first, second}
  Owner <- OwnedByAlice
  Reusable <- FirstMultiUse
  ServiceKey <- SharedKey
  Protocol <- ByDidExchange
  ConnIds <- TwoIds
  AutoAccept = {}
  Faults = {"reuse-timeout"}
  Invited <- SeenByBob
  ReuseConnection = {bob}
  AcceptAgain = {}
SPECIFICATION Spec
CHECK_DEADLOCK FALSE
INVARIANTS
  ReuseAgreement
  ClosedInvitationWasUsed
