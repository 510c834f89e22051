\* Two message handlers run concurrently in every agent, and an invitation of each
\* protocol is answered.
CONSTANTS
  alice = alice
  bob = bob
  carol = carol
  first = first
  second = second
  None = None
  Agents = {alice, bob}
  Handlers = {h1, h2}
  Callers = {c1}
  Invitations = {first, second}
  Owner <- OwnedByAlice
  Reusable <- MultiUse
  ServiceKey <- OneKeyEach
  Protocol <- OneOfEach
  ConnIds <- TwoIds
  AutoAccept = {alice, bob}
  Faults = {}
  Invited <- SeenByBob
  ReuseConnection = {}
  AcceptAgain = {first}
SPECIFICATION FairSpec
CHECK_DEADLOCK FALSE
INVARIANTS
  Agreement
PROPERTIES
  RequestsAreAnswered
