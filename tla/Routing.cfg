\* Mediation, pickup and the message pipeline: two mediators and two API calls at
\* once, a WebSocket that drops, two messages with the sessions they came over.
CONSTANTS
  alice = alice
  bob = bob
  Nothing = Nothing
  Mediators = {m1, m2}
  MediationIds <- OneToTwo
  MediationCallers = {c1, c2}
  RoutingKeys = {k1, k2}
  MaxMediationCalls = 3
  Forwards = {f1, f2}
  MaxDrops = 1
  MaxPolls = 2
  MaxBatch = 1
  PickupVersions = {"PickUpV1", "PickUpV2", "Implicit"}
  Inbound = {i1, i2}
  InboundKinds <- ArrivingKinds
  Parties = {alice, bob}
  SessionIds <- OneToTwo
  ServicesOf <- PartyServices
  OutboundTransports = {"http"}
  Absent = Absent
SPECIFICATION RoutingSpec
CHECK_DEADLOCK FALSE
INVARIANTS
  HandedKeysAreRouted
  GrantIsMutual
  OneDefault
  NothingIsLost
  SentIsCarried
  AnswersReachTheirSender
PROPERTIES
  EventuallyReceived
