\* The offer of createOffer reaches the holder in an out-of-band invitation, and the
\* holder answers over the connection that it makes.
CONSTANTS
  authority = authority
  holder = holder
  issuing = issuing
  proving = proving
  None = None
  Authority = authority
  Holder = holder
  Handlers = {h1}
  Callers = {c1}
  Threads = {issuing, proving}
  ProtocolOf <- BothProtocols
  MaxThreads = 1
  RecordIds <- TwoRecords
  Contents = {x, y}
  AgentAuto <- Always
  AutoOptions = {None}
  Calls <- OnlyOffer
  WithoutConnection = TRUE
  MaxCredentials = 2
  Faults = {}
SPECIFICATION Spec
SYMMETRY Symmetry
CHECK_DEADLOCK FALSE
INVARIANTS
  OfferedExchangeIsUsed
