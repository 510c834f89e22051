\* The holder deletes its exchange at any moment while messages are duplicated.  The
\* issuer answers everything on its own, the holder what it has proposed.
CONSTANTS
  authority = authority
  holder = holder
  issuing = issuing
  proving = proving
  None = None
  Authority = authority
  Holder = holder
  Handlers = {h1}
  Callers = {c1}
  Threads = {issuing}
  ProtocolOf <- BothProtocols
  MaxThreads = 1
  RecordIds <- TwoRecords
  Contents = {x, y}
  AgentAuto <- IssuesAlone
  AutoOptions = {None}
  Calls <- HolderDeletes
  WithoutConnection = FALSE
  MaxCredentials = 2
  Faults = {"duplication"}
SPECIFICATION Spec
SYMMETRY Symmetry
CHECK_DEADLOCK FALSE
INVARIANTS
  OneExchangePerThread
  HeldAsRequested
  IssuedIsHeld
