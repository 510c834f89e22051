\* An authority and a holder run one exchange of either protocol, by hand, fully
\* automatically or with approved content, while messages are duplicated and
\* processes crash.
CONSTANTS
  authority = authority
  holder = holder
  issuing = issuing
  proving = proving
  None = None
  Authority = authority
  Holder = holder
  Handlers = {h1}
  Callers = {c1}
  Threads = {issuing, proving}
  ProtocolOf <- BothProtocols
  MaxThreads = 1
  RecordIds <- OneRecord
  Contents = {x, y}
  AgentAuto <- ApprovedContent
  AutoOptions = {None}
  Calls <- EveryCallButDelete
  WithoutConnection = FALSE
  MaxCredentials = 2
  Faults = {"duplication", "crash"}
SPECIFICATION Spec
SYMMETRY Symmetry
CHECK_DEADLOCK FALSE
INVARIANTS
  TypeOK
  OneMessagePerKind
  AutomaticAnswersAreApproved
  IssuedIsHeld
  VerifiedAnswersRequest
PROPERTIES
  StatesFollowProtocol
