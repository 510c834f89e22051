\* The services of an agent: wallets of three old versions, two callers of the cache and
\* of the agent, two calls to the DID registrar at once, a signer whose keys change.
CONSTANTS
  Unset = Unset
  LegacyWallets <- OldWallets
  RoleStrategy = "recipientIfEndpoint"
  MaxUpdates = 2
  MaxUpdateCrashes = 1
  Null = Null
  CacheCallers = {c1, c2}
  CacheKeys = {k1, k2}
  CacheValues = {v1, v2}
  CacheContexts = {x1, x2}
  Limits <- OneToTwo
  MaxCacheCalls = 3
  MaxRestarts = 1
  AgentCallers = {a1, a2}
  GivenModules = {"dids"}
  DefaultModules = {"dids", "connections"}
  InitializingModules = {"dids"}
  InboundTransports = {"http"}
  AgentTransports = {"ws"}
  MaxAgentCalls = 4
  MaxAgentCrashes = 1
  Missing = Missing
  DidCallers = {d1, d2}
  CreateOptions <- DidCreations
  ImportOptions <- DidImports
  WebDocuments <- ResolvableDocuments
  WalletKeyTypes = {"ed25519", "p256", "bls12381g1g2"}
  MaxDidCalls = 3
  Credentials <- GivenCredentials
  SignerDids <- Signers
  DocumentsOf <- SignerDocuments
  WalletKeysW3c <- SigningKeys
  Challenges <- Verifications
  Skew = 1
  MaxCredentials = 1
  MaxPresentations = 1
  MaxTime = 4
SYMMETRY CacheSymmetry
INIT ServicesInit
NEXT ServicesNext
CHECK_DEADLOCK FALSE
INVARIANTS
  OriginalIsKept
  VersionMatchesData
  MigratedRecordsAreWhole
  HitsAreCurrent
  InitializedAgentIsReady
  StoredDidsResolve
  VerifiedIsSigned
  SignedCredentialsVerify
