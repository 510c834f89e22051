----------------------------- MODULE AgentLifecycle ----------------------------
(***************************************************************************)
(* How an agent comes up and goes down: its constructor, initialize with   *)
(* the wallet, the storage version, the modules and the transports, and    *)
(* shutdown.  Calls of initialize and shutdown may overlap, any step may   *)
(* throw, a call may be made again, and the process may crash.             *)
(*                                                                         *)
(* The update of the storage is a step that works or fails (StorageUpdates *)
(* has its details); mediation is a step as well.                          *)
(***************************************************************************)
EXTENDS Naturals, Sequences, FiniteSets, SequencesExt

CONSTANTS
  AgentCallers,        \* calls of the API that can be under way at once
  GivenModules,        \* keys of the modules given to the constructor
  DefaultModules,      \* keys of the modules an agent has by default
  InitializingModules, \* those with an initialize method
  InboundTransports, AgentTransports,  \* inbound and outbound transports
  MaxAgentCalls, MaxAgentCrashes       \* bounds: calls and crashes

ASSUME AgentAssumption ==
  /\ IsFiniteSet(GivenModules) /\ IsFiniteSet(DefaultModules)
  /\ IsFiniteSet(InboundTransports) /\ IsFiniteSet(AgentTransports)

VARIABLES
  walletFile,     \* storage version of the wallet on disk, "none" without a record of it,
                  \* "missing" when there is no wallet
  walletOpen,     \* wallet.isInitialized
  walletConfig,   \* agentConfig.walletConfig is set
  autoUpdate,     \* autoUpdateStorageOnStartup
  isInitialized,  \* _isInitialized
  subscribed,     \* messageSubscription listens
  running,        \* modules that are initialized and transports that run
  agentCalls,     \* agentCalls[c]: how far the call of c is, see AgentCall
  undisturbed,    \* no two calls have overlapped, no shutdown has failed
  wasShutDown,    \* a shutdown has begun
  agentCallCount, agentCrashes

agentVars == <<walletFile, walletOpen, walletConfig, autoUpdate, isInitialized, subscribed,
               running, agentCalls, undisturbed, wasShutDown, agentCallCount, agentCrashes>>

-------------------------------------------------------------------------------
(* What there is to start *)

\* extendModulesWithDefaultModules: a given module replaces the default one of its key.
Modules == GivenModules \cup (DefaultModules \ GivenModules)

\* What initialize starts after the wallet, in its order.
StartUp ==
  SetToSeq(Modules \cap InitializingModules) \o SetToSeq(InboundTransports)
    \o SetToSeq(AgentTransports) \o <<"provision", "mediator", "mediationRecipient">>

Transports == InboundTransports \cup AgentTransports

\* stage: where a call is.  next: what it starts next.
AgentCall(stage, next) == [stage |-> stage, next |-> next]

NotCalled == AgentCall("none", 1)

At(c, stage) == agentCalls[c].stage = stage

Proceed(c, stage) == agentCalls' = [agentCalls EXCEPT ![c] = AgentCall(stage, 1)]

Return(c) == agentCalls' = [agentCalls EXCEPT ![c] = NotCalled]

\* The getter that the API and the update assistant look at.
IsInitialized == isInitialized /\ walletOpen

Calls(c) ==
  /\ At(c, "none") /\ agentCallCount < MaxAgentCalls
  /\ agentCallCount' = agentCallCount + 1
  /\ undisturbed' = (undisturbed /\ \A d \in AgentCallers : At(d, "none"))

-------------------------------------------------------------------------------
(* BaseAgent.initialize and the wallet *)

\* Mutant: the storage is looked at only after this call has opened the wallet.
Initialize_OpenedOnly(c) ==
  /\ Calls(c)
  /\ \/ /\ ~isInitialized
        /\ \/ walletOpen /\ Proceed(c, "start")
           \/ ~walletOpen /\ walletConfig /\ Proceed(c, "open")
           \/ ~walletOpen /\ ~walletConfig /\ Return(c)
     \/ isInitialized /\ Return(c)
  /\ UNCHANGED <<walletFile, walletOpen, walletConfig, autoUpdate, isInitialized, subscribed,
                 running, wasShutDown, agentCrashes>>

\* An agent that is initialized throws, also when its wallet has been closed since.  A
\* wallet that is open already stays as it is.
Initialize(c) ==
  /\ Calls(c)
  /\ \/ /\ ~isInitialized
        /\ \/ walletOpen /\ Proceed(c, "version")
           \/ ~walletOpen /\ walletConfig /\ Proceed(c, "open")
           \/ ~walletOpen /\ ~walletConfig /\ Return(c)
     \/ isInitialized /\ Return(c)
  /\ UNCHANGED <<walletFile, walletOpen, walletConfig, autoUpdate, isInitialized, subscribed,
                 running, wasShutDown, agentCrashes>>

\* WalletApi.open and create, called without an agent that initializes.
OpenWallet(c) ==
  /\ Calls(c) /\ ~walletOpen
  /\ IF walletFile = "missing" THEN Proceed(c, "create only") ELSE Proceed(c, "open only")
  /\ UNCHANGED <<walletFile, walletOpen, walletConfig, autoUpdate, isInitialized, subscribed,
                 running, wasShutDown, agentCrashes>>

\* WalletApi.initialize: open, and createAndOpen when there is no wallet.
Open(c) ==
  /\ At(c, "open") \/ At(c, "open only")
  /\ ~walletOpen
  /\ IF walletFile = "missing"
       THEN Proceed(c, "create") /\ UNCHANGED walletOpen
       ELSE /\ walletOpen' = TRUE
            /\ IF At(c, "open") THEN Proceed(c, "version") ELSE Return(c)
  /\ UNCHANGED <<walletFile, walletConfig, autoUpdate, isInitialized, subscribed, running,
                 undisturbed, wasShutDown, agentCallCount, agentCrashes>>

Create(c) ==
  /\ At(c, "create") \/ At(c, "create only")
  /\ walletFile = "missing" /\ ~walletOpen
  /\ walletFile' = "none" /\ walletOpen' = TRUE
  /\ Proceed(c, IF At(c, "create") THEN "set version" ELSE "set version only")
  /\ UNCHANGED <<walletConfig, autoUpdate, isInitialized, subscribed, running, undisturbed,
                 wasShutDown, agentCallCount, agentCrashes>>

\* A new wallet has the current storage version.  WalletApi.create closes it again.
SetStorageVersion(c) ==
  /\ walletOpen
  /\ walletFile' = "current"
  /\ \/ At(c, "set version") /\ Proceed(c, "version") /\ UNCHANGED walletOpen
     \/ At(c, "set version only") /\ Return(c) /\ walletOpen' \in BOOLEAN
  /\ UNCHANGED <<walletConfig, autoUpdate, isInitialized, subscribed, running, undisturbed,
                 wasShutDown, agentCallCount, agentCrashes>>

\* Storage that is not up to date is updated, or else the wallet is closed.
CheckStorageVersion(c) ==
  /\ At(c, "version") /\ walletOpen
  /\ Proceed(c, IF walletFile = "current" THEN "start"
                ELSE IF autoUpdate THEN "update" ELSE "close")
  /\ UNCHANGED <<walletFile, walletOpen, walletConfig, autoUpdate, isInitialized, subscribed,
                 running, undisturbed, wasShutDown, agentCallCount, agentCrashes>>

\* The assistant refuses to update under an agent that is initialized, and reopens a
\* wallet that was closed meanwhile.
UpdateStorage(c) ==
  /\ At(c, "update") /\ ~IsInitialized
  /\ walletOpen \/ walletConfig
  /\ walletOpen' = TRUE
  /\ walletFile' = "current"
  /\ Proceed(c, "start")
  /\ UNCHANGED <<walletConfig, autoUpdate, isInitialized, subscribed, running, undisturbed,
                 wasShutDown, agentCallCount, agentCrashes>>

CloseWallet(c) ==
  /\ At(c, "close")
  /\ walletOpen' = FALSE
  /\ Return(c)
  /\ UNCHANGED <<walletFile, walletConfig, autoUpdate, isInitialized, subscribed, running,
                 undisturbed, wasShutDown, agentCallCount, agentCrashes>>

-------------------------------------------------------------------------------
(* Agent.initialize *)

\* Modules, inbound transports, outbound transports and mediation, one after another.
StartNext(c) ==
  LET k == agentCalls[c].next IN
  /\ At(c, "start") /\ k <= Len(StartUp)
  /\ running' = running \cup {StartUp[k]}
  /\ agentCalls' = [agentCalls EXCEPT ![c].next = k + 1]
  /\ UNCHANGED <<walletFile, walletOpen, walletConfig, autoUpdate, isInitialized, subscribed,
                 undisturbed, wasShutDown, agentCallCount, agentCrashes>>

FinishInitialize(c) ==
  /\ At(c, "start") /\ agentCalls[c].next > Len(StartUp)
  /\ isInitialized' = TRUE
  /\ Return(c)
  /\ UNCHANGED <<walletFile, walletOpen, walletConfig, autoUpdate, subscribed, running,
                 undisturbed, wasShutDown, agentCallCount, agentCrashes>>

\* Any step may throw; what was opened or started stays so, and an update that failed
\* has restored the storage.
InitializeThrows(c) ==
  /\ agentCalls[c].stage \notin {"none", "stop", "stop wallet"}
  /\ Return(c)
  /\ UNCHANGED <<walletFile, walletOpen, walletConfig, autoUpdate, isInitialized, subscribed,
                 running, undisturbed, wasShutDown, agentCallCount, agentCrashes>>

-------------------------------------------------------------------------------
(* Agent.shutdown *)

\* stop$ ends the subscription for good: it is made in the constructor.
Shutdown(c) ==
  /\ Calls(c)
  /\ subscribed' = FALSE /\ wasShutDown' = TRUE
  /\ Proceed(c, "stop")
  /\ UNCHANGED <<walletFile, walletOpen, walletConfig, autoUpdate, isInitialized, running,
                 agentCrashes>>

\* All transports are told to stop; if one cannot, shutdown ends there.
StopTransports(c) ==
  /\ At(c, "stop")
  /\ \/ running' = running \ Transports /\ Proceed(c, "stop wallet") /\ UNCHANGED undisturbed
     \/ /\ \E stuck \in SUBSET (running \cap Transports) :
             stuck # {} /\ running' = (running \ Transports) \cup stuck
        /\ undisturbed' = FALSE
        /\ Return(c)
  /\ UNCHANGED <<walletFile, walletOpen, walletConfig, autoUpdate, isInitialized, subscribed,
                 wasShutDown, agentCallCount, agentCrashes>>

StopWallet(c) ==
  /\ At(c, "stop wallet")
  /\ \/ walletOpen' = FALSE /\ isInitialized' = FALSE /\ UNCHANGED undisturbed
     \/ walletOpen /\ undisturbed' = FALSE /\ UNCHANGED <<walletOpen, isInitialized>>
  /\ Return(c)
  /\ UNCHANGED <<walletFile, walletConfig, autoUpdate, subscribed, running, wasShutDown,
                 agentCallCount, agentCrashes>>

-------------------------------------------------------------------------------
\* The agent after its constructor.
AgentInit ==
  /\ walletFile \in {"missing", "none", "old", "current"}
  /\ walletConfig \in BOOLEAN /\ autoUpdate \in BOOLEAN
  /\ walletOpen = FALSE
  /\ isInitialized = FALSE
  /\ subscribed = TRUE
  /\ running = {}
  /\ agentCalls = [c \in AgentCallers |-> NotCalled]
  /\ undisturbed = TRUE
  /\ wasShutDown = FALSE
  /\ agentCallCount = 0 /\ agentCrashes = 0

\* A new process constructs the agent again.
CrashAgent ==
  /\ agentCrashes < MaxAgentCrashes
  /\ walletOpen' = FALSE
  /\ isInitialized' = FALSE
  /\ subscribed' = TRUE
  /\ running' = {}
  /\ agentCalls' = [c \in AgentCallers |-> NotCalled]
  /\ undisturbed' = TRUE
  /\ wasShutDown' = FALSE
  /\ agentCrashes' = agentCrashes + 1
  /\ UNCHANGED <<walletFile, walletConfig, autoUpdate, agentCallCount>>

AgentNext ==
  \/ \E c \in AgentCallers :
       \/ Initialize(c) \/ OpenWallet(c) \/ Open(c) \/ Create(c) \/ SetStorageVersion(c)
       \/ CheckStorageVersion(c) \/ UpdateStorage(c) \/ CloseWallet(c)
       \/ StartNext(c) \/ FinishInitialize(c) \/ InitializeThrows(c)
       \/ Shutdown(c) \/ StopTransports(c) \/ StopWallet(c)
  \/ CrashAgent

AgentSpec == AgentInit /\ [][AgentNext]_agentVars

-------------------------------------------------------------------------------
(* Properties *)

ShuttingDown == \E c \in AgentCallers : agentCalls[c].stage \in {"stop", "stop wallet"}

\* However often initialize is tried and whatever fails, an agent that says it is
\* initialized works on storage of the current version; and it has everything started,
\* unless calls overlapped, a shutdown failed or one is under way.  It listens to
\* messages, unless it was shut down before.
InitializedAgentIsReady ==
  IsInitialized =>
    /\ walletFile = "current"
    /\ undisturbed /\ ~ShuttingDown => /\ ToSet(StartUp) \subseteq running
                                       /\ subscribed \/ wasShutDown
================================================================================
