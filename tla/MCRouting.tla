------------------------------- MODULE MCRouting -------------------------------
(***************************************************************************)
(* Instances of mediation, pickup and the message pipeline for TLC.  The   *)
(* three share no state here: a behaviour runs one of them, the part it    *)
(* starts with, and the others stay where they were.                       *)
(***************************************************************************)
EXTENDS Mediation, MessagePickup, MessagePipeline, TLC

CONSTANTS alice, bob

VARIABLE part  \* the component that runs

routingVars == <<part, mediationVars, pickupVars, pipelineVars>>

RoutingInit ==
  /\ part \in {"mediation", "pickup", "pipeline"}
  /\ MediationInit /\ PickupInit /\ PipelineInit
  /\ part # "pickup" => strategy = "PickUpV2"

MediationRuns ==
  /\ part = "mediation" /\ MediationNext
  /\ UNCHANGED <<part, pickupVars, pipelineVars>>

PickupRuns ==
  /\ part = "pickup" /\ PickupNext
  /\ UNCHANGED <<part, mediationVars, pipelineVars>>

PipelineRuns ==
  /\ part = "pipeline" /\ PipelineNext
  /\ UNCHANGED <<part, mediationVars, pickupVars>>

RoutingNext == MediationRuns \/ PickupRuns \/ PipelineRuns

\* Pickup runs alone in its part, so its fairness is that of its own actions.
RoutingSpec ==
  RoutingInit /\ [][RoutingNext]_routingVars /\ (part = "pickup" => PickupFairness)

-------------------------------------------------------------------------------
(* Instances *)

OneToTwo == 1 .. 2

MessageOf(envelope, party, ready, known, report, returnRoute) ==
  [envelope |-> envelope, party |-> party, ready |-> ready, known |-> known,
   report |-> report, returnRoute |-> returnRoute]

\* One message for each way through the receiver, the dispatcher and the sender.
ArrivingKinds ==
  {MessageOf("authenticated", alice, TRUE, TRUE, FALSE, TRUE),
   MessageOf("authenticated", bob, TRUE, TRUE, FALSE, TRUE),
   MessageOf("authenticated", alice, FALSE, TRUE, FALSE, TRUE),
   MessageOf("authenticated", bob, TRUE, TRUE, FALSE, FALSE),
   MessageOf("authenticated", alice, TRUE, FALSE, FALSE, TRUE),
   MessageOf("authenticated", alice, TRUE, FALSE, TRUE, TRUE),
   MessageOf("anonymous", alice, FALSE, TRUE, FALSE, FALSE),
   MessageOf("none", alice, FALSE, TRUE, FALSE, FALSE)}

\* Alice has two endpoints, of which the agent has a transport for one; Bob is
\* behind a queue.
PartyServices ==
  [p \in Parties |-> IF p = alice THEN <<"ws", "http">> ELSE <<QueueScheme>>]
================================================================================
