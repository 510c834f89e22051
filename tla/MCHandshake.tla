------------------------------ MODULE MCHandshake ------------------------------
(***************************************************************************)
(* Instances of the handshake for TLC.  alice creates the invitations; bob *)
(* and carol receive them.                                                 *)
(***************************************************************************)
EXTENDS HandshakeProperties

CONSTANTS alice, bob, carol, first, second

OwnedByAlice == [i \in Invitations |-> alice]

MultiUse  == [i \in Invitations |-> TRUE]
SingleUse == [i \in Invitations |-> FALSE]

\* The first invitation can be used by many, the second by one.
FirstMultiUse == [i \in Invitations |-> i = first]

OneKeyEach == [i \in Invitations |-> IF i = first THEN 1 ELSE 2]
SharedKey  == [i \in Invitations |-> 1]

ByDidExchange == [i \in Invitations |-> "did-exchange"]
ByConnections == [i \in Invitations |-> "connections"]

\* The first invitation leads to DID exchange, the second to the connection protocol.
OneOfEach == [i \in Invitations |-> IF i = first THEN "did-exchange" ELSE "connections"]

SeenByBoth == [i \in Invitations |-> {bob, carol}]
SeenByBob  == [i \in Invitations |-> {bob}]

OneId  == 1 .. 1
TwoIds == 1 .. 2
===============================================================================
