--------------------------- MODULE HandshakeContract ---------------------------
(***************************************************************************)
(* What a handshake promises, whichever protocol carries it out: every     *)
(* request (a thread) ties one end at the invitee to at most one end at    *)
(* the inviter.  The ends swap DIDs and agree on them before either is     *)
(* complete, and the inviter's end is the last to be complete.  Nothing is *)
(* said about messages, records of DIDs, invitations or tasks.             *)
(***************************************************************************)

CONSTANTS Requests, Dids, NoDid

VARIABLES requester, responder    \* the two ends of every request

NoEnd == [state |-> "none", ours |-> NoDid, theirs |-> NoDid]

\* Each end chooses its DID when it first speaks.
Ask(q) ==
  /\ requester[q] = NoEnd
  /\ requester'[q].ours \in Dids
  /\ requester' = [requester EXCEPT ![q] =
       [NoEnd EXCEPT !.state = "request-sent", !.ours = requester'[q].ours]]
  /\ UNCHANGED responder

Receive(q) ==
  /\ responder[q] = NoEnd /\ requester[q] # NoEnd
  /\ responder' = [responder EXCEPT ![q] =
       [NoEnd EXCEPT !.state = "request-received", !.theirs = requester[q].ours]]
  /\ UNCHANGED requester

Answer(q) ==
  /\ responder[q].state = "request-received"
  /\ responder'[q].ours \in Dids
  /\ responder' = [responder EXCEPT ![q].state = "response-sent",
                                    ![q].ours = responder'[q].ours]
  /\ UNCHANGED requester

\* Only an answer that the responder stands by is accepted.
Learn(q) ==
  /\ requester[q].state = "request-sent"
  /\ responder[q].state \in {"response-sent", "abandoned"} /\ responder[q].ours # NoDid
  /\ requester' = [requester EXCEPT ![q].state = "response-received",
                                    ![q].theirs = responder[q].ours]
  /\ UNCHANGED responder

RequesterCompletes(q) ==
  /\ requester[q].state = "response-received"
  /\ requester' = [requester EXCEPT ![q].state = "completed"]
  /\ UNCHANGED responder

ResponderCompletes(q) ==
  /\ responder[q].state = "response-sent"
  /\ requester[q].state \in {"completed", "abandoned"}
  /\ responder' = [responder EXCEPT ![q].state = "completed"]
  /\ UNCHANGED requester

\* An end that knows its peer can be given up; that is final.
RequesterAbandons(q) ==
  /\ requester[q].theirs # NoDid
  /\ requester' = [requester EXCEPT ![q].state = "abandoned"]
  /\ UNCHANGED responder

ResponderAbandons(q) ==
  /\ responder[q].ours # NoDid
  /\ responder' = [responder EXCEPT ![q].state = "abandoned"]
  /\ UNCHANGED requester

ContractInit ==
  /\ requester = [q \in Requests |-> NoEnd]
  /\ responder = [q \in Requests |-> NoEnd]

ContractNext ==
  \E q \in Requests :
    \/ Ask(q)                \/ Receive(q)
    \/ Answer(q)             \/ Learn(q)
    \/ RequesterCompletes(q) \/ ResponderCompletes(q)
    \/ RequesterAbandons(q)  \/ ResponderAbandons(q)

ContractSpec == ContractInit /\ [][ContractNext]_<<requester, responder>>
===============================================================================
