-------------------------------- MODULE Exchanges --------------------------------
(***************************************************************************)
(* Credential and proof exchanges between two agents, with what both       *)
(* protocols share (problem reports, deletion) and the crashes of the      *)
(* environment.                                                            *)
(***************************************************************************)
EXTENDS CredentialExchange, ProofExchange

-------------------------------------------------------------------------------
(* Problem reports *)

\* sendProblemReport tells the other party and leaves the sender's exchange alone.
SendProblemReport(a, s, id) ==
  /\ "problem-report" \in Calls[a]
  /\ s \in Callers /\ At(a, s, "idle")
  /\ exchanges[a][id] # None
  /\ Reports(a, id)
  /\ UNCHANGED <<exchanges, stored, wallet, opened, tasks>>

\* processProblemReport abandons the exchange, whatever its state is.
ReceiveProblemReport(a, h, m) ==
  /\ Delivers(a, h, m, "problem-report")
  /\ \E id \in RecordIds :
       /\ Matching(a, m.thread) = {id}
       /\ Continue(a, h, [Idle EXCEPT !.pc = "updateOnly", !.id = id,
                          !.ex = [exchanges[a][id] EXCEPT !.state = "abandoned"]])
  /\ UNCHANGED <<exchanges, stored, wallet, opened>>

-------------------------------------------------------------------------------
(* Deletion and crashes *)

\* delete: the record, then the credentials that it refers to, which the JSON-LD
\* format cannot delete: it throws, and the messages stay.  Proof records refer to
\* none.
DeleteExchange(a, s, id) ==
  /\ "delete" \in Calls[a]
  /\ s \in Callers /\ At(a, s, "idle")
  /\ exchanges[a][id] # None
  /\ exchanges' = [exchanges EXCEPT ![a][id] = None]
  /\ IF exchanges[a][id].credentials = {}
       THEN Continue(a, s, [Idle EXCEPT !.pc = "deleteMessages", !.id = id])
       ELSE UNCHANGED tasks
  /\ UNCHANGED <<stored, wallet, opened, net>>

\* The process stops and is started again: storage survives, tasks do not.
Crash(a) ==
  /\ "crash" \in Faults
  /\ \E t \in Slots : tasks[a][t] # Idle
  /\ tasks' = [tasks EXCEPT ![a] = [t \in Slots |-> Idle]]
  /\ UNCHANGED <<exchanges, stored, wallet, opened, net>>

-------------------------------------------------------------------------------
Next ==
  \/ CredentialNext
  \/ ProofNext
  \/ WriteNext
  \/ \E a \in Agents, s \in Callers, id \in RecordIds :
       SendProblemReport(a, s, id) \/ DeleteExchange(a, s, id)
  \/ \E a \in Agents, h \in Handlers : \E m \in net : ReceiveProblemReport(a, h, m)
  \/ \E a \in Agents : Crash(a)

Spec == Init /\ [][Next]_vars
================================================================================
