------------------------ MODULE DidExchangeStateMachine ------------------------
(***************************************************************************)
(* The rule tables of DidExchangeStateMachine.ts: in which state and role  *)
(* a connection record must be for a DID exchange message to be created or *)
(* processed, and the state it moves to.  Pure definitions.                *)
(***************************************************************************)

Rule(message, state, role, next) ==
  [message |-> message, state |-> state, role |-> role, nextState |-> next]

\* Mutant: the requester is complete in a state the enumeration does not have.
CreateMessageRules_UnknownState == {
  Rule("dx-request",  "invitation-received", "requester", "request-sent"),
  Rule("dx-response", "request-received",    "responder", "response-sent"),
  Rule("dx-complete", "response-received",   "requester", "done")}

CreateMessageRules == {
  Rule("dx-request",  "invitation-received", "requester", "request-sent"),
  Rule("dx-response", "request-received",    "responder", "response-sent"),
  Rule("dx-complete", "response-received",   "requester", "completed")}

\* Mutant: dx-complete is expected by the wrong role.
ProcessMessageRules_WrongRole == {
  Rule("dx-request",  "invitation-sent", "responder", "request-received"),
  Rule("dx-response", "request-sent",    "requester", "response-received"),
  Rule("dx-complete", "response-sent",   "requester", "completed")}

ProcessMessageRules == {
  Rule("dx-request",  "invitation-sent", "responder", "request-received"),
  Rule("dx-response", "request-sent",    "requester", "response-received"),
  Rule("dx-complete", "response-sent",   "responder", "completed")}

\* assertCreateMessageState and assertProcessMessageState do not throw
CanCreate(message, r) ==
  \E rule \in CreateMessageRules :
    rule.message = message /\ rule.state = r.state /\ rule.role = r.role

CanProcess(message, r) ==
  \E rule \in ProcessMessageRules :
    rule.message = message /\ rule.state = r.state /\ rule.role = r.role

\* nextState looks only at the message and the role, never at the state
NextState(message, r) ==
  (CHOOSE rule \in CreateMessageRules \cup ProcessMessageRules :
     rule.message = message /\ rule.role = r.role).nextState
===============================================================================
