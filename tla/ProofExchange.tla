------------------------------ MODULE ProofExchange ------------------------------
(***************************************************************************)
(* Present-proof 2.0 over a connection (V2ProofProtocol.ts, its handlers,  *)
(* ProofFormatCoordinator.ts, ProofsApi.ts): the authority verifies, the   *)
(* holder proves.  The formats are external: a presentation answers a      *)
(* content, and a format may call it valid only when that is the content   *)
(* that was requested.                                                     *)
(***************************************************************************)
EXTENDS ExchangeRecords

-------------------------------------------------------------------------------
(* Handlers *)

ReceiveProofProposal(a, h, m) ==
  /\ Delivers(a, h, m, "propose-presentation")
  /\ \/ Opens(a, h, m, "proposal-received")
     \/ Resumes(a, h, m, "request-sent", "proposal-received", "saveReceived")
  /\ UNCHANGED <<exchanges, stored, wallet, opened>>

ReceiveProofRequest(a, h, m) ==
  /\ Delivers(a, h, m, "request-presentation")
  /\ \/ Opens(a, h, m, "request-received")
     \/ Resumes(a, h, m, "proposal-sent", "request-received", "saveReceived")
  /\ UNCHANGED <<exchanges, stored, wallet, opened>>

\* Mutant: a presentation is also processed while a proposal is being answered.
AwaitsPresentation_Proposal == {"request-sent", "proposal-received"}

\* The states from which a presentation is processed.
AwaitsPresentation == {"request-sent"}

\* The formats' verdict on a presentation that answers c.
Verdicts(a, id, c) == {FALSE, ContentOf(a, id, "request-presentation") = c}

\* The presentation is saved and the exchange goes on whatever the verdict is.
ReceivePresentation(a, h, m) ==
  /\ Delivers(a, h, m, "presentation")
  /\ \E id \in Matching(a, m.thread), verdict \in BOOLEAN, before \in AwaitsPresentation :
       /\ id \in Expected(a, m, before)
       /\ Sole(a, id, "request-presentation")
       /\ verdict \in Verdicts(a, id, m.content)
       /\ Len(stored[a][id]["presentation"]) < 2
       /\ Continue(a, h, [pc |-> "saveReceived", id |-> id, new |-> FALSE,
                          ex |-> [exchanges[a][id] EXCEPT !.state = "presentation-received",
                                                          !.verified = verdict],
                          kind |-> m.kind, content |-> m.content,
                          found |-> Len(stored[a][id]["presentation"])])
  /\ UNCHANGED <<exchanges, stored, wallet, opened>>

ReceivePresentationAck(a, h, m) ==
  /\ Delivers(a, h, m, "presentation-ack")
  /\ \A id \in Matching(a, m.thread) :
       Sole(a, id, "request-presentation") /\ Sole(a, id, "presentation")
  /\ Resumes(a, h, m, "presentation-sent", "done", "updateReceived")
  /\ UNCHANGED <<exchanges, stored, wallet, opened>>

-------------------------------------------------------------------------------
(* Answers: what a handler or a call of the API sends next *)

\* A request that accepts the proposal asks for what is proposed; a presentation
\* that is made without the application answers what is requested.
ProofRequestFor(a, id) == ContentOf(a, id, "propose-presentation")
PresentationFor(a, id) == ContentOf(a, id, "request-presentation")

AcceptsProofProposal(a, id) ==
  Answer("request-sent", "request-presentation", ProofRequestFor(a, id))

\* negotiateProposal: a request of the verifier's own.
RequestsProof(c) == Answer("request-sent", "request-presentation", c)

Presents(c) == Answer("presentation-sent", "presentation", c)

ProposesProof(c) == Answer("proposal-sent", "propose-presentation", c)

AcceptsPresentation == Answer("done", "presentation-ack", None)

-------------------------------------------------------------------------------
(* Automatic answers *)

\* What the formats compare a message with, in "contentApproved" mode.
ComparedWith ==
  [propose |-> "request-presentation", request |-> "propose-presentation"]

Equal(a, k, kind) == Sole(a, k.id, kind) /\ ContentOf(a, k.id, kind) = k.content

\* shouldAutoRespondTo... of the message that has just been processed.  Whether a
\* format approves a presentation is up to the format; the code only asks that a
\* request has been sent.
ProofAnswers(a, k) ==
  LET mode == Mode(a, k.ex) IN
  CASE mode = "always" -> {TRUE}
    [] mode = "never"  -> {FALSE}
    [] OTHER ->
       CASE k.kind = "propose-presentation" -> {Equal(a, k, ComparedWith.propose)}
         [] k.kind = "request-presentation" -> {Equal(a, k, ComparedWith.request)}
         [] OTHER -> {FALSE, Sole(a, k.id, "request-presentation")}

\* The answer of V2ProposePresentation-, V2RequestPresentation- and
\* V2PresentationHandler.
AnswersProof(a, h) ==
  LET k == tasks[a][h]
  IN  /\ Sole(a, k.id, k.kind)
      /\ \/ /\ k.kind = "propose-presentation"
            /\ AnswersNext(a, h, AcceptsProofProposal(a, k.id))
         \/ /\ k.kind = "request-presentation"
            /\ AnswersNext(a, h, Presents(PresentationFor(a, k.id)))
         \/ /\ k.kind = "presentation"
            /\ AnswersNext(a, h, AcceptsPresentation)

DecideProof(a, h) ==
  LET k == tasks[a][h] IN
  /\ At(a, h, "decide") /\ ProtocolOf[k.ex.thread] = "present-proof"
  /\ \E answer \in ProofAnswers(a, k) :
       IF answer /\ Sole(a, k.id, k.kind) THEN AnswersProof(a, h) ELSE Finish(a, h)
  /\ UNCHANGED <<exchanges, stored, wallet, opened, net>>

-------------------------------------------------------------------------------
(* ProofsApi *)

ProposeProof(s, th) ==
  /\ ProtocolOf[th] = "present-proof"
  /\ StartsExchange(Holder, s, th, "propose-presentation", "proposal-sent", TRUE)

RequestProof(s, th) ==
  /\ ProtocolOf[th] = "present-proof"
  /\ StartsExchange(Authority, s, th, "request-presentation", "request-sent", TRUE)

AcceptProofProposal(a, s, id) ==
  /\ Sole(a, id, "propose-presentation")
  /\ AnswersByHand(a, s, id, "proposal-received", AcceptsProofProposal(a, id))

NegotiateProofProposal(a, s, id) ==
  /\ exchanges[a][id] # None /\ ProtocolOf[exchanges[a][id].thread] = "present-proof"
  /\ \E c \in Contents : AnswersByHand(a, s, id, "proposal-received", RequestsProof(c))

\* The credentials that the application selects may answer something else than
\* what is requested.
AcceptProofRequest(a, s, id) ==
  /\ Sole(a, id, "request-presentation")
  /\ \E c \in Contents : AnswersByHand(a, s, id, "request-received", Presents(c))

NegotiateProofRequest(a, s, id) ==
  /\ exchanges[a][id] # None /\ ProtocolOf[exchanges[a][id].thread] = "present-proof"
  /\ \E c \in Contents : AnswersByHand(a, s, id, "request-received", ProposesProof(c))

AcceptPresentation(a, s, id) ==
  /\ Sole(a, id, "presentation")
  /\ AnswersByHand(a, s, id, "presentation-received", AcceptsPresentation)

\* With sendProblemReport the verifier is told first.
DeclineRequest(a, s, id) ==
  /\ "decline" \in Calls[a]
  /\ s \in Callers /\ At(a, s, "idle")
  /\ exchanges[a][id] # None /\ exchanges[a][id].state = "request-received"
  /\ ProtocolOf[exchanges[a][id].thread] = "present-proof"
  /\ ByHand(a, id)
  /\ \/ UNCHANGED net
     \/ Reports(a, id)
  /\ Continue(a, s, [Idle EXCEPT !.pc = "updateOnly", !.id = id,
                     !.ex = [exchanges[a][id] EXCEPT !.state = "declined"]])
  /\ UNCHANGED <<exchanges, stored, wallet, opened>>

-------------------------------------------------------------------------------
ProofNext ==
  \/ \E a \in Agents, h \in Handlers :
       \/ \E m \in net :
            \/ ReceiveProofProposal(a, h, m) \/ ReceiveProofRequest(a, h, m)
            \/ ReceivePresentation(a, h, m)  \/ ReceivePresentationAck(a, h, m)
       \/ DecideProof(a, h)
  \/ \E s \in Callers, th \in Threads : ProposeProof(s, th) \/ RequestProof(s, th)
  \/ \E a \in Agents, s \in Callers, id \in RecordIds :
       \/ AcceptProofProposal(a, s, id) \/ NegotiateProofProposal(a, s, id)
       \/ AcceptProofRequest(a, s, id)  \/ NegotiateProofRequest(a, s, id)
       \/ AcceptPresentation(a, s, id)  \/ DeclineRequest(a, s, id)
================================================================================
