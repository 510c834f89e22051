--------------------------- MODULE CredentialExchange ---------------------------
(***************************************************************************)
(* Issue-credential 2.0 over a connection (V2CredentialProtocol.ts, its    *)
(* handlers, CredentialFormatCoordinator.ts, CredentialsApi.ts) with the   *)
(* JSON-LD format (JsonLdCredentialFormatService.ts): what is proposed,    *)
(* offered, requested and issued is a content, and the answer to a message *)
(* carries the content of the message unless the parties negotiate.        *)
(***************************************************************************)
EXTENDS ExchangeRecords

-------------------------------------------------------------------------------
(* Handlers *)

ReceiveProposal(a, h, m) ==
  /\ Delivers(a, h, m, "propose-credential")
  /\ \/ Opens(a, h, m, "proposal-received")
     \/ Resumes(a, h, m, "offer-sent", "proposal-received", "saveReceived")
  /\ UNCHANGED <<exchanges, stored, wallet, opened>>

ReceiveOffer(a, h, m) ==
  /\ Delivers(a, h, m, "offer-credential")
  /\ \/ Opens(a, h, m, "offer-received")
     \/ Resumes(a, h, m, "proposal-sent", "offer-received", "saveReceived")
  /\ UNCHANGED <<exchanges, stored, wallet, opened>>

ReceiveRequest(a, h, m) ==
  /\ Delivers(a, h, m, "request-credential")
  /\ \/ Opens(a, h, m, "request-received")
     \/ Resumes(a, h, m, "offer-sent", "request-received", "saveReceived")
  /\ UNCHANGED <<exchanges, stored, wallet, opened>>

\* Mutant: the credential is not compared with the request.
MatchesRequest_Unchecked(a, m) ==
  \E id \in Matching(a, m.thread) : Sole(a, id, "request-credential")

\* verifyReceivedCredentialMatchesRequest, with the request saved with the exchange.
MatchesRequest(a, m) ==
  \E id \in Matching(a, m.thread) :
    /\ Sole(a, id, "request-credential")
    /\ ContentOf(a, id, "request-credential") = m.content

\* Mutant: the credential is not given to the wallet.
ReceiveCredential_NotStored(a, h, m) ==
  /\ Delivers(a, h, m, "issue-credential") /\ MatchesRequest(a, m)
  /\ Resumes(a, h, m, "request-sent", "credential-received", "saveReceived")
  /\ UNCHANGED <<exchanges, stored, wallet, opened>>

ReceiveCredential(a, h, m) ==
  /\ Delivers(a, h, m, "issue-credential") /\ MatchesRequest(a, m)
  /\ Resumes(a, h, m, "request-sent", "credential-received", "storeCredential")
  /\ UNCHANGED <<exchanges, stored, wallet, opened>>

\* processCredential of the format: the credential goes to the wallet before the
\* message and the record are saved.
StoreCredential(a, h) ==
  LET k == tasks[a][h]
      n == Len(wallet[a]) + 1
  IN  /\ At(a, h, "storeCredential") /\ n <= MaxCredentials
      /\ wallet' = [wallet EXCEPT ![a] = Append(@, k.content)]
      /\ Continue(a, h, [k EXCEPT !.pc = "saveReceived",
                                  !.ex.credentials = @ \cup {n}])
      /\ UNCHANGED <<exchanges, stored, opened, net>>

ReceiveCredentialAck(a, h, m) ==
  /\ Delivers(a, h, m, "credential-ack")
  /\ \A id \in Matching(a, m.thread) :
       Sole(a, id, "request-credential") /\ Sole(a, id, "issue-credential")
  /\ Resumes(a, h, m, "credential-issued", "done", "updateReceived")
  /\ UNCHANGED <<exchanges, stored, wallet, opened>>

-------------------------------------------------------------------------------
(* Answers: what a handler or a call of the API sends next *)

\* What an offer carries that accepts the proposal, and so on: the content of the
\* message that is answered.
OfferFor(a, id)      == ContentOf(a, id, "propose-credential")
RequestFor(a, id)    == ContentOf(a, id, "offer-credential")
CredentialFor(a, id) == ContentOf(a, id, "request-credential")

\* acceptProposal and negotiateProposal differ in the content offered.
Offers(c) == Answer("offer-sent", "offer-credential", c)

AcceptsOffer(a, id) == Answer("request-sent", "request-credential", RequestFor(a, id))

Proposes(c) == Answer("proposal-sent", "propose-credential", c)

AcceptsRequest(a, id) == Answer("credential-issued", "issue-credential", CredentialFor(a, id))

AcceptsCredential == Answer("done", "credential-ack", None)

-------------------------------------------------------------------------------
(* Automatic answers *)

SameContent(a, k, kind) ==
  Sole(a, k.id, kind) /\ ContentOf(a, k.id, kind) = k.content

\* Messages that carry a preview of attributes: the JSON-LD format gives none, and
\* an offer gets a blank one.
Previewed == {"offer-credential"}

\* When a proposal or the offer before it has a preview, both must.
RespondsToProposal(a, k) ==
  /\ SameContent(a, k, "offer-credential")
  /\ {"propose-credential", "offer-credential"} \cap Previewed # {} =>
       {"propose-credential", "offer-credential"} \subseteq Previewed

\* A missing preview counts as a blank one here.
RespondsToOffer(a, k) == SameContent(a, k, "propose-credential")

\* Mutant: the request is taken as approved when an offer has been made.
RespondsToRequest_AnyContent(a, k) == Sole(a, k.id, "offer-credential")

RespondsToRequest(a, k) == SameContent(a, k, "offer-credential")

RespondsToCredential(a, k) == SameContent(a, k, "request-credential")

\* shouldAutoRespondTo... of the message that has just been processed.
RespondsAlone(a, k) ==
  LET mode == Mode(a, k.ex) IN
  \/ mode = "always"
  \/ /\ mode = "contentApproved"
     /\ \/ k.kind = "propose-credential" /\ RespondsToProposal(a, k)
        \/ k.kind = "offer-credential"   /\ RespondsToOffer(a, k)
        \/ k.kind = "request-credential" /\ RespondsToRequest(a, k)
        \/ k.kind = "issue-credential"   /\ RespondsToCredential(a, k)

\* The answer of V2Propose-, V2Offer-, V2Request- and V2IssueCredentialHandler: it
\* is made from the message saved with the exchange.
AnswersReceived(a, h) ==
  LET k == tasks[a][h]
  IN  /\ Sole(a, k.id, k.kind)
      /\ \/ /\ k.kind = "propose-credential"
            /\ AnswersNext(a, h, Offers(OfferFor(a, k.id)))
         \/ /\ k.kind = "offer-credential"
            /\ AnswersNext(a, h, AcceptsOffer(a, k.id))
         \/ /\ k.kind = "request-credential"
            /\ AnswersNext(a, h, AcceptsRequest(a, k.id))
         \/ /\ k.kind = "issue-credential"
            /\ AnswersNext(a, h, AcceptsCredential)

DecideCredential(a, h) ==
  LET k == tasks[a][h] IN
  /\ At(a, h, "decide") /\ ProtocolOf[k.ex.thread] = "issue-credential"
  /\ IF RespondsAlone(a, k) /\ Sole(a, k.id, k.kind)
       THEN AnswersReceived(a, h) ELSE Finish(a, h)
  /\ UNCHANGED <<exchanges, stored, wallet, opened, net>>

-------------------------------------------------------------------------------
(* CredentialsApi *)

ProposeCredential(s, th) ==
  /\ ProtocolOf[th] = "issue-credential"
  /\ StartsExchange(Holder, s, th, "propose-credential", "proposal-sent", TRUE)

\* offerCredential sends the offer over the connection; createOffer leaves it to
\* the application to hand it over, in an out-of-band invitation.
OfferCredential(s, th) ==
  /\ ProtocolOf[th] = "issue-credential"
  /\ \E connected \in {TRUE, ~WithoutConnection} :
       StartsExchange(Authority, s, th, "offer-credential", "offer-sent", connected)

AcceptProposal(a, s, id) ==
  /\ Sole(a, id, "propose-credential")
  /\ AnswersByHand(a, s, id, "proposal-received", Offers(OfferFor(a, id)))

NegotiateProposal(a, s, id) ==
  /\ exchanges[a][id] # None /\ ProtocolOf[exchanges[a][id].thread] = "issue-credential"
  /\ \E c \in Contents : AnswersByHand(a, s, id, "proposal-received", Offers(c))

AcceptOffer(a, s, id) ==
  /\ Sole(a, id, "offer-credential")
  /\ AnswersByHand(a, s, id, "offer-received", AcceptsOffer(a, id))

NegotiateOffer(a, s, id) ==
  \E c \in Contents : AnswersByHand(a, s, id, "offer-received", Proposes(c))

AcceptRequest(a, s, id) ==
  /\ Sole(a, id, "request-credential")
  /\ AnswersByHand(a, s, id, "request-received", AcceptsRequest(a, id))

AcceptCredential(a, s, id) ==
  AnswersByHand(a, s, id, "credential-received", AcceptsCredential)

DeclineOffer(a, s, id) ==
  /\ "decline" \in Calls[a]
  /\ s \in Callers /\ At(a, s, "idle")
  /\ exchanges[a][id] # None /\ exchanges[a][id].state = "offer-received"
  /\ ByHand(a, id)
  /\ Continue(a, s, [Idle EXCEPT !.pc = "updateOnly", !.id = id,
                     !.ex = [exchanges[a][id] EXCEPT !.state = "declined"]])
  /\ UNCHANGED <<exchanges, stored, wallet, opened, net>>

-------------------------------------------------------------------------------
CredentialNext ==
  \/ \E a \in Agents, h \in Handlers :
       \/ \E m \in net :
            \/ ReceiveProposal(a, h, m)   \/ ReceiveOffer(a, h, m)
            \/ ReceiveRequest(a, h, m)    \/ ReceiveCredential(a, h, m)
            \/ ReceiveCredentialAck(a, h, m)
       \/ StoreCredential(a, h)
       \/ DecideCredential(a, h)
  \/ \E s \in Callers, th \in Threads : ProposeCredential(s, th) \/ OfferCredential(s, th)
  \/ \E a \in Agents, s \in Callers, id \in RecordIds :
       \/ AcceptProposal(a, s, id) \/ NegotiateProposal(a, s, id)
       \/ AcceptOffer(a, s, id)    \/ NegotiateOffer(a, s, id)
       \/ AcceptRequest(a, s, id)  \/ AcceptCredential(a, s, id)
       \/ DeclineOffer(a, s, id)
================================================================================
