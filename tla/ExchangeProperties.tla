--------------------------- MODULE ExchangeProperties ---------------------------
(* What credential and proof exchanges promise to the two agents.             *)
EXTENDS Exchanges

ExchangesOf(a) == {id \in RecordIds : exchanges[a][id] # None}

\* A thread leads to one exchange record per agent, however often its messages are
\* delivered, and whoever opened it: every handler looks the record up by its thread.
OneExchangePerThread ==
  \A a \in Agents : \A i, j \in ExchangesOf(a) :
    exchanges[a][i].thread = exchanges[a][j].thread => i = j

\* "The exchange will be created without a connection for usage in oob"
\* (V2CredentialProtocol.createOffer): the request that answers an offer belongs to
\* the exchange that the offer was made in, however the offer got to the holder.
OfferedExchangeIsUsed ==
  \A i, j \in ExchangesOf(Authority) :
    /\ exchanges[Authority][i].thread = exchanges[Authority][j].thread
    /\ stored[Authority][i]["offer-credential"] # <<>>
    /\ stored[Authority][j]["request-credential"] # <<>>
    => i = j

\* An exchange has one saved message of each kind: with two, getAgentMessage and
\* findAgentMessage throw, and the exchange can go no further.
OneMessagePerKind ==
  \A a \in Agents, id \in RecordIds, k \in StoredKinds : Len(stored[a][id][k]) < 2

\* What an agent that accepts approved content sends on its own has the content that
\* it agreed to before: the issuer issues what it offered, the holder requests what
\* it proposed, the prover presents what it proposed, the verifier requests what it
\* requested.  It still has when it is saved and sent, some writes after the check.
AgreedBefore ==
  [k \in {"offer-credential", "request-credential", "issue-credential",
          "request-presentation", "presentation"} |->
     CASE k = "issue-credential"   -> "offer-credential"
       [] k = "request-credential" -> "propose-credential"
       [] k = "presentation"       -> "propose-presentation"
       [] OTHER                    -> k]

AutomaticAnswersAreApproved ==
  \A a \in Agents, h \in Handlers :
    LET k == tasks[a][h] IN
    /\ k.pc \in {"saveResponse", "updateResponse", "sendResponse"}
    /\ k.kind \in DOMAIN AgreedBefore /\ Mode(a, k.ex) = "contentApproved"
    /\ exchanges[a][k.id] # None
    => Equal(a, k, AgreedBefore[k.kind])

\* The credentials of an exchange that has received one are in the wallet, with the
\* content that was requested.
HeldAsRequested ==
  \A id \in ExchangesOf(Holder) :
    LET e == exchanges[Holder][id] IN
    /\ ProtocolOf[e.thread] = "issue-credential"
    /\ e.state \in {"credential-received", "done"}
    => /\ e.credentials # {}
       /\ \A n \in e.credentials :
            /\ n \in DOMAIN wallet[Holder]
            /\ Sole(Holder, id, "request-credential")
            /\ wallet[Holder][n] = ContentOf(Holder, id, "request-credential")

\* An issuer whose exchange is done has issued a credential that the holder holds.
IssuedIsHeld ==
  \A id \in ExchangesOf(Authority) :
    LET e == exchanges[Authority][id] IN
    ProtocolOf[e.thread] = "issue-credential" /\ e.state = "done"
    => /\ Sole(Authority, id, "issue-credential")
       /\ \E n \in DOMAIN wallet[Holder] :
            wallet[Holder][n] = ContentOf(Authority, id, "issue-credential")

\* A presentation is verified against the request that is saved with the exchange:
\* what is called valid answers what the application finds was requested.
VerifiedAnswersRequest ==
  \A id \in ExchangesOf(Authority) :
    exchanges[Authority][id].verified = TRUE
    => /\ Sole(Authority, id, "presentation") /\ Sole(Authority, id, "request-presentation")
       /\ ContentOf(Authority, id, "presentation")
            = ContentOf(Authority, id, "request-presentation")

-------------------------------------------------------------------------------
(* The order of states *)

CredentialSteps ==
  {<<"proposal-sent", "offer-received">>, <<"offer-received", "proposal-sent">>,
   <<"offer-received", "request-sent">>, <<"offer-received", "declined">>,
   <<"request-sent", "credential-received">>, <<"credential-received", "done">>,
   <<"offer-sent", "proposal-received">>, <<"proposal-received", "offer-sent">>,
   <<"offer-sent", "request-received">>, <<"request-received", "credential-issued">>,
   <<"credential-issued", "done">>}

ProofSteps ==
  {<<"proposal-sent", "request-received">>, <<"request-received", "proposal-sent">>,
   <<"request-received", "presentation-sent">>, <<"request-received", "declined">>,
   <<"presentation-sent", "done">>,
   <<"request-sent", "proposal-received">>, <<"proposal-received", "request-sent">>,
   <<"request-sent", "presentation-received">>, <<"presentation-received", "done">>}

\* Exchanges go through the states of RFC 0453 and RFC 0454 in order: no late or
\* repeated message and no write that rests on an old read takes one back, or
\* past a state.  Only an abandoned exchange may be taken up again, by a task that
\* read it before.
StatesFollowProtocol ==
  [][\A a \in Agents : \A id \in ExchangesOf(a) :
       \/ exchanges'[a][id] = None
       \/ LET before == exchanges[a][id].state
              after  == exchanges'[a][id].state
          IN  \/ after \in {before, "abandoned"} \/ before = "abandoned"
              \/ <<before, after>> \in (IF ProtocolOf[exchanges[a][id].thread]
                                            = "issue-credential"
                                        THEN CredentialSteps ELSE ProofSteps)]_vars
================================================================================
