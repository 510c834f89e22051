------------------------------ MODULE MCServices -------------------------------
(***************************************************************************)
(* Instances of the services the agent is made of, for TLC: its lifecycle, *)
(* storage updates, caches, DIDs, and credentials as JWTs.  They share no  *)
(* state here: a behaviour runs one of them, the part it starts with, and  *)
(* the others stay where they were.                                        *)
(***************************************************************************)
EXTENDS StorageUpdates, LruCache, AgentLifecycle, Dids, W3cCredentials, TLC

VARIABLE part  \* the component that runs

\* The choices of the other parts are pinned.
ServicesInit ==
  /\ part \in {"updates", "cache", "agent", "dids", "w3c"}
  /\ UpdateInit /\ CacheInit /\ AgentInit /\ DidInit /\ W3cInit
  /\ part # "updates" => wallet.version = v0_2
  /\ part # "cache" => persistent /\ limit = 1
  /\ part # "agent" => walletFile = "missing" /\ walletConfig /\ autoUpdate

UpdatesRun ==
  /\ part = "updates" /\ UpdateNext
  /\ UNCHANGED <<part, cacheVars, agentVars, didVars, w3cVars>>

CacheRuns ==
  /\ part = "cache" /\ CacheNext
  /\ UNCHANGED <<part, updateVars, agentVars, didVars, w3cVars>>

AgentRuns ==
  /\ part = "agent" /\ AgentNext
  /\ UNCHANGED <<part, updateVars, cacheVars, didVars, w3cVars>>

DidsRun ==
  /\ part = "dids" /\ DidNext
  /\ UNCHANGED <<part, updateVars, cacheVars, agentVars, w3cVars>>

W3cRuns ==
  /\ part = "w3c" /\ W3cNext
  /\ UNCHANGED <<part, updateVars, cacheVars, agentVars, didVars>>

ServicesNext == UpdatesRun \/ CacheRuns \/ AgentRuns \/ DidsRun \/ W3cRuns

\* The callers, keys, values and contexts of the cache are interchangeable; no other
\* part has any of them.
CacheSymmetry ==
  Permutations(CacheCallers) \cup Permutations(CacheKeys) \cup Permutations(CacheValues)
    \cup Permutations(CacheContexts)

OneToTwo == 1 .. 2

-------------------------------------------------------------------------------
(* Wallets of older versions of the framework *)

ConnectionRecord(id, role, state, didDoc, theirDidDoc, invitation, multiUse) ==
  [kind |-> "connection", id |-> <<"id", id>>, role |-> role, state |-> state, didDoc |-> didDoc,
   theirDidDoc |-> theirDidDoc, did |-> Unset, theirDid |-> Unset, invitation |-> invitation,
   multiUse |-> multiUse, outOfBandId |-> Unset, typeTag |-> {}, types |-> {}]
Exchange(kind, id, state, messages) ==
  [kind |-> kind, id |-> <<"id", id>>, state |-> state, messages |-> messages, version |-> Unset]
Wallet_0_1 ==
  [version |-> Unset,
   records |->
     {ConnectionRecord(1, "inviter", "invited", Unset, Unset, "i", TRUE),
      ConnectionRecord(2, "inviter", "complete", "d1", "d2", "i", FALSE),
      [kind |-> "credential", id |-> <<"id", 3>>, state |-> "done",
       messages |-> {"offerMessage", "requestMessage"}, version |-> Unset,
       credentialId |-> "cred", credentials |-> {}, metadata |-> "indy"],
      [kind |-> "mediation", id |-> <<"id", 4>>, connection |-> <<"id", 2>>, endpoint |-> TRUE, role |-> Unset]}]
Connected(id, did, theirDid) ==
  [ConnectionRecord(id, "responder", "completed", Unset, Unset, Unset, FALSE) EXCEPT
    !.did = did, !.theirDid = theirDid]
StoredDid(did, role) == [kind |-> "did", id |-> <<"did", did>>, did |-> Unset, role |-> role, qualified |-> Unset]
Wallet_0_2 ==
  [version |-> v0_2,
   records |->
     {[Connected(1, <<"peer", "d1">>, <<"peer", "d2">>) EXCEPT !.typeTag = {"tagged"}],
      StoredDid(<<"peer", "d1">>, "created"), StoredDid(<<"peer", "d2">>, "received"),
      [kind |-> "mediation", id |-> <<"id", 4>>, connection |-> <<"id", 1>>, endpoint |-> TRUE, role |-> "recipient"],
      [kind |-> "proof", id |-> <<"id", 5>>, state |-> "done",
       messages |-> {"requestMessage", "presentationMessage"}, version |-> Unset, isVerified |-> TRUE]}]
Wallet_0_3_1 ==
  [version |-> v0_3_1,
   records |->
     {[StoredDid(<<"peer", "d1">>, "created") EXCEPT !.id = <<"uuid", 1>>, !.did = <<"peer", "d1">>],
      [StoredDid(<<"peer", "d1">>, "created") EXCEPT !.id = <<"uuid", 2>>, !.did = <<"sov", "d3">>, !.qualified = <<"indy", "d3">>],
      [kind |-> "cache", id |-> <<"id", 6>>],
      [kind |-> "w3c", id |-> <<"id", 7>>, claimFormat |-> FALSE]}]
OldWallets == {Wallet_0_1, Wallet_0_2, Wallet_0_3_1}

-------------------------------------------------------------------------------
(* DIDs that are created and imported *)

K1 == KeyWith("ed25519", 1)
K2 == KeyWith("x25519", 1)
K3 == KeyWith("p256", 2)
NoKeys == [p \in Purposes |-> <<>>]
\* A document with references and embedded methods, ids of its own, and a service.
OwnDocument(plain) ==
  Document(Missing,
    <<VerificationMethod(IdOf(Relative, <<"k1">>), "Ed25519VerificationKey2018", Missing, K1),
      VerificationMethod(IdOf(Relative, <<"k3">>), "JsonWebKey2020", Missing, K3)>>,
    [NoKeys EXCEPT !["authentication"] = <<Reference(IdOf(Relative, <<"k1">>))>>,
                   !["assertionMethod"] = <<Reference(IdOf(Relative, <<"k3">>)), Reference(IdOf(Relative, <<"k1">>))>>,
                   !["keyAgreement"] = <<VerificationMethod(IdOf(Relative, <<"k2">>), "JsonWebKey2020", Missing, K2)>>],
    <<[id |-> IdOf(Relative, <<"s">>), type |-> "did-communication", plain |-> plain,
       recipientKeys |-> <<IdOf(Relative, <<"k1">>)>>]>>)
IndyDocument ==
  Document(Missing, <<>>,
    [NoKeys EXCEPT !["authentication"] = <<VerificationMethod(IdOf(Relative, <<"k1">>), "Ed25519VerificationKey2020", Missing, K1)>>],
    <<[id |-> IdOf(Relative, <<"i">>), type |-> "IndyAgent", plain |-> TRUE, recipientKeys |-> <<K1>>]>>)
BrokenDocument ==
  [OwnDocument(TRUE) EXCEPT !.service[1].recipientKeys = <<IdOf(Relative, <<"k9">>)>>]
FromKey(method, type, seed) == [method |-> method, keyType |-> type, seed |-> seed, document |-> Missing]
FromDocument(method, doc) == [method |-> method, keyType |-> Missing, seed |-> Missing, document |-> doc]
DidCreations ==
  {FromKey("key", "ed25519", 1), FromKey("key", "bls12381g1g2", Missing), FromKey("jwk", "p256", 1), FromKey("jwk", "bls12381g1g2", 1), FromKey("peer0", "ed25519", Missing),
   FromKey("key", "x25519", 1),
   FromDocument("peer1", OwnDocument(TRUE)), FromDocument("peer1", IndyDocument), FromDocument("peer2", OwnDocument(TRUE)),
   FromDocument("peer2", OwnDocument(FALSE)), FromDocument("peer2", IndyDocument), FromDocument("peer1", BrokenDocument)}
Peer1 == NumAlgo1Did(OwnDocument(TRUE))
DidImports ==
  {[did |-> Peer1, document |-> Missing, keys |-> {K1}, overwrite |-> TRUE],
   [did |-> Peer1, document |-> [IndyDocument EXCEPT !.id = Peer1], keys |-> {}, overwrite |-> TRUE],
   [did |-> <<"key", K1>>, document |-> Missing, keys |-> {K1}, overwrite |-> FALSE],
   [did |-> NumAlgo2Did(OwnDocument(TRUE)), document |-> Missing, keys |-> {}, overwrite |-> TRUE],
   [did |-> <<"web", "x">>, document |-> Missing, keys |-> {K1}, overwrite |-> TRUE]}
ResolvableDocuments == {[OwnDocument(TRUE) EXCEPT !.id = <<"web", "x">>]}

-------------------------------------------------------------------------------
(* Signers and what they sign *)

W1 == KeyWith("ed25519", 1)
W2 == KeyWith("ed25519", 2)
W3 == KeyWith("p256", 3)
W4 == KeyWith("ed25519", 4)
Issuer == <<"web", "issuer">>
Holder == <<"key", W2>>
SigningMethod(did, k, key) == VerificationMethod(IdOf(did, <<k>>), Head(SupportedVerificationMethodTypes(key.type)), did, key)
WithMethods(did, methods) ==
  Document(did, methods, [p \in Purposes |-> IF p \in {"assertionMethod", "authentication"} THEN ReferencesTo(methods) ELSE <<>>], <<>>)
SignerDocuments ==
  (Issuer :> <<WithMethods(Issuer, <<SigningMethod(Issuer, "k1", W1)>>),
               \* another key under the same id
               WithMethods(Issuer, <<SigningMethod(Issuer, "k1", W4)>>),
               \* two keys of one type, a method the holder controls, and one for both purposes
               [WithMethods(Issuer, <<SigningMethod(Issuer, "k1", W1), SigningMethod(Issuer, "k4", W4), SigningMethod(Issuer, "k3", W3),
                           [SigningMethod(Issuer, "k5", W1) EXCEPT !.controller = Holder]>>)
                 EXCEPT !.purposes["authentication"] = <<Reference(IdOf(Issuer, <<"k4">>))>>]>>)
  @@ (Holder :> <<DocumentForKey(Holder, W2)>>)
Credential(id, issuer, from, to, subjects, status) ==
  [id |-> id, issuer |-> issuer, issuanceDate |-> from, expirationDate |-> to, subjects |-> subjects, status |-> status]
On(seconds, written) == [seconds |-> seconds, written |-> written]
GivenCredentials ==
  {Credential("c1", Issuer, On(2, "plain"), On(2, "other"), <<Holder>>, FALSE),
   Credential(Missing, Issuer, On(1, "fraction"), On(2, "fraction"), <<Missing>>, FALSE),
   Credential("c3", Issuer, On(1, "other"), Missing, <<Holder>>, TRUE),
   Credential("c4", Holder, On(1, "fraction"), On(0, "plain"), <<Issuer>>, FALSE),
   Credential("c5", Issuer, On(0, "fraction"), Missing, <<Holder>>, FALSE),
   Credential("c6", Issuer, On(1, "plain"), Missing, <<Holder, Holder>>, FALSE),
   Credential("c7", Issuer, On(1, "unreadable"), Missing, <<Holder>>, FALSE),
   Credential("c8", Holder, On(1, "plain"), On(3, "unreadable"), <<Holder>>, FALSE)}
Signers == {Issuer, Holder}
SigningKeys == {W1, W2, W3, W4}
Verifications == {[challenge |-> "n1", domain |-> "d"], [challenge |-> "n2", domain |-> Missing]}
================================================================================
