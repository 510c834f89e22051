----------------------------- MODULE DidDocuments ------------------------------
(***************************************************************************)
(* Keys, DID documents, and the DIDs that are made from them: did:key,     *)
(* did:jwk and the three kinds of did:peer, in both directions.            *)
(*                                                                         *)
(* A key is its type and a number.  The id of a verification method is the *)
(* DID and the fragment of a DID URL; a relative id has no DID.  A DID is  *)
(* the method and what is encoded in it.                                   *)
(***************************************************************************)
EXTENDS Naturals, Sequences, SequencesExt

CONSTANTS Missing  \* "undefined", or a function that throws

KeyTypes == {"ed25519", "x25519", "p256", "bls12381g1", "bls12381g2", "bls12381g1g2"}

KeyWith(type, n) == [type |-> type, n |-> n]

SupportsEncrypting(key) == key.type \in {"x25519", "p256"}

SupportsSigning(key) == key.type # "x25519"

\* JWKs are made of these only.
HasJwk(key) == key.type \in {"ed25519", "x25519", "p256"}

-------------------------------------------------------------------------------
(* Documents *)

Purposes == {"authentication", "keyAgreement", "assertionMethod", "capabilityInvocation",
             "capabilityDelegation"}

IdOf(did, fragment) == [did |-> did, fragment |-> fragment]

Relative == Missing

VerificationMethod(id, type, controller, key) ==
  [id |-> id, type |-> type, controller |-> controller, key |-> key]

\* Under a purpose is a method, or the id of one of the methods of the document.
Reference(id) == VerificationMethod(id, "reference", Missing, Missing)

Document(did, methods, purposes, services) ==
  [id |-> did, verificationMethod |-> methods, purposes |-> purposes, service |-> services]

\* An id is compared by its end: a relative id stands for any DID.
EndsWith(id, suffix) ==
  id.fragment = suffix.fragment /\ suffix.did \in {Relative, id.did}

\* find
FirstWhere(s, Test(_)) ==
  LET k == SelectInSeq(s, Test) IN IF k = 0 THEN Missing ELSE s[k]

DereferenceVerificationMethod(doc, id) ==
  FirstWhere(doc.verificationMethod, LAMBDA m : EndsWith(m.id, id))

\* The method an entry under a purpose stands for.
Dereferenced(doc, entry) ==
  IF entry.type = "reference" THEN DereferenceVerificationMethod(doc, entry.id) ELSE entry

\* dereferenceKey: the first entry with the id under the purposes, in their order.
DereferenceKey(doc, id, purposes) ==
  LET EntryUnder(p) == FirstWhere(doc.purposes[p], LAMBDA e : EndsWith(e.id, id))
      purpose == FirstWhere(purposes, LAMBDA p : EntryUnder(p) # Missing)
  IN  IF purpose = Missing THEN Missing ELSE Dereferenced(doc, EntryUnder(purpose))

\* The types of method that a key of a type may have; the first one is what it is given.
SupportedVerificationMethodTypes(keyType) ==
  CASE keyType = "ed25519" -> <<"Ed25519VerificationKey2018", "Ed25519VerificationKey2020", "JsonWebKey2020">>
    [] keyType = "x25519" -> <<"X25519KeyAgreementKey2019", "JsonWebKey2020">>
    [] keyType = "p256" -> <<"JsonWebKey2020">>
    [] keyType = "bls12381g1" -> <<"Bls12381G1Key2020">>
    [] keyType = "bls12381g2" -> <<"Bls12381G2Key2020">>
    [] keyType = "bls12381g1g2" -> <<>>

\* getKeyFromVerificationMethod
KeyFromVerificationMethod(method) ==
  IF /\ method # Missing
     /\ method.type \in ToSet(SupportedVerificationMethodTypes(method.key.type))
  THEN method.key ELSE Missing

\* The keys of the DIDComm services, as a set; Missing when one is not found.
KeyReferenceToKey(doc, id) ==
  KeyFromVerificationMethod(DereferenceKey(doc, id, <<"authentication", "keyAgreement">>))

RecipientKeys(doc) ==
  LET KeysOf(service) ==
        CASE service.type = "IndyAgent" -> ToSet(service.recipientKeys)
          [] service.type = "did-communication" ->
               {KeyReferenceToKey(doc, id) : id \in ToSet(service.recipientKeys)}
          [] OTHER -> {}
      keys == UNION {KeysOf(doc.service[k]) : k \in DOMAIN doc.service}
  IN  IF Missing \in keys THEN Missing ELSE keys

\* The keys under each purpose: what documents are compared by.
KeysByPurpose(doc) ==
  [p \in Purposes |-> [k \in DOMAIN doc.purposes[p] |->
                         KeyFromVerificationMethod(Dereferenced(doc, doc.purposes[p][k]))]]

-------------------------------------------------------------------------------
(* Documents of keys *)

\* A key of this type is two keys one after the other.
BothHalves(key) == <<[key EXCEPT !.type = "bls12381g1"], [key EXCEPT !.type = "bls12381g2"]>>

X25519Of(key) == [key EXCEPT !.type = "x25519"]

MethodFor(did, key) ==
  VerificationMethod(IdOf(did, <<"fingerprint", key>>),
                     Head(SupportedVerificationMethodTypes(key.type)), did, key)

\* getVerificationMethods
VerificationMethodsFor(did, key) ==
  IF key.type = "bls12381g1g2"
  THEN [k \in 1 .. 2 |-> MethodFor(did, BothHalves(key)[k])]
  ELSE <<MethodFor(did, key)>>

ReferencesTo(methods) == [k \in DOMAIN methods |-> Reference(methods[k].id)]

DocumentForKey(did, key) ==
  LET own == VerificationMethodsFor(did, key)
      methods == IF SupportsSigning(key) THEN own ELSE <<>>
      agreement == CASE key.type = "ed25519" -> <<MethodFor(did, X25519Of(key))>>
                     [] key.type = "x25519" -> own
                     [] key.type = "p256" -> ReferencesTo(own)
                     [] OTHER -> <<>>
  IN  Document(did, methods,
               [p \in Purposes |-> IF p = "keyAgreement" THEN agreement ELSE ReferencesTo(methods)],
               <<>>)

\* getDidJwkDocument: one method, with id 0, for what the key supports.
DidJwkDocument(did, key) ==
  LET method == VerificationMethod(IdOf(did, <<"0">>), "JsonWebKey2020", did, key)
      Supports(p) == IF p = "keyAgreement" THEN SupportsEncrypting(key) ELSE SupportsSigning(key)
  IN  Document(did, <<method>>,
               [p \in Purposes |-> IF Supports(p) THEN ReferencesTo(<<method>>) ELSE <<>>], <<>>)

-------------------------------------------------------------------------------
(* did:peer *)

\* The genesis document without its id: what the hash in the DID stands for.
NumAlgo1Did(doc) == <<"peer", 1, [doc EXCEPT !.id = Missing]>>

\* The order in which the keys are encoded.
PeerPurposes == <<"assertionMethod", "keyAgreement", "authentication", "capabilityInvocation",
                  "capabilityDelegation">>

\* abbreviateServiceJson, and its inverse when it is read: only the id goes.
WithoutId(service) == [service EXCEPT !.id = Missing]

NumAlgo2Keys(doc) ==
  FlattenSeq([k \in DOMAIN PeerPurposes |->
    LET entries == doc.purposes[PeerPurposes[k]]
    IN  [j \in DOMAIN entries |->
           <<PeerPurposes[k], KeyFromVerificationMethod(Dereferenced(doc, entries[j]))>>]])

NumAlgo2Did(doc) ==
  LET keys == NumAlgo2Keys(doc) IN
  IF \E k \in DOMAIN keys : keys[k][2] = Missing THEN Missing
  ELSE <<"peer", 2, keys, [k \in DOMAIN doc.service |-> WithoutId(doc.service[k])]>>

\* The pattern for peer DIDs: at least one key, and services whose encoding has
\* neither - nor _, which base64url may have.
IsValidPeerDid(did) ==
  did[2] = 2 => did[3] # <<>> /\ \A k \in DOMAIN did[4] : did[4][k].plain

\* didToNumAlgo2DidDocument: each key under its purpose, with an id of its own, which
\* has no multibase prefix.
NumAlgo2Document(did) ==
  LET Method(key) == VerificationMethod(IdOf(did, <<"unprefixed", key>>),
                       Head(SupportedVerificationMethodTypes(key.type)), did, key)
      Under(p) == LET keys == SelectSeq(did[3], LAMBDA e : e[1] = p)
                  IN  [k \in DOMAIN keys |-> Method(keys[k][2])]
      services == [k \in DOMAIN did[4] |->
                     [did[4][k] EXCEPT !.id = IdOf(did, <<did[4][k].type, k - 1>>)]]
  IN  Document(did, <<>>, [p \in Purposes |-> Under(p)], services)
================================================================================
