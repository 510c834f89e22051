---------------------------- MODULE W3cCredentials -----------------------------
(***************************************************************************)
(* Credentials and presentations as JWTs: how they are encoded, signed and *)
(* verified, while time passes and the documents of their signers change.  *)
(*                                                                         *)
(* The clock and the claims are whole seconds; the date of a credential is *)
(* the second it falls in and how it is written, not before 1970.          *)
(* A signature is the key that made it: what is signed does not change     *)
(* afterwards.  Whatever throws gives Missing.                             *)
(***************************************************************************)
EXTENDS DidDocuments, FiniteSets

CONSTANTS
  Credentials,    \* [id, issuer, issuanceDate, expirationDate, subjects, status]
  SignerDids,     \* the DIDs that sign
  DocumentsOf,    \* per DID, the documents it may have, a sequence
  WalletKeysW3c,  \* the keys whose private half is in the wallet
  Challenges,     \* [challenge, domain]; the domain may be Missing
  Skew,           \* seconds clocks may differ by
  MaxCredentials, \* bound: signed or received
  MaxPresentations, \* bound: signed or received
  MaxTime         \* bound: on the clock

ASSUME W3cBounds == {Skew, MaxCredentials, MaxPresentations, MaxTime} \subseteq Nat

\* How a date is written: as w3cDate does; otherwise, with an offset or zeros after the
\* seconds; with a fraction of a second; or so that IsRFC3339 takes it and Date.parse does
\* not, as a leap second.
Dates == [seconds : Nat, written : {"plain", "other", "fraction", "unreadable"}]

\* What is missing is no number, no date, no DID, no credential and no id of a method.
ASSUME W3cAssumption ==
  /\ Missing \notin Nat \cup Dates \cup SignerDids \cup Credentials
  /\ \A c \in Credentials :
       /\ c = [id |-> c.id, issuer |-> c.issuer, issuanceDate |-> c.issuanceDate,
               expirationDate |-> c.expirationDate, subjects |-> c.subjects, status |-> c.status]
       /\ c.issuanceDate \in Dates /\ c.expirationDate \in Dates \cup {Missing}
       /\ c.subjects \in Seq(ToSet(c.subjects)) /\ c.status \in BOOLEAN
  /\ \A did \in SignerDids :
       /\ DocumentsOf[did] # <<>> /\ DocumentsOf[did] \in Seq(ToSet(DocumentsOf[did]))
       /\ \A doc \in ToSet(DocumentsOf[did]) :
            /\ \A p \in Purposes : doc.purposes[p] \in Seq(ToSet(doc.purposes[p]))
            /\ \A p \in {"assertionMethod", "authentication"} : \A k \in DOMAIN doc.purposes[p] :
                 doc.purposes[p][k].id # Missing

VARIABLES
  now,
  didDocuments,  \* per DID, the document it resolves to
  jwts           \* those made so far, with what they were made of (history)

w3cVars == <<now, didDocuments, jwts>>

Algorithms == {"EdDSA", "ES256"}

\* getJwkClassFromJwaSignatureAlgorithm, and what the JWK of a key supports.
KeyTypeFor(alg) == IF alg = "EdDSA" THEN "ed25519" ELSE "p256"

SupportsAlgorithm(key, alg) == key.type = KeyTypeFor(alg)

-------------------------------------------------------------------------------
(* Credentials, presentations and the payloads of their JWTs *)

NoClaims == [iss |-> Missing, sub |-> Missing, aud |-> Missing, exp |-> Missing, nbf |-> Missing,
             iat |-> Missing, jti |-> Missing, nonce |-> Missing, vc |-> Missing, vp |-> Missing]

\* Date.parse and Math.floor.
NumericDate(date) == IF date = Missing \/ date.written = "unreadable" THEN Missing ELSE date.seconds

\* w3cDate
W3cDate(seconds) == [seconds |-> seconds, written |-> "plain"]

\* What stays in the credential: a date that cannot be read, and no id.
WithoutClaims(credential) ==
  [credential EXCEPT !.id = Missing, !.issuer = Missing, !.issuanceDate = Missing,
                     !.expirationDate = IF NumericDate(@) = Missing THEN @ ELSE Missing,
                     !.subjects = <<Missing>>]

\* Mutant: the id is taken out of the credential and not put in a claim.
PayloadFromCredential_NoJti(credential) ==
  [NoClaims EXCEPT
     !.nbf = NumericDate(credential.issuanceDate), !.exp = NumericDate(credential.expirationDate),
     !.iss = credential.issuer, !.sub = Head(credential.subjects), !.vc = WithoutClaims(credential)]

\* getJwtPayloadFromCredential: what has a claim of its own goes there, and only there.
PayloadFromCredential(credential) ==
  IF NumericDate(credential.issuanceDate) = Missing \/ Len(credential.subjects) # 1 THEN Missing
  ELSE [NoClaims EXCEPT
          !.nbf = NumericDate(credential.issuanceDate), !.exp = NumericDate(credential.expirationDate),
          !.iss = credential.issuer, !.jti = credential.id, !.sub = Head(credential.subjects),
          !.vc = WithoutClaims(credential)]

\* A date that is repeated is the second of its claim, with no fraction.
AgreesWith(date, claim) ==
  date = Missing \/ (date.written \in {"plain", "other"} /\ date.seconds = claim)

\* getCredentialFromJwtPayload: what the credential repeats agrees with the claim.
\* An issuance date of 0 is none, and an expiration date of 0 is lost.
CredentialFromPayload(payload) ==
  LET vc == payload.vc
      Agree(value, claim) == value \in {Missing, claim}
  IN  IF /\ vc # Missing
         /\ payload.nbf \notin {Missing, 0} /\ payload.iss # Missing
         /\ Len(vc.subjects) = 1
         /\ Agree(vc.id, payload.jti) /\ Agree(vc.issuer, payload.iss)
         /\ AgreesWith(vc.issuanceDate, payload.nbf) /\ AgreesWith(vc.expirationDate, payload.exp)
         /\ Agree(Head(vc.subjects), payload.sub)
      THEN [vc EXCEPT !.id = payload.jti, !.issuer = payload.iss,
                      !.issuanceDate = W3cDate(payload.nbf),
                      !.expirationDate = IF payload.exp \in {Missing, 0} THEN Missing
                                         ELSE W3cDate(payload.exp),
                      !.subjects = <<payload.sub>>]
      ELSE Missing

\* getJwtPayloadFromPresentation; the nonce and the audience are put in when it is signed.
PayloadFromPresentation(presentation, options) ==
  [NoClaims EXCEPT
     !.iss = presentation.holder, !.jti = presentation.id,
     !.nonce = options.challenge, !.aud = options.domain,
     !.vp = [presentation EXCEPT !.id = Missing, !.holder = Missing]]

\* getPresentationFromJwtPayload.  The credentials in it are read with it.
PresentationFromPayload(payload) ==
  LET vp == payload.vp IN
  IF /\ vp # Missing
     /\ vp.id \in {Missing, payload.jti} /\ vp.holder \in {Missing, payload.iss}
     /\ \A k \in DOMAIN vp.credentials : CredentialFromPayload(vp.credentials[k].payload) # Missing
  THEN [vp EXCEPT !.id = payload.jti, !.holder = payload.iss]
  ELSE Missing

\* JwtPayload.validate: a clock may be off by Skew either way.
Validate(payload) ==
  /\ payload.nbf # Missing => payload.nbf <= now + Skew
  /\ payload.iat # Missing => payload.iat <= now + Skew
  /\ payload.exp # Missing => payload.exp >= now - Skew

-------------------------------------------------------------------------------
(* Which key signs, and which key must have signed *)

Jwt(alg, kid, jwk, payload, key) ==
  [header |-> [alg |-> alg, kid |-> kid, jwk |-> jwk], payload |-> payload, signedBy |-> key]

\* createJws of a key for which the wallet has the private half.
CanSign(key, alg) == key # Missing /\ HasJwk(key) /\ SupportsAlgorithm(key, alg) /\ key \in WalletKeysW3c

\* resolveVerificationMethod
ResolveVerificationMethod(id, purposes) ==
  IF id.did \notin SignerDids THEN Missing
  ELSE DereferenceKey(didDocuments[id.did], id, purposes)

\* Without a kid: the only method of the signer, for assertions, that the algorithm can use.
OnlyMethodFor(did, alg) ==
  LET doc == didDocuments[did]
      entries == doc.purposes["assertionMethod"]
      types == ToSet(SupportedVerificationMethodTypes(KeyTypeFor(alg)))
      usable == {k \in DOMAIN entries : Dereferenced(doc, entries[k]).type \in types}
  IN  IF Cardinality(usable) = 1 THEN Dereferenced(doc, entries[CHOOSE k \in usable : TRUE])
      ELSE Missing

\* getVerificationMethodForJwtCredential
VerificationMethodForJwt(jwt, purposes) ==
  LET kid == jwt.header.kid
      signer == jwt.payload.iss
      method ==
        CASE kid = Missing ->
               IF signer = Missing THEN Missing ELSE OnlyMethodFor(signer, jwt.header.alg)
          [] kid # Missing /\ kid.did = Relative ->
               IF signer = Missing THEN Missing
               ELSE ResolveVerificationMethod(IdOf(signer, kid.fragment), purposes)
          [] OTHER ->
               IF signer \in {Missing, kid.did} THEN ResolveVerificationMethod(kid, purposes)
               ELSE Missing
  IN  IF method # Missing /\ signer \in {Missing, method.controller} THEN method ELSE Missing

\* verifyJws: the keys that signed, none when the signature is not valid or it throws.
\* A key in the header goes before the one that was resolved.
VerifyJws(jwt, resolved) ==
  LET key == IF jwt.header.jwk # Missing THEN jwt.header.jwk ELSE resolved IN
  IF /\ Missing \in {jwt.header.jwk, jwt.header.kid}
     /\ SupportsAlgorithm(key, jwt.header.alg)
     /\ jwt.signedBy = key
  THEN {key} ELSE {}

\* Mutant: what signed is not compared with the key of the issuer.
VerifyCredential_AnyKey(jwt, verifyStatus) ==
  LET credential == CredentialFromPayload(jwt.payload)
      key == KeyFromVerificationMethod(VerificationMethodForJwt(jwt, <<"assertionMethod">>))
  IN  /\ credential # Missing
      /\ Validate(jwt.payload)
      /\ key # Missing /\ HasJwk(key)
      /\ VerifyJws(jwt, key) # {}
      /\ verifyStatus => ~credential.status

\* verifyCredential.  No status can be verified, so a credential that has one is not valid.
VerifyCredential(jwt, verifyStatus) ==
  LET credential == CredentialFromPayload(jwt.payload)
      key == KeyFromVerificationMethod(VerificationMethodForJwt(jwt, <<"assertionMethod">>))
  IN  /\ credential # Missing
      /\ Validate(jwt.payload)
      /\ key # Missing /\ HasJwk(key)
      /\ key \in VerifyJws(jwt, key)
      /\ verifyStatus => ~credential.status

\* verifyPresentation: its own signature, and every credential in it, each with the
\* signer of the presentation as its subject when it has one.
VerifyPresentation(jwt, options) ==
  LET presentation == PresentationFromPayload(jwt.payload)
      method == VerificationMethodForJwt(jwt, <<"authentication">>)
      key == KeyFromVerificationMethod(method)
      IsPresentable(credential) ==
        /\ VerifyCredential(credential, TRUE)
        /\ Head(CredentialFromPayload(credential.payload).subjects) \in {Missing, method.controller}
  IN  /\ presentation # Missing
      /\ Validate(jwt.payload)
      /\ jwt.payload.nonce = options.challenge
      /\ options.domain \in {Missing, jwt.payload.aud}
      /\ key # Missing /\ HasJwk(key)
      /\ VerifyJws(jwt, key) # {}
      /\ presentation.holder \in {Missing, method.controller}
      /\ \A k \in DOMAIN presentation.credentials : IsPresentable(presentation.credentials[k])

-------------------------------------------------------------------------------
(* Steps *)

W3cInit ==
  /\ now = 0
  /\ didDocuments = [did \in SignerDids |-> Head(DocumentsOf[did])]
  /\ jwts = {}

IsCredential(made) == made.jwt.payload.vc # Missing

Make(jwt, of, here) ==
  /\ jwts' = jwts \cup {[jwt |-> jwt, of |-> of, here |-> here]}
  /\ UNCHANGED <<now, didDocuments>>

MayHaveCredential == Cardinality({made \in jwts : IsCredential(made)}) < MaxCredentials

MayHavePresentation == Cardinality({made \in jwts : ~IsCredential(made)}) < MaxPresentations

\* The ids of the methods a DID has for a purpose now.
MethodIds(did, purpose) ==
  LET entries == didDocuments[did].purposes[purpose] IN {entries[k].id : k \in DOMAIN entries}

\* signCredential: whoever the issuer is, with the method that was asked for.  What was
\* signed is read back, and it fails when that does.
SignCredential ==
  /\ MayHaveCredential
  /\ \E credential \in Credentials, did \in SignerDids, alg \in Algorithms :
    \E id \in MethodIds(did, "assertionMethod") :
    LET key == KeyFromVerificationMethod(ResolveVerificationMethod(id, <<"assertionMethod">>))
        payload == PayloadFromCredential(credential)
    IN  /\ payload # Missing /\ CanSign(key, alg)
        /\ CredentialFromPayload(payload) # Missing
        /\ Make(Jwt(alg, id, Missing, payload, key), credential, TRUE)

\* signPresentation of one of the credentials, with or without the holder in it.
SignPresentation ==
  /\ MayHavePresentation
  /\ \E made \in jwts, did \in SignerDids, alg \in Algorithms, options \in Challenges :
    \E id \in MethodIds(did, "authentication"), holder \in SignerDids \cup {Missing} :
      LET key == KeyFromVerificationMethod(ResolveVerificationMethod(id, <<"authentication">>))
          presentation == [id |-> Missing, holder |-> holder, credentials |-> <<made.jwt>>]
          payload == PayloadFromPresentation(presentation, options)
      IN  /\ IsCredential(made) /\ CredentialFromPayload(made.jwt.payload) # Missing
          /\ CanSign(key, alg)
          /\ PresentationFromPayload(payload) # Missing
          /\ Make(Jwt(alg, id, Missing, payload, key), presentation, TRUE)

\* What other software signs with a key: with a relative id, with the key, or with neither
\* in the header.
Headers == {"relative", "jwk", "none"}

JwtOfOthers(header, id, payload, key) ==
  Jwt(IF key.type = "p256" THEN "ES256" ELSE "EdDSA",
      IF header = "relative" THEN IdOf(Relative, id.fragment) ELSE Missing,
      IF header = "jwk" THEN key ELSE Missing, payload, key)

\* A credential that other software signs with a key of the issuer, repeating the claims.
ReceiveCredential ==
  /\ MayHaveCredential
  /\ \E credential \in Credentials, header \in Headers :
    \E id \in MethodIds(credential.issuer, "assertionMethod") :
      LET method == ResolveVerificationMethod(id, <<"assertionMethod">>)
          payload == [PayloadFromCredential(credential) EXCEPT
                        !.vc = credential, !.iat = NumericDate(credential.issuanceDate)]
      IN  /\ method # Missing /\ HasJwk(method.key)
          /\ PayloadFromCredential(credential) # Missing
          /\ Make(JwtOfOthers(header, id, payload, method.key), credential, FALSE)

\* A presentation that other software signs, for whichever holder, with a method it has for
\* authentication or for assertions, repeating the claims.
ReceivePresentation ==
  /\ MayHavePresentation
  /\ \E made \in jwts, did \in SignerDids, header \in Headers, options \in Challenges,
       purpose \in {"authentication", "assertionMethod"} :
    \E id \in MethodIds(did, purpose), holder \in SignerDids \cup {Missing} :
      LET method == ResolveVerificationMethod(id, <<purpose>>)
          presentation == [id |-> Missing, holder |-> holder, credentials |-> <<made.jwt>>]
          payload == [PayloadFromPresentation(presentation, options) EXCEPT !.vp = presentation]
      IN  /\ IsCredential(made)
          /\ method # Missing /\ HasJwk(method.key)
          /\ Make(JwtOfOthers(header, id, payload, method.key), presentation, FALSE)

Tick ==
  /\ now < MaxTime
  /\ now' = now + 1
  /\ UNCHANGED <<didDocuments, jwts>>

\* The DID resolves to another document than before.
Rotate ==
  /\ \E did \in SignerDids : \E doc \in ToSet(DocumentsOf[did]) \ {didDocuments[did]} :
       didDocuments' = [didDocuments EXCEPT ![did] = doc]
  /\ UNCHANGED <<now, jwts>>

W3cNext ==
  \/ SignCredential
  \/ SignPresentation
  \/ ReceiveCredential
  \/ ReceivePresentation
  \/ Tick
  \/ Rotate

W3cSpec == W3cInit /\ [][W3cNext]_w3cVars

-------------------------------------------------------------------------------
(* Properties *)

\* The keys a DID has for a purpose.
KeysFor(did, purpose) ==
  LET doc == didDocuments[did]
      entries == doc.purposes[purpose]
  IN  {KeyFromVerificationMethod(Dereferenced(doc, entries[k])) : k \in DOMAIN entries}

\* Those that control a key for a purpose, in whichever document that says so.
ControllersOf(key, purpose) ==
  LET Methods(doc) == {Dereferenced(doc, doc.purposes[purpose][k]) : k \in DOMAIN doc.purposes[purpose]}
  IN  {method.controller : method \in
         {m \in UNION {Methods(didDocuments[did]) : did \in SignerDids} : m.key = key}}

\* Those a presentation that verifies was signed for.  The key is looked up under
\* "authentication" when the header names its id and under "assertionMethod" when it does
\* not.  A key that is in the header is not compared with what was looked up
\* (verifyPresentation, JwsService.jwkFromJws): then it is only the one who is named.
Signatories(jwt) ==
  IF jwt.header.jwk # Missing THEN {jwt.payload.iss} \ {Missing}
  ELSE ControllersOf(jwt.signedBy, IF jwt.header.kid = Missing THEN "assertionMethod" ELSE "authentication")

\* What is verified was signed with a key that is still of the one it speaks of: a valid
\* credential with a key of its issuer, whatever is in its header, within its time; a valid
\* presentation, for this challenge, with a key its holder controls and with credentials
\* that are valid and each about that holder.  Of a presentation with a key in the header
\* the code does not find out whose the key is: such a one is only known to name a holder
\* that the rest is true of (verifyCredential, verifyPresentation).
VerifiedIsSigned ==
  \A made \in jwts :
    LET jwt == made.jwt IN
    /\ (IsCredential(made) /\ VerifyCredential(jwt, TRUE)) =>
         /\ jwt.signedBy \in KeysFor(made.of.issuer, "assertionMethod")
         /\ made.of.issuanceDate.seconds - Skew <= now
         /\ made.of.expirationDate # Missing => now <= made.of.expirationDate.seconds + Skew
         /\ ~made.of.status
    /\ \A options \in Challenges :
         (/\ ~IsCredential(made) /\ VerifyPresentation(jwt, options)) =>
           \E holder \in Signatories(jwt) :
             /\ made.of.holder \in {Missing, holder}
             /\ jwt.payload.nonce = options.challenge
             /\ \A k \in DOMAIN made.of.credentials :
                  LET vc == made.of.credentials[k] IN
                  /\ VerifyCredential(vc, TRUE)
                  /\ Head(CredentialFromPayload(vc.payload).subjects) \in {Missing, holder}

\* The credential as it can be read from its JWT: dates are cut to the second and written
\* by w3cDate, and an expiration in second 0 is lost.
AsReadBack(credential) ==
  LET until == credential.expirationDate IN
  [credential EXCEPT !.issuanceDate = W3cDate(@.seconds),
                     !.expirationDate = IF until = Missing \/ until.seconds = 0 THEN Missing
                                        ELSE W3cDate(until.seconds)]

\* A credential signed here is read back as the one that was given, with its dates cut to
\* the second, and as long as the method it names has the same key, is of the issuer and of
\* no one else, and its time is not over, it verifies (signCredential, verifyCredential).
SignedCredentialsVerify ==
  \A made \in jwts :
    (IsCredential(made) /\ made.here) =>
      LET credential == made.of
          kid == made.jwt.header.kid
          method == ResolveVerificationMethod(kid, <<"assertionMethod">>)
          from == credential.issuanceDate.seconds
          until == credential.expirationDate
          inTime == from <= now + Skew /\ (until # Missing => now - Skew <= until.seconds)
      IN  /\ CredentialFromPayload(made.jwt.payload) = AsReadBack(credential)
          /\ VerifyCredential(made.jwt, TRUE) <=>
               /\ inTime /\ ~credential.status
               /\ KeyFromVerificationMethod(method) = made.jwt.signedBy
               /\ credential.issuer = kid.did /\ credential.issuer = method.controller
================================================================================
