-------------------------------- MODULE Auth --------------------------------
(***************************************************************************)
(* The decisions of src/src/auth.rs and of auth_middleware (handler.rs):   *)
(* which requests are let through, and as what.                            *)
(*                                                                         *)
(* A private key is a name; the public key derived from it goes by the     *)
(* same name.  A text that does not decode is Garbled.  A `sig` parameter  *)
(* is a record: whether it has a dot, the payload, and the signature as    *)
(* the key that made it and the payload it was made over.  A header is the *)
(* sequence of its words.                                                  *)
(***************************************************************************)
EXTENDS Naturals, Sequences

CONSTANTS None, Garbled

\* to_uppercase and eq_ignore_ascii_case on the spellings that occur.
Upper == [get |-> "GET", GET |-> "GET", HEAD |-> "HEAD", PUT |-> "PUT"]
Lower == [Bearer |-> "bearer", bearer |-> "bearer", Basic |-> "basic"]

\* Mutant: the pair is not compared.
FromConfigUnchecked(c) ==
  IF Garbled \in {c.public_key, c.private_key} THEN None
  ELSE [verifying_key |-> c.public_key, bearer_token |-> c.bearer_token]

\* AuthState::from_config: both keys decode and belong together, or None (an
\* InvalidKeyMaterial or KeyMismatch error).
FromConfig(c) ==
  IF Garbled \in {c.public_key, c.private_key} \/ c.private_key # c.public_key
  THEN None
  ELSE [verifying_key |-> c.public_key, bearer_token |-> c.bearer_token]

ParseBearerToken(header) ==
  IF header # None /\ Len(header) >= 2 /\ Lower[header[1]] = "bearer"
  THEN header[2] ELSE None

VerifyBearer(auth, token) ==
  IF auth.bearer_token = None THEN "BearerNotConfigured"
  ELSE IF token # auth.bearer_token THEN "InvalidBearer"
  ELSE "Ok"

\* Mutant: a signature is refused in its last second.
ExpiredEarly(claim, now) == claim.exp <= now

Expired(claim, now) == claim.exp < now

\* AuthState::verify: the claims are compared before the signature is.
Verify(auth, now, req) ==
  LET claim == req.sig.payload
  IN  IF ~req.sig.dot THEN "MalformedSignature"
      ELSE IF claim = Garbled THEN "MalformedPayload"
      ELSE IF claim.v # 1 THEN "UnsupportedVersion"
      ELSE IF Expired(claim, now) THEN "Expired"
      ELSE IF Upper[claim.m] # Upper[req.method] THEN "MethodMismatch"
      ELSE IF claim.b # req.bucket THEN "BucketMismatch"
      ELSE IF claim.p # req.path THEN "PathMismatch"
      ELSE IF req.sig.signature = Garbled THEN "MalformedSignature"
      ELSE IF req.sig.signature # [by |-> auth.verifying_key, over |-> claim]
           THEN "InvalidSignature"
      ELSE "Ok"

\* Mutant: a bearer header that is refused ends the matter.
DecideBearerFirst(auth, now, req) ==
  LET token   == ParseBearerToken(req.header)
      bearer  == IF token = None THEN "MissingAuth" ELSE VerifyBearer(auth, token)
      presign == IF req.sig = None \/ token # None THEN bearer
                 ELSE Verify(auth, now, req)
  IN  IF bearer = "Ok" THEN "Bearer"
      ELSE IF presign = "Ok" THEN "Presign"
      ELSE presign

\* auth_middleware: the method that let the request through, or the last error.
\* A refused bearer token leaves the signature its chance and its error.
Decide(auth, now, req) ==
  LET token   == ParseBearerToken(req.header)
      bearer  == IF token = None THEN "MissingAuth" ELSE VerifyBearer(auth, token)
      presign == IF req.sig = None THEN bearer ELSE Verify(auth, now, req)
  IN  IF bearer = "Ok" THEN "Bearer"
      ELSE IF presign = "Ok" THEN "Presign"
      ELSE presign
=============================================================================
