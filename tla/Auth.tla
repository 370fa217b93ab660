---------------------------------- MODULE Auth ----------------------------------
(***************************************************************************)
(* authd: what it makes of a bearer token.                                 *)
(*                                                                         *)
(* A token is a record with the number of its parts between dots.  A raw   *)
(* token is looked up in a table.  A JWT carries the key id of its header  *)
(* (a list of the parts between colons; empty if there is none), its       *)
(* algorithm, the key that signed it, its claims, and whether these are    *)
(* valid now.  An answer is a gRPC code, and the origin if the code is OK. *)
(***************************************************************************)
EXTENDS Chain

CONSTANT
    AuthTokens      \* the auth_tokens table: raw token -> origin

Answer(code, origin) == [code |-> code, origin |-> origin]

NoOrigin == <<>>

Denied(code) == Answer(code, NoOrigin)

\* detectInput.
IsChainToken(token) == token.parts = 3

\* store.GetAuthToken: the empty token is an error.
GetAuthToken(text) ==
    CASE text = "" -> "error"
      [] text # "" /\ text \in DOMAIN AuthTokens -> "found"
      [] OTHER -> "none"

\* What doAuth answers to a raw token.
AuthRaw(token) ==
    LET found == GetAuthToken(token.text)
    IN  IF found = "found" THEN Answer("OK", AuthTokens[token.text])
        ELSE Denied(IF found = "error" THEN "Internal" ELSE "Unauthenticated")

\* Ed25519: the signature verifies with the public key of the key id.
NearVerify(token) == token.signedBy = token.kid[3]

\* The address recovered from the signature is the address of the key id.
EthVerify(token) == token.signedBy = token.kid[3]

Verify(token) == IF token.alg = "NEAR" THEN NearVerify(token) ELSE EthVerify(token)

\* validateToken.
ValidateToken(token) ==
    /\ Len(token.kid) = 3
    /\ token.alg \in {"NEAR", "ETH"}
    /\ Verify(token)
    /\ token.claimsValid

Origin(token) == token.kid[1]

Suborigin(token) == token.kid[2]

PublicID(token) == <<IF token.alg = "NEAR" THEN "ed25519" ELSE "address", token.kid[3]>>

\* The tokens doAuth has a chain API for.
KnownOrigin(token) == Origin(token) \in {"near", "eth", "poly"}

\* validateDepositedFunds.
DepositAnswer(token) == HasDeposit(Origin(token), Suborigin(token), token.iss)

\* validateOwnsKey.
KeyAnswer(token) ==
    OwnsPublicKey(Origin(token), Suborigin(token), token.iss, PublicID(token))

\* What doAuth returns for an answer of the chain API other than "yes".
ChainDenied(answer) == Denied(IF answer = "no" THEN "Unauthenticated" ELSE "Internal")

ChainOrigin(token) == <<Origin(token), Suborigin(token)>>

================================================================================
