-------------------------------- MODULE OAuth --------------------------------
(* The OAuth server's grants: an authorization code is exchanged for a     *)
(* refresh token, every refresh token for the next, and a token may be     *)
(* revoked (src/src/auth/oauth-provider.ts). What may still be exchanged   *)
(* is in two Firestore collections, the codes and the allow-list of jtis   *)
(* (src/src/store/persistent-auth-codes.ts, persistent-jti-store.ts).      *)
(*                                                                         *)
(* A call mints at most one refresh token, which is named after it. Calls  *)
(* with a code or token of another client, or no valid signature, end      *)
(* before they change anything and are left out, as are access tokens,     *)
(* which no state is kept of.                                              *)
EXTENDS Integers

CONSTANTS
  Codes,          \* authorization codes, one per grant
  Calls,          \* requests to /token and /revoke
  NoRight,
  CodeTtl,        \* seconds a code lives: 600
  RefreshTtl,     \* seconds a refresh token lives: 30 days
  MaxOAuthTime    \* bound: the clock stops here

ASSUME OAuthAssumption ==
  /\ Codes \cap Calls = {} /\ NoRight \notin Codes \cup Calls
  /\ CodeTtl \in Nat \ {0} /\ RefreshTtl \in Nat \ {0} /\ MaxOAuthTime \in Nat

VARIABLES
  oauthNow,
  codes,      \* the stored codes
  allowed,    \* the stored jtis
  expires,    \* code or token -> when it expires; 0 before it is issued
  call,       \* call -> [pc, of]: of is the code or token it presents
  told,       \* tokens whose minting was answered
  grant,      \* history: token -> the code its chain began with
  revoked     \* history: grants whose stored token a revocation deleted

oauthVars == <<oauthNow, codes, allowed, expires, call, told, grant, revoked>>

Rights == Codes \cup Calls
Places == {"idle", "challenging", "consumingCode", "consumingToken", "minting", "answering",
           "revoking", "over"}

OAuthTypeOK ==
  /\ oauthNow \in Nat
  /\ codes \subseteq Codes /\ allowed \subseteq Calls /\ told \subseteq Calls
  /\ expires \in [Rights -> Nat]
  /\ call \in [Calls -> [pc : Places, of : Rights \cup {NoRight}]]
  /\ grant \in [Rights -> Codes \cup {NoRight}]
  /\ revoked \subseteq Codes

OAuthInit ==
  /\ oauthNow = 0
  /\ codes = {} /\ allowed = {} /\ told = {} /\ revoked = {}
  /\ expires = [x \in Rights |-> 0]
  /\ call = [q \in Calls |-> [pc |-> "idle", of |-> NoRight]]
  /\ grant = [x \in Rights |-> IF x \in Codes THEN x ELSE NoRight]

expired(x) == expires[x] < oauthNow
Goes(q, place) == call' = [call EXCEPT ![q].pc = place]
Begin(q, place, x) ==
  /\ call[q].pc = "idle"
  /\ call' = [call EXCEPT ![q] = [pc |-> place, of |-> x]]
-----------------------------------------------------------------------------
(* The code.                                                               *)

authorize(c) ==
  /\ expires[c] = 0
  /\ codes' = codes \cup {c}
  /\ expires' = [expires EXCEPT ![c] = oauthNow + CodeTtl]
  /\ UNCHANGED <<oauthNow, allowed, call, told, grant, revoked>>

BeginExchange(q, c) ==
  /\ expires[c] > 0
  /\ Begin(q, "challenging", c)
  /\ UNCHANGED <<oauthNow, codes, allowed, expires, told, grant, revoked>>

\* The library compares the verifier with the challenge before it goes on.
challengeForAuthorizationCode(q) ==
  LET c == call[q].of IN
  /\ call[q].pc = "challenging"
  /\ \/ c \in codes /\ ~expired(c) /\ Goes(q, "consumingCode")
     \/ Goes(q, "over")
  /\ codes' = IF c \in codes /\ expired(c) THEN codes \ {c} ELSE codes
  /\ UNCHANGED <<oauthNow, allowed, expires, told, grant, revoked>>

exchangeAuthorizationCode(q) ==
  LET c == call[q].of IN
  /\ call[q].pc = "consumingCode"
  /\ codes' = codes \ {c}
  /\ Goes(q, IF c \in codes /\ ~expired(c) THEN "minting" ELSE "over")
  /\ UNCHANGED <<oauthNow, allowed, expires, told, grant, revoked>>
-----------------------------------------------------------------------------
(* Refresh tokens.                                                         *)

\* jwtVerify: a token counts as expired from its last second on.
BeginRefresh(q, t) ==
  /\ t \in told
  /\ Begin(q, IF oauthNow < expires[t] THEN "consumingToken" ELSE "over", t)
  /\ UNCHANGED <<oauthNow, codes, allowed, expires, told, grant, revoked>>

\* consume that reads the jti and leaves it.
consumeAndKeep(q) ==
  LET t == call[q].of IN
  /\ UNCHANGED allowed
  /\ Goes(q, IF t \in allowed /\ ~expired(t) THEN "minting" ELSE "over")

\* consume that deletes the jti unseen.
consumeUnseen(q) ==
  LET t == call[q].of IN
  /\ allowed' = allowed \ {t}
  /\ Goes(q, IF ~expired(t) THEN "minting" ELSE "over")

\* The transaction of JtiStore.consume.
consume(q) ==
  LET t == call[q].of IN
  /\ allowed' = allowed \ {t}
  /\ Goes(q, IF t \in allowed /\ ~expired(t) THEN "minting" ELSE "over")

exchangeRefreshToken(q) ==
  /\ call[q].pc = "consumingToken"
  /\ consume(q)
  /\ UNCHANGED <<oauthNow, codes, expires, told, grant, revoked>>

\* generateTokens that forgets to store the jti.
generateTokensUnstored(q) ==
  /\ call[q].pc = "minting"
  /\ expires' = [expires EXCEPT ![q] = oauthNow + RefreshTtl]
  /\ grant' = [grant EXCEPT ![q] = grant[call[q].of]]
  /\ Goes(q, "answering")
  /\ UNCHANGED <<oauthNow, codes, allowed, told, revoked>>

\* The new jti is stored before the pair is returned.
generateTokens(q) ==
  /\ call[q].pc = "minting"
  /\ allowed' = allowed \cup {q}
  /\ expires' = [expires EXCEPT ![q] = oauthNow + RefreshTtl]
  /\ grant' = [grant EXCEPT ![q] = grant[call[q].of]]
  /\ Goes(q, "answering")
  /\ UNCHANGED <<oauthNow, codes, told, revoked>>

Answer(q) ==
  /\ call[q].pc = "answering"
  /\ told' = told \cup {q}
  /\ Goes(q, "over")
  /\ UNCHANGED <<oauthNow, codes, allowed, expires, grant, revoked>>

BeginRevoke(q, t) ==
  /\ t \in told
  /\ Begin(q, IF oauthNow < expires[t] THEN "revoking" ELSE "over", t)
  /\ UNCHANGED <<oauthNow, codes, allowed, expires, told, grant, revoked>>

revokeToken(q) ==
  LET t == call[q].of IN
  /\ call[q].pc = "revoking"
  /\ allowed' = allowed \ {t}
  /\ revoked' = IF t \in allowed THEN revoked \cup {grant[t]} ELSE revoked
  /\ Goes(q, "over")
  /\ UNCHANGED <<oauthNow, codes, expires, told, grant>>
-----------------------------------------------------------------------------
\* The server dies, or a store or the connection fails, in the middle of a call.
Abort(q) ==
  /\ call[q].pc \notin {"idle", "over"}
  /\ Goes(q, "over")
  /\ UNCHANGED <<oauthNow, codes, allowed, expires, told, grant, revoked>>

OAuthTick ==
  /\ oauthNow < MaxOAuthTime
  /\ oauthNow' = oauthNow + 1
  /\ UNCHANGED <<codes, allowed, expires, call, told, grant, revoked>>

CallStep(q) ==
  \/ \E c \in Codes : BeginExchange(q, c)
  \/ \E t \in Calls : BeginRefresh(q, t) \/ BeginRevoke(q, t)
  \/ challengeForAuthorizationCode(q) \/ exchangeAuthorizationCode(q)
  \/ exchangeRefreshToken(q) \/ generateTokens(q) \/ Answer(q)
  \/ revokeToken(q) \/ Abort(q)

OAuthNext ==
  \/ \E c \in Codes : authorize(c)
  \/ \E q \in Calls : CallStep(q)
  \/ OAuthTick

OAuthSpec == OAuthInit /\ [][OAuthNext]_oauthVars
-----------------------------------------------------------------------------
\* What may still become a token pair: a stored code, a stored jti, or a call
\* that has consumed one of them and not yet stored the next.
minting == {q \in Calls : call[q].pc = "minting"}
live == codes \cup allowed \cup minting
grantOf(x) == IF x \in minting THEN grant[call[x].of] ELSE grant[x]

\* However codes and tokens are presented again, concurrently or late, a grant
\* is worth one token pair at a time (consume in both stores).
OneRightPerGrant == \A x, y \in live : grantOf(x) = grantOf(y) => x = y

\* A revocation that finds the token still in the allow-list ends the grant:
\* no refresh that raced it leaves a token behind (revokeToken).
RevocationEndsGrant == \A x \in live : grantOf(x) \notin revoked

\* A token the client was told of is honoured until it is presented for a
\* refresh or a revocation, or has expired (generateTokens stores the jti
\* before it answers).
ToldIsHonoured ==
  \A t \in told :
    ~expired(t) /\ (\A q \in Calls : call[q].of # t) => t \in allowed
=============================================================================
