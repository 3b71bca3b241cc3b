---------------------------- MODULE StoreProofs ----------------------------
(* Promises about what is kept in Firestore: what OAuth promises of a grant, *)
(* for every number of codes and calls; what the repository of a user's Meta *)
(* tokens promises of the default, for every number of tokens and            *)
(* operations; and what the ledger of the ad-set clones promises, one bundle *)
(* per key unless a claim has gone stale and a list of what was created, for *)
(* every number of calls, ads and overrides and every order of crashes.      *)
EXTENDS OAuth, MetaTokens, CloneBundle, FiniteSetTheorems, TLAPS

\* What a call presents: a code, or a token its client was told of.
Presented ==
  \A q \in Calls :
    /\ call[q].of \in IF call[q].pc = "idle" THEN {NoRight} ELSE Codes \cup told
    /\ call[q].pc \in {"challenging", "consumingCode"} => call[q].of \in Codes
    /\ call[q].pc \in {"consumingToken", "revoking"} => call[q].of \in told

\* A token is stored by the call it is named after before that call answers.
Stored ==
  /\ \A t \in allowed : call[t].pc \in {"answering", "over"}
  /\ \A t \in told : call[t].pc = "over"
  /\ \A q \in Calls : call[q].pc = "answering" => q \in allowed
  /\ \A c \in Codes : grant[c] = c

\* The grant of a right, and a revoked one, was authorized at some time.
Authorized ==
  /\ \A x \in live : grantOf(x) \in Codes /\ expires[grantOf(x)] > 0
  /\ \A c \in revoked : expires[c] > 0

GrantInv ==
  /\ OAuthTypeOK /\ Presented /\ Stored /\ Authorized
  /\ OneRightPerGrant /\ RevocationEndsGrant /\ ToldIsHonoured

-----------------------------------------------------------------------------
(* The rights, however they change.                                         *)

\* Rights that are only lost leave the others as good as they were.
LEMMA RightsLost ==
  ASSUME GrantInv, live' \subseteq live,
         \A x \in live' : grantOf(x)' = grantOf(x),
         \A c \in Codes : expires[c] > 0 => expires'[c] > 0,
         revoked' = revoked
  PROVE  Authorized' /\ OneRightPerGrant' /\ RevocationEndsGrant'
BY DEF GrantInv, Authorized, OneRightPerGrant, RevocationEndsGrant, OAuthTypeOK

\* One right is exchanged for another of the same grant.
LEMMA RightExchanged ==
  ASSUME GrantInv, NEW old \in live, NEW new,
         live' \subseteq (live \ {old}) \cup {new},
         \A x \in live' \ {new} : grantOf(x)' = grantOf(x),
         grantOf(new)' = grantOf(old),
         \A c \in Codes : expires[c] > 0 => expires'[c] > 0,
         revoked' = revoked
  PROVE  Authorized' /\ OneRightPerGrant' /\ RevocationEndsGrant'
BY DEF GrantInv, Authorized, OneRightPerGrant, RevocationEndsGrant, OAuthTypeOK
-----------------------------------------------------------------------------
(* One lemma for each thing a step must keep.                               *)

LEMMA InitialGrants == OAuthInit => GrantInv
<1> SUFFICES ASSUME OAuthInit PROVE GrantInv
  OBVIOUS
<1>1. live = {}
  BY DEF OAuthInit, live, minting
<1>2. OAuthTypeOK
  BY OAuthAssumption DEF OAuthInit, OAuthTypeOK, Rights, Places
<1>3. Presented /\ Stored
  BY DEF OAuthInit, Presented, Stored, Rights
<1>4. ToldIsHonoured
  BY DEF OAuthInit, ToldIsHonoured
<1> QED BY <1>1, <1>2, <1>3, <1>4 DEF GrantInv, Authorized, OneRightPerGrant, RevocationEndsGrant, OAuthInit

\* The case distinction the lemmas share.
LEMMA StepsOfOAuth ==
  ASSUME OAuthNext
  PROVE  \/ \E c \in Codes : authorize(c)
         \/ \E q \in Calls : \/ \E c \in Codes : BeginExchange(q, c)
                             \/ \E t \in Calls : BeginRefresh(q, t)
                             \/ \E t \in Calls : BeginRevoke(q, t)
                             \/ challengeForAuthorizationCode(q)
                             \/ exchangeAuthorizationCode(q)
                             \/ exchangeRefreshToken(q)
                             \/ generateTokens(q)
                             \/ Answer(q)
                             \/ revokeToken(q)
                             \/ Abort(q)
         \/ OAuthTick
BY DEF OAuthNext, CallStep

\* A stored token is a right of the grant it was minted for.
LEMMA StoredTokens ==
  ASSUME GrantInv, NEW t \in allowed
  PROVE  t \in live /\ grantOf(t) = grant[t] /\ grant[t] \in Codes
<1>1. t \in live /\ t \notin minting
  BY DEF GrantInv, Stored, OAuthTypeOK, live, minting
<1>2. grantOf(t) = grant[t]
  BY <1>1 DEF grantOf
<1>3. grantOf(t) \in Codes
  BY <1>1 DEF GrantInv, Authorized
<1> QED BY <1>1, <1>2, <1>3

LEMMA TypesKept == GrantInv /\ OAuthNext => OAuthTypeOK' /\ Presented' /\ Stored'
<1> SUFFICES ASSUME GrantInv, OAuthNext PROVE OAuthTypeOK' /\ Presented' /\ Stored'
  OBVIOUS
<1> USE DEF GrantInv, OAuthTypeOK, Presented, Stored, Rights, Places, Begin, Goes
<1>1. CASE \E c \in Codes : authorize(c)
  BY <1>1, OAuthAssumption DEF authorize
<1>2. ASSUME NEW q \in Calls, NEW c \in Codes, BeginExchange(q, c)
      PROVE OAuthTypeOK' /\ Presented' /\ Stored'
  BY <1>2 DEF BeginExchange
<1>3. ASSUME NEW q \in Calls, NEW t \in Calls, BeginRefresh(q, t)
      PROVE OAuthTypeOK' /\ Presented' /\ Stored'
  BY <1>3 DEF BeginRefresh
<1>4. ASSUME NEW q \in Calls, NEW t \in Calls, BeginRevoke(q, t)
      PROVE OAuthTypeOK' /\ Presented' /\ Stored'
  BY <1>4 DEF BeginRevoke
<1>5. ASSUME NEW q \in Calls, challengeForAuthorizationCode(q)
      PROVE OAuthTypeOK' /\ Presented' /\ Stored'
  BY <1>5 DEF challengeForAuthorizationCode
<1>6. ASSUME NEW q \in Calls, exchangeAuthorizationCode(q)
      PROVE OAuthTypeOK' /\ Presented' /\ Stored'
  BY <1>6 DEF exchangeAuthorizationCode
<1>7. ASSUME NEW q \in Calls, exchangeRefreshToken(q)
      PROVE OAuthTypeOK' /\ Presented' /\ Stored'
  BY <1>7 DEF exchangeRefreshToken, consume
<1>8. ASSUME NEW q \in Calls, generateTokens(q)
      PROVE OAuthTypeOK' /\ Presented' /\ Stored'
  BY <1>8, OAuthAssumption DEF generateTokens
<1>9. ASSUME NEW q \in Calls, Answer(q)
      PROVE OAuthTypeOK' /\ Presented' /\ Stored'
  BY <1>9 DEF Answer
<1>10. ASSUME NEW q \in Calls, revokeToken(q)
       PROVE OAuthTypeOK' /\ Presented' /\ Stored'
  BY <1>10, StoredTokens DEF revokeToken
<1>11. ASSUME NEW q \in Calls, Abort(q)
       PROVE OAuthTypeOK' /\ Presented' /\ Stored'
  BY <1>11 DEF Abort
<1>12. CASE OAuthTick
  BY <1>12 DEF OAuthTick
<1> QED BY <1>1, <1>2, <1>3, <1>4, <1>5, <1>6, <1>7, <1>8, <1>9, <1>10, <1>11, <1>12, StepsOfOAuth

LEMMA ToldIsHonouredKept == GrantInv /\ OAuthNext => ToldIsHonoured'
<1> SUFFICES ASSUME GrantInv, OAuthNext,
                    NEW t \in told', ~expired(t)', \A q \in Calls : call'[q].of # t
             PROVE  t \in allowed'
  BY DEF ToldIsHonoured
<1> USE DEF Begin, Goes
<1>0. t \in Calls /\ (t \in told => expires[t] \in Nat)
  BY TypesKept DEF OAuthTypeOK, Rights, GrantInv
<1>1. CASE OAuthTick
  <2>1. t \in told /\ ~expired(t) /\ \A q \in Calls : call[q].of # t
    BY <1>1, <1>0 DEF OAuthTick, expired, GrantInv, OAuthTypeOK
  <2> QED BY <1>1, <2>1 DEF OAuthTick, GrantInv, ToldIsHonoured
<1>2. CASE \E c \in Codes : authorize(c)
  <2>1. t \in told /\ ~expired(t) /\ \A q \in Calls : call[q].of # t
    BY <1>2, <1>0, OAuthAssumption DEF authorize, expired, GrantInv, OAuthTypeOK, Rights
  <2> QED BY <1>2, <2>1 DEF authorize, GrantInv, ToldIsHonoured
<1>3. ASSUME NEW q \in Calls,
             \/ \E c \in Codes : BeginExchange(q, c)
             \/ \E x \in Calls : BeginRefresh(q, x) \/ BeginRevoke(q, x)
      PROVE  t \in allowed'
  <2>1. UNCHANGED <<told, expires, oauthNow, allowed>>
    BY <1>3 DEF BeginExchange, BeginRefresh, BeginRevoke
  <2>2. call[q].of = NoRight /\ \A r \in Calls \ {q} : call'[r] = call[r]
    BY <1>3 DEF BeginExchange, BeginRefresh, BeginRevoke, GrantInv, OAuthTypeOK, Presented
  <2>3. \A r \in Calls : call[r].of # t
    BY <2>2, <1>0, OAuthAssumption
  <2> QED BY <2>1, <2>3 DEF GrantInv, ToldIsHonoured, expired
<1>4. ASSUME NEW q \in Calls,
             \/ challengeForAuthorizationCode(q) \/ exchangeAuthorizationCode(q) \/ Abort(q)
      PROVE  t \in allowed'
  <2>1. UNCHANGED <<told, expires, oauthNow, allowed>>
    BY <1>4 DEF challengeForAuthorizationCode, exchangeAuthorizationCode, Abort
  <2>2. \A r \in Calls : call'[r].of = call[r].of
    BY <1>4 DEF challengeForAuthorizationCode, exchangeAuthorizationCode, Abort, GrantInv, OAuthTypeOK
  <2> QED BY <2>1, <2>2 DEF GrantInv, ToldIsHonoured, expired
<1>5. ASSUME NEW q \in Calls, exchangeRefreshToken(q) \/ revokeToken(q)
      PROVE  t \in allowed'
  \* The token that leaves the store is the one q presents, which is not t.
  <2>1. UNCHANGED <<told, expires, oauthNow>> /\ allowed' = allowed \ {call[q].of}
    BY <1>5 DEF exchangeRefreshToken, consume, revokeToken
  <2>2. \A r \in Calls : call'[r].of = call[r].of
    BY <1>5 DEF exchangeRefreshToken, consume, revokeToken, GrantInv, OAuthTypeOK
  <2> QED BY <2>1, <2>2 DEF GrantInv, ToldIsHonoured, expired
<1>6. ASSUME NEW q \in Calls, generateTokens(q)
      PROVE  t \in allowed'
  <2>1. t \in told /\ t # q /\ UNCHANGED oauthNow /\ expires'[t] = expires[t] /\ allowed \subseteq allowed'
    BY <1>6, <1>0 DEF generateTokens, GrantInv, OAuthTypeOK, Stored, Rights
  <2>2. \A r \in Calls : call'[r].of = call[r].of
    BY <1>6 DEF generateTokens, GrantInv, OAuthTypeOK
  <2> QED BY <2>1, <2>2 DEF GrantInv, ToldIsHonoured, expired
<1>7. ASSUME NEW q \in Calls, Answer(q)
      PROVE  t \in allowed'
  <2>1. UNCHANGED <<expires, oauthNow, allowed>> /\ told' = told \cup {q} /\ call[q].pc = "answering"
    BY <1>7 DEF Answer
  <2>2. \A r \in Calls : call'[r].of = call[r].of
    BY <1>7 DEF Answer, GrantInv, OAuthTypeOK
  <2>3. CASE t = q
    BY <2>1, <2>3 DEF GrantInv, Stored
  <2>4. CASE t # q
    BY <2>1, <2>2, <2>4 DEF GrantInv, ToldIsHonoured, expired
  <2> QED BY <2>3, <2>4
<1> QED BY <1>1, <1>2, <1>3, <1>4, <1>5, <1>6, <1>7, StepsOfOAuth

-----------------------------------------------------------------------------
(* The rights, action by action.                                            *)

LEMMA RightsKept ==
  GrantInv /\ OAuthNext => Authorized' /\ OneRightPerGrant' /\ RevocationEndsGrant'
<1> SUFFICES ASSUME GrantInv, OAuthNext
             PROVE  Authorized' /\ OneRightPerGrant' /\ RevocationEndsGrant'
  OBVIOUS
<1> USE DEF Begin, Goes
\* A code that is authorized begins a grant of its own.
<1>1. ASSUME NEW c \in Codes, authorize(c)
      PROVE  Authorized' /\ OneRightPerGrant' /\ RevocationEndsGrant'
  <2>1. minting' = minting /\ live' = live \cup {c} /\ revoked' = revoked
    BY <1>1 DEF authorize, live, minting
  <2>2. c \notin minting /\ grantOf(c)' = c /\ \A x \in live : grantOf(x)' = grantOf(x)
    BY <1>1, <2>1, OAuthAssumption DEF authorize, grantOf, minting, GrantInv, Stored
  <2>3. \A x \in live : grantOf(x) # c
    BY <1>1, OAuthAssumption DEF authorize, GrantInv, Authorized, OAuthTypeOK, Rights
  <2>4. expires'[c] > 0 /\ \A d \in Codes \ {c} : expires'[d] = expires[d]
    BY <1>1, OAuthAssumption DEF authorize, GrantInv, OAuthTypeOK, Rights
  <2>5. c \notin revoked
    BY <1>1 DEF authorize, GrantInv, Authorized
  <2>6. Authorized'
    BY <2>1, <2>2, <2>4 DEF GrantInv, Authorized, OAuthTypeOK
  <2>7. OneRightPerGrant'
    BY <2>1, <2>2, <2>3 DEF GrantInv, OneRightPerGrant
  <2>8. RevocationEndsGrant'
    BY <2>1, <2>2, <2>5 DEF GrantInv, RevocationEndsGrant
  <2> QED BY <2>6, <2>7, <2>8
\* Steps that begin a call, look something up, answer or end: no right is new.
<1>2. ASSUME NEW q \in Calls,
             \/ \E c \in Codes : BeginExchange(q, c)
             \/ \E t \in Calls : BeginRefresh(q, t) \/ BeginRevoke(q, t)
             \/ challengeForAuthorizationCode(q) \/ Answer(q) \/ Abort(q)
      PROVE  Authorized' /\ OneRightPerGrant' /\ RevocationEndsGrant'
  <2>1. UNCHANGED <<allowed, expires, grant, revoked>> /\ codes' \subseteq codes
    BY <1>2 DEF BeginExchange, BeginRefresh, BeginRevoke, challengeForAuthorizationCode, Answer, Abort
  <2>2. /\ \A r \in Calls \ {q} : call'[r] = call[r]
        /\ call'[q].pc # "minting"
    BY <1>2 DEF BeginExchange, BeginRefresh, BeginRevoke, challengeForAuthorizationCode, Answer,
                Abort, GrantInv, OAuthTypeOK
  <2>3. minting' = minting \ {q}
    BY <2>2 DEF minting
  <2>4. live' \subseteq live
    BY <2>1, <2>3 DEF live
  <2>5. \A x \in live' : grantOf(x)' = grantOf(x)
    BY <2>1, <2>2, <2>3, OAuthAssumption DEF grantOf, live, minting, GrantInv, Stored, OAuthTypeOK
  <2> QED BY <2>1, <2>4, <2>5, RightsLost
\* A code is consumed by a call that goes on to mint, or for nothing.
<1>3. ASSUME NEW q \in Calls, exchangeAuthorizationCode(q)
      PROVE  Authorized' /\ OneRightPerGrant' /\ RevocationEndsGrant'
  <2> DEFINE c == call[q].of
  <2>1. /\ UNCHANGED <<allowed, expires, grant, revoked>> /\ codes' = codes \ {c}
        /\ q \notin minting /\ c \in Codes
    BY <1>3 DEF exchangeAuthorizationCode, minting, GrantInv, Presented
  <2>2. /\ \A r \in Calls \ {q} : call'[r] = call[r]
        /\ call'[q].of = c
        /\ call'[q].pc = "minting" => c \in codes
    BY <1>3 DEF exchangeAuthorizationCode, GrantInv, OAuthTypeOK
  <2>3. \A x \in live' \ {q} : x \in live \ {c} /\ grantOf(x)' = grantOf(x)
    BY <2>1, <2>2, OAuthAssumption DEF grantOf, live, minting, GrantInv, OAuthTypeOK, Stored
  <2>4. CASE q \in minting'
    <3>1. c \in live /\ grantOf(q)' = grant[c] /\ grantOf(c) = grant[c]
      BY <2>1, <2>2, <2>4, OAuthAssumption DEF grantOf, live, minting
    <3> QED BY <2>1, <2>3, <3>1, RightExchanged
  <2>5. CASE q \notin minting'
    <3>1. q \notin live'
      BY <1>3, <2>1, <2>5, OAuthAssumption DEF exchangeAuthorizationCode, live, GrantInv, OAuthTypeOK, Stored
    <3> QED BY <2>1, <2>3, <3>1, RightsLost
  <2> QED BY <2>4, <2>5
\* A stored token likewise.
<1>4. ASSUME NEW q \in Calls, exchangeRefreshToken(q)
      PROVE  Authorized' /\ OneRightPerGrant' /\ RevocationEndsGrant'
  <2> DEFINE t == call[q].of
  <2>1. /\ UNCHANGED <<codes, expires, grant, revoked>> /\ allowed' = allowed \ {t}
        /\ q \notin minting /\ q \notin allowed
    BY <1>4 DEF exchangeRefreshToken, consume, minting, GrantInv, Stored
  <2>2. /\ \A r \in Calls \ {q} : call'[r] = call[r]
        /\ call'[q].of = t
        /\ call'[q].pc = "minting" => t \in allowed
    BY <1>4 DEF exchangeRefreshToken, consume, GrantInv, OAuthTypeOK
  <2>3. t \in Calls /\ t \notin minting /\ t \notin codes
    BY <1>4, OAuthAssumption DEF exchangeRefreshToken, minting, GrantInv, Presented, Stored, OAuthTypeOK
  <2>4. \A x \in live' \ {q} : x \in live \ {t} /\ grantOf(x)' = grantOf(x)
    BY <2>1, <2>2, <2>3, OAuthAssumption DEF grantOf, live, minting, GrantInv, OAuthTypeOK, Stored
  <2>5. CASE q \in minting'
    <3>1. t \in live /\ grantOf(q)' = grantOf(t)
      BY <2>1, <2>2, <2>5, StoredTokens DEF grantOf, minting
    <3> QED BY <2>1, <2>4, <3>1, RightExchanged
  <2>6. CASE q \notin minting'
    <3>1. q \notin live'
      BY <2>1, <2>6, OAuthAssumption DEF live, GrantInv, OAuthTypeOK
    <3> QED BY <2>1, <2>4, <3>1, RightsLost
  <2> QED BY <2>5, <2>6
\* The right moves from the call to the token that is named after it.
<1>5. ASSUME NEW q \in Calls, generateTokens(q)
      PROVE  Authorized' /\ OneRightPerGrant' /\ RevocationEndsGrant'
  <2>1. /\ UNCHANGED <<codes, revoked>> /\ allowed' = allowed \cup {q}
        /\ q \in minting /\ minting' = minting \ {q}
        /\ \A r \in Calls \ {q} : call'[r] = call[r]
    BY <1>5 DEF generateTokens, minting, GrantInv, OAuthTypeOK
  <2>2. grant'[q] = grant[call[q].of] /\ \A x \in Rights \ {q} : grant'[x] = grant[x]
    BY <1>5 DEF generateTokens, GrantInv, OAuthTypeOK, Rights
  <2>3. grantOf(q)' = grantOf(q) /\ q \in live /\ live' = live
    BY <2>1, <2>2 DEF grantOf, live
  \* No other call presents q: nobody was told of it yet.
  <2>4. \A r \in minting \ {q} : call[r].of \in Rights \ {q}
    BY <2>1, OAuthAssumption DEF minting, GrantInv, OAuthTypeOK, Presented, Stored, Rights
  <2>5. \A x \in live' \ {q} : grantOf(x)' = grantOf(x)
    <3> SUFFICES ASSUME NEW x \in live' \ {q} PROVE grantOf(x)' = grantOf(x)
      OBVIOUS
    <3>1. x \in Rights \ {q}
      BY <2>3 DEF live, minting, GrantInv, OAuthTypeOK, Rights
    <3>2. CASE x \in minting
      BY <2>1, <2>2, <2>4, <3>2 DEF grantOf, minting
    <3>3. CASE x \notin minting
      BY <2>1, <2>2, <3>1, <3>3 DEF grantOf
    <3> QED BY <3>2, <3>3
  <2>6. \A c \in Codes : expires[c] > 0 => expires'[c] > 0
    BY <1>5, OAuthAssumption DEF generateTokens, GrantInv, OAuthTypeOK, Rights
  <2> QED BY <2>1, <2>3, <2>5, <2>6, RightsLost
\* The only right of the grant is gone before the grant counts as revoked.
<1>6. ASSUME NEW q \in Calls, revokeToken(q)
      PROVE  Authorized' /\ OneRightPerGrant' /\ RevocationEndsGrant'
  <2> DEFINE t == call[q].of
  <2>1. UNCHANGED <<codes, expires, grant>> /\ allowed' = allowed \ {t}
    BY <1>6 DEF revokeToken
  <2>2. /\ \A r \in Calls \ {q} : call'[r] = call[r]
        /\ minting' = minting
    BY <1>6 DEF revokeToken, minting, GrantInv, OAuthTypeOK
  <2>3. t \notin minting /\ t \notin codes
    BY <1>6, OAuthAssumption DEF revokeToken, minting, GrantInv, Presented, Stored, OAuthTypeOK
  <2>4. q \notin minting
    BY <1>6 DEF revokeToken, minting
  <2>5. live' = live \ {t}
    BY <2>1, <2>2, <2>3 DEF live
  <2>6. \A x \in live' : grantOf(x)' = grantOf(x)
    BY <2>1, <2>2, <2>4 DEF grantOf, minting
  <2>7. OneRightPerGrant'
    BY <2>5, <2>6 DEF GrantInv, OneRightPerGrant
  <2>8. CASE t \notin allowed
    <3>1. revoked' = revoked
      BY <1>6, <2>8 DEF revokeToken
    <3> QED BY <2>1, <2>5, <2>6, <3>1, RightsLost
  <2>9. CASE t \in allowed
    <3>1. revoked' = revoked \cup {grant[t]}
      BY <1>6, <2>9 DEF revokeToken
    <3>2. t \in live /\ grantOf(t) = grant[t] /\ expires[grant[t]] > 0
      BY <2>9, StoredTokens DEF GrantInv, Authorized
    <3>3. \A x \in live' : grantOf(x) # grant[t]
      BY <2>5, <3>2 DEF GrantInv, OneRightPerGrant
    <3>4. RevocationEndsGrant'
      BY <2>5, <2>6, <3>1, <3>3 DEF GrantInv, RevocationEndsGrant
    <3>5. Authorized'
      BY <2>1, <2>5, <2>6, <3>1, <3>2 DEF GrantInv, Authorized
    <3> QED BY <2>7, <3>4, <3>5
  <2> QED BY <2>8, <2>9
<1>7. CASE OAuthTick
  <2>1. /\ UNCHANGED <<codes, allowed, expires, call, grant, revoked>>
        /\ minting' = minting /\ live' = live
    BY <1>7 DEF OAuthTick, minting, live
  <2>2. \A x \in live' : grantOf(x)' = grantOf(x)
    BY <2>1 DEF grantOf
  <2> QED BY <2>1, <2>2, RightsLost
<1> QED BY <1>1, <1>2, <1>3, <1>4, <1>5, <1>6, <1>7, StepsOfOAuth
-----------------------------------------------------------------------------
(* The theorems.                                                            *)

LEMMA GrantInvHolds == OAuthSpec => []GrantInv
<1>1. GrantInv /\ [OAuthNext]_oauthVars => GrantInv'
  <2>1. CASE OAuthNext
    BY <2>1, TypesKept, ToldIsHonouredKept, RightsKept DEF GrantInv
  <2>2. ASSUME GrantInv, UNCHANGED oauthVars
        PROVE  GrantInv'
    <3> USE <2>2 DEF GrantInv, oauthVars
    <3>1. minting' = minting /\ live' = live /\ \A x : grantOf(x)' = grantOf(x)
      BY DEF minting, live, grantOf
    <3>2. OAuthTypeOK' /\ Presented' /\ Stored' /\ ToldIsHonoured'
      BY DEF OAuthTypeOK, Presented, Stored, ToldIsHonoured, expired
    <3>3. Authorized' /\ OneRightPerGrant' /\ RevocationEndsGrant'
      BY <3>1 DEF Authorized, OneRightPerGrant, RevocationEndsGrant
    <3> QED BY <3>2, <3>3
  <2> QED BY <2>1, <2>2
<1> QED BY <1>1, InitialGrants, PTL DEF OAuthSpec

\* The state of the stores and of every call stays of its type.
THEOREM GrantTypes == OAuthSpec => []OAuthTypeOK
BY GrantInvHolds, PTL DEF GrantInv

\* For any number of codes and concurrent requests, a grant has one live code,
\* token or minting call at most (the two stores' consume).
THEOREM SingleUse == OAuthSpec => []OneRightPerGrant
BY GrantInvHolds, PTL DEF GrantInv

\* A revocation that found its token ends the grant for good, whatever refresh
\* or replay runs beside it (revokeToken).
THEOREM RevokedForGood == OAuthSpec => []RevocationEndsGrant
BY GrantInvHolds, PTL DEF GrantInv

\* A token the client was told of is stored until it is presented or expires
\* (generateTokens).
THEOREM TokensHonoured == OAuthSpec => []ToldIsHonoured
BY GrantInvHolds, PTL DEF GrantInv

-----------------------------------------------------------------------------
(* The Meta tokens of a user. A document is one of these.                   *)

Doc == [kind : {"user", "system_user"}, isDefault : BOOLEAN, expiry : {"never", "far", "near"}]

\* What an operation does where it is, and to which token.
PlaceOf(q) ==
  /\ Is(q, "asking") => op[q].job = "login"
  /\ op[q].pc \in {"finding", "putting"} => op[q].job \in {"login", "register"}
  /\ op[q].pc \in {"listing", "clearing"} => op[q].job \in {"login", "select"}
  /\ Is(q, "marking") => op[q].job = "select"
  /\ Is(q, "reading") => op[q].job \in {"select", "delete", "get"}
  /\ op[q].pc \in {"removing", "picking", "promoting"} => op[q].job = "delete"
  /\ Is(q, "exchanging") => op[q].job = "get"
  /\ q \in running => op[q].name \in Names

\* What an operation that has run alone knows of the documents, whatever it
\* found when it began.
AloneAt(q) ==
  /\ Is(q, "clearing") => op[q].seen = stored
  /\ Is(q, "marking") => defaults = {}
  /\ Is(q, "putting") => op[q].flag \/ \E d \in defaults : d # op[q].name

OneDefault == stored # {} => \E d \in Names : defaults = {d}

\* What it knows besides when there was one default to begin with.
OrderlyAt(q) ==
  /\ op[q].pc \in {"asking", "finding", "reading", "removing", "exchanging"} => OneDefault
  /\ op[q].pc \in {"listing", "clearing"} =>
       IF op[q].job = "login" THEN defaults = {} ELSE op[q].name \in stored
  /\ Is(q, "putting") => IF op[q].flag THEN defaults \subseteq {op[q].name}
                         ELSE \E d \in Names \ {op[q].name} : defaults = {d}
  /\ Is(q, "marking") => op[q].name \in stored
  /\ Is(q, "removing") => op[q].name \in stored /\ op[q].flag = docs[op[q].name].isDefault
  /\ op[q].pc \in {"picking", "promoting"} => defaults = {}
  /\ Is(q, "promoting") => \E n \in stored : op[q].seen = {n}

RunsAlone(q) == running = {q} /\ AloneAt(q)
TokensInv ==
  /\ TokensTypeOK /\ NoResurrection
  /\ \A q \in Ops : PlaceOf(q) /\ (alone[q] /\ q \in running => RunsAlone(q))
  /\ orderly => IF running = {} THEN OneDefault ELSE \A q \in running : alone[q] /\ OrderlyAt(q)

LEMMA TokensInitially == TokensInit => TokensInv
<1> SUFFICES ASSUME TokensInit PROVE TokensInv
  OBVIOUS
<1>1. TokensTypeOK
  BY DEF TokensInit, TokensTypeOK, TokenPlaces
<1>2. running = {} /\ stored = {}
  BY DEF TokensInit, running, stored
<1>3. \A q \in Ops : PlaceOf(q)
  BY <1>2 DEF TokensInit, PlaceOf, Is
<1> QED BY <1>1, <1>2, <1>3 DEF TokensInv, NoResurrection, OneDefault

\* A batch of flags changes the defaults by what it was given, and nothing else.
LEMMA MarkingDocs ==
  ASSUME TokensTypeOK, NEW names \in SUBSET stored, NEW v \in BOOLEAN,
         updateDocs(names, "isDefault", v)
  PROVE  /\ docs' \in [Names -> Doc \cup {NoDoc}]
         /\ stored' = stored
         /\ defaults' = IF v THEN defaults \cup names ELSE defaults \ names
<1>1. \A n \in names : n \in Names /\ docs[n] \in Doc
  BY DEF TokensTypeOK, stored, Doc
<1>2. \A n \in names : docs'[n] \in Doc /\ docs'[n].isDefault = v
  BY <1>1 DEF updateDocs, Doc
<1>3. \A n \in Names \ names : docs'[n] = docs[n]
  BY DEF updateDocs
<1>4. docs' \in [Names -> Doc \cup {NoDoc}]
  <2>1. \A n \in Names : docs'[n] \in Doc \cup {NoDoc}
    BY <1>2, <1>3 DEF TokensTypeOK, Doc
  <2> QED BY <2>1 DEF updateDocs
<1>5. NoDoc \notin Doc
  BY DEF NoDoc, Doc
<1>6. stored' = stored
  BY <1>1, <1>2, <1>3, <1>5 DEF stored
<1>7. defaults' = IF v THEN defaults \cup names ELSE defaults \ names
  BY <1>1, <1>2, <1>3, <1>6 DEF defaults, stored
<1> QED BY <1>4, <1>6, <1>7

\* A step of a running operation concerns no other that has run alone.
LEMMA OwnStep ==
  ASSUME TokensInv, NEW q \in Ops, q \in running, NEW new, op' = [op EXCEPT ![q] = new],
         UNCHANGED alone, orderly' \in BOOLEAN, orderly' => orderly,
         TokensTypeOK', NoResurrection', PlaceOf(q)',
         alone[q] /\ q \in running' => AloneAt(q)',
         orderly' /\ alone[q] /\ OrderlyAt(q) => IF q \in running' THEN OrderlyAt(q)' ELSE OneDefault'
  PROVE  TokensInv'
<1>1. \A p \in Ops \ {q} : op'[p] = op[p]
  OBVIOUS
<1>2. running' \ {q} = running \ {q}
  BY <1>1 DEF running
<1>3. \A p \in Ops : PlaceOf(p)'
  <2> SUFFICES ASSUME NEW p \in Ops \ {q} PROVE PlaceOf(p)'
    OBVIOUS
  <2>1. PlaceOf(p)
    BY DEF TokensInv
  <2> QED BY <2>1, <1>1, <1>2 DEF PlaceOf, Is
<1>4. \A p \in Ops : alone[p] /\ p \in running' => RunsAlone(p)'
  <2> SUFFICES ASSUME NEW p \in Ops, alone[p], p \in running' PROVE RunsAlone(p)'
    OBVIOUS
  <2>1. p = q
    BY <1>2 DEF TokensInv, RunsAlone
  <2>2. running = {q}
    BY <2>1 DEF TokensInv, RunsAlone
  <2> QED BY <2>1, <2>2, <1>2 DEF RunsAlone
<1>5. ASSUME orderly' PROVE IF running' = {} THEN OneDefault' ELSE \A p \in running' : alone'[p] /\ OrderlyAt(p)'
  <2>1. alone[q] /\ OrderlyAt(q)
    BY <1>5 DEF TokensInv
  <2>2. running = {q}
    BY <2>1 DEF TokensInv, RunsAlone
  <2> QED BY <1>2, <1>5, <2>1, <2>2
<1> QED BY <1>3, <1>4, <1>5 DEF TokensInv

\* An operation begins: alone if no other runs, and orderly if none ever did.
LEMMA StartStep ==
  ASSUME TokensInv, NEW q \in Ops, NEW job \in Jobs, NEW n \in Names, NEW place,
         Start(q, job, n, place),
         \/ job = "login" /\ place = "asking"
         \/ job = "register" /\ place = "finding"
         \/ job \in {"select", "delete", "get"} /\ place = "reading"
  PROVE  TokensInv'
<1> DEFINE new == [op[q] EXCEPT !.pc = place, !.job = job, !.name = n]
<1>1. op' = [op EXCEPT ![q] = new] /\ UNCHANGED <<docs, lastSet>>
  BY DEF Start
<1>2. /\ new.pc = place /\ new.job = job /\ new.name = n
      /\ new \in [pc : TokenPlaces, job : Jobs \cup {"none"}, name : Names \cup {NoName},
                  flag : BOOLEAN, seen : SUBSET Names]
  BY DEF TokensInv, TokensTypeOK, TokenPlaces
<1> HIDE DEF new
<1>3. op'[q] = new /\ \A p \in Ops \ {q} : op'[p] = op[p]
  BY <1>1 DEF TokensInv, TokensTypeOK
<1>4. alone' = [o \in Ops |-> IF o = q THEN running = {} ELSE alone[o] /\ o \notin running]
  BY DEF Start
<1>5. TokensTypeOK'
  <2>1. op' \in [Ops -> [pc : TokenPlaces, job : Jobs \cup {"none"}, name : Names \cup {NoName},
                         flag : BOOLEAN, seen : SUBSET Names]]
    BY <1>1, <1>2 DEF TokensInv, TokensTypeOK
  <2>2. alone' \in [Ops -> BOOLEAN]
    BY <1>4 DEF TokensInv, TokensTypeOK
  <2>3. orderly' \in BOOLEAN
    BY DEF Start
  <2> QED BY <1>1, <2>1, <2>2, <2>3 DEF TokensInv, TokensTypeOK
<1>6. running' = running \cup {q}
  BY <1>2, <1>3 DEF running
<1>7. stored' = stored /\ defaults' = defaults
  BY <1>1 DEF stored, defaults
<1>8. \A p \in Ops : PlaceOf(p)'
  <2>1. PlaceOf(q)'
    BY <1>2, <1>3 DEF PlaceOf, Is
  <2>2. ASSUME NEW p \in Ops \ {q} PROVE PlaceOf(p)'
    BY <1>3, <1>6 DEF TokensInv, PlaceOf, Is
  <2> QED BY <2>1, <2>2
<1>9. AloneAt(q)'
  BY <1>2, <1>3 DEF AloneAt, Is
<1>10. ASSUME NEW p \in Ops, alone'[p], p \in running' PROVE RunsAlone(p)'
  <2>1. p = q
    BY <1>4, <1>6, <1>10
  <2>2. running = {}
    BY <1>4, <1>10, <2>1
  <2> QED BY <2>1, <2>2, <1>6, <1>9 DEF RunsAlone
<1>11. ASSUME orderly' PROVE \A p \in running' : alone'[p] /\ OrderlyAt(p)'
  <2>1. orderly /\ running = {}
    BY <1>11 DEF Start
  <2>2. OneDefault'
    BY <2>1, <1>7 DEF TokensInv, OneDefault
  <2>3. OrderlyAt(q)'
    BY <2>2, <1>2, <1>3 DEF OrderlyAt, Is
  <2> QED BY <2>1, <2>3, <1>4, <1>6
<1>12. NoResurrection'
  BY <1>1, <1>7 DEF TokensInv, NoResurrection
<1> QED BY <1>5, <1>6, <1>8, <1>10, <1>11, <1>12 DEF TokensInv

OpType == [pc : TokenPlaces, job : Jobs \cup {"none"}, name : Names \cup {NoName},
           flag : BOOLEAN, seen : SUBSET Names]

\* The types of what an operation may change in a step of its own.
LEMMA OwnTypes ==
  ASSUME TokensInv, NEW q \in Ops, NEW new \in OpType, op' = [op EXCEPT ![q] = new],
         docs' \in [Names -> Doc \cup {NoDoc}], UNCHANGED alone, orderly' \in BOOLEAN,
         lastSet' \in [Names -> BOOLEAN]
  PROVE  TokensTypeOK' /\ op'[q] = new
<1>1. op' \in [Ops -> OpType] /\ op'[q] = new
  BY DEF TokensInv, TokensTypeOK, OpType
<1> QED BY <1>1 DEF TokensInv, TokensTypeOK, OpType, Doc

\* A step that only moves an operation on.
LEMMA ReadStep ==
  ASSUME TokensInv, NEW q \in Ops, q \in running, NEW new \in OpType,
         op' = [op EXCEPT ![q] = new], UNCHANGED <<docs, alone, orderly, lastSet>>,
         PlaceOf(q)', alone[q] /\ q \in running' => AloneAt(q)',
         orderly /\ alone[q] /\ OrderlyAt(q) => IF q \in running' THEN OrderlyAt(q)' ELSE OneDefault
  PROVE  TokensInv'
<1>1. TokensTypeOK'
  BY OwnTypes DEF TokensInv, TokensTypeOK, Doc
<1>2. stored' = stored /\ defaults' = defaults
  BY DEF stored, defaults
<1>3. NoResurrection' /\ (OneDefault' <=> OneDefault)
  BY <1>2 DEF TokensInv, NoResurrection, OneDefault
<1> QED BY <1>1, <1>3, OwnStep DEF TokensInv, TokensTypeOK

LEMMA Typed ==
  ASSUME TokensInv, NEW q \in Ops
  PROVE  op[q] \in OpType /\ op \in [Ops -> OpType] /\ docs \in [Names -> Doc \cup {NoDoc}]
  BY DEF TokensInv, TokensTypeOK, OpType, Doc

LEMMA AskDefaultStep ==
  ASSUME TokensInv, NEW q \in Ops, AskDefault(q) PROVE TokensInv'
<1> DEFINE new == [op[q] EXCEPT !.pc = IF defaults = {} THEN "listing" ELSE "finding"]
<1>1. op' = [op EXCEPT ![q] = new] /\ UNCHANGED <<docs, alone, orderly, lastSet>> /\ Is(q, "asking")
  BY DEF AskDefault, Moves
<1>2. /\ new \in OpType /\ new.pc = IF defaults = {} THEN "listing" ELSE "finding"
      /\ new.job = op[q].job /\ new.name = op[q].name
  BY Typed DEF OpType, TokenPlaces
<1> HIDE DEF new
<1>3. op'[q] = new
  BY <1>1, Typed
<1>4. q \in running /\ q \in running' /\ op[q].name \in Names /\ op[q].job = "login"
  BY <1>1, <1>2, <1>3 DEF running, Is, TokensInv, PlaceOf
<1>5. stored' = stored /\ defaults' = defaults
  BY <1>1 DEF stored, defaults
<1>6. PlaceOf(q)'
  BY <1>2, <1>3, <1>4 DEF PlaceOf, Is
<1>7. AloneAt(q)'
  BY <1>2, <1>3 DEF AloneAt, Is
<1>8. OrderlyAt(q) => OrderlyAt(q)'
  BY <1>1, <1>2, <1>3, <1>4, <1>5 DEF OrderlyAt, Is, OneDefault
<1> QED BY <1>1, <1>2, <1>4, <1>6, <1>7, <1>8, ReadStep

LEMMA FindDefaultStep ==
  ASSUME TokensInv, NEW q \in Ops, FindDefault(q) PROVE TokensInv'
<1>1. PICK d \in getDefaultTokenName :
        op' = [op EXCEPT ![q] = [op[q] EXCEPT !.pc = "putting", !.flag = d \in {NoName, op[q].name}]]
  BY DEF FindDefault
<1> DEFINE flag == d \in {NoName, op[q].name}
           new == [op[q] EXCEPT !.pc = "putting", !.flag = flag]
<1>12. flag \in BOOLEAN
  OBVIOUS
<1> HIDE DEF flag
<1>2. /\ new \in OpType /\ new.pc = "putting"
      /\ new.job = op[q].job /\ new.name = op[q].name /\ new.flag = flag
  BY <1>12, Typed DEF OpType, TokenPlaces
<1>3. op' = [op EXCEPT ![q] = new]
  BY <1>1 DEF flag
<1> HIDE DEF new
<1>4. op'[q] = new
  BY <1>3, Typed
<1>5. Is(q, "finding") /\ UNCHANGED <<docs, alone, orderly, lastSet>>
  BY DEF FindDefault
<1>6. /\ q \in running /\ q \in running' /\ op[q].name \in Names
      /\ op[q].job \in {"login", "register"}
  BY <1>2, <1>4, <1>5 DEF running, Is, TokensInv, PlaceOf
<1>7. stored' = stored /\ defaults' = defaults /\ defaults \subseteq Names /\ NoName \notin Names
  BY <1>5, TokensAssumption DEF stored, defaults
<1>8. (d = NoName /\ defaults = {}) \/ d \in defaults
  BY DEF getDefaultTokenName
<1>9. PlaceOf(q)'
  BY <1>2, <1>4, <1>6 DEF PlaceOf, Is
<1>10. AloneAt(q)'
  BY <1>2, <1>4, <1>7, <1>8 DEF AloneAt, Is, flag
<1>11. OrderlyAt(q) => OrderlyAt(q)'
  <2> SUFFICES ASSUME OrderlyAt(q) PROVE OrderlyAt(q)'
    OBVIOUS
  <2>1. defaults = {} \/ \E e \in Names : defaults = {e}
    BY <1>5 DEF OrderlyAt, Is, OneDefault, defaults
  <2> QED BY <1>2, <1>4, <1>6, <1>7, <1>8, <2>1 DEF OrderlyAt, Is, flag
<1> QED BY <1>2, <1>3, <1>5, <1>6, <1>9, <1>10, <1>11, ReadStep

LEMMA ListForClearStep ==
  ASSUME TokensInv, NEW q \in Ops, ListForClear(q) PROVE TokensInv'
<1> DEFINE new == [op[q] EXCEPT !.pc = "clearing", !.seen = stored]
<1>1. op' = [op EXCEPT ![q] = new] /\ UNCHANGED <<docs, alone, orderly, lastSet>> /\ Is(q, "listing")
  BY DEF ListForClear
<1>2. /\ new \in OpType /\ new.pc = "clearing" /\ new.seen = stored
      /\ new.job = op[q].job /\ new.name = op[q].name
  BY Typed DEF OpType, TokenPlaces, stored
<1> HIDE DEF new
<1>3. op'[q] = new
  BY <1>1, Typed
<1>4. /\ q \in running /\ q \in running' /\ op[q].name \in Names
      /\ op[q].job \in {"login", "select"}
  BY <1>1, <1>2, <1>3 DEF running, Is, TokensInv, PlaceOf
<1>5. stored' = stored /\ defaults' = defaults
  BY <1>1 DEF stored, defaults
<1>6. PlaceOf(q)'
  BY <1>2, <1>3, <1>4 DEF PlaceOf, Is
<1>7. AloneAt(q)'
  BY <1>2, <1>3, <1>5 DEF AloneAt, Is
<1>8. OrderlyAt(q) => OrderlyAt(q)'
  BY <1>1, <1>2, <1>3, <1>4, <1>5 DEF OrderlyAt, Is
<1> QED BY <1>1, <1>2, <1>4, <1>6, <1>7, <1>8, ReadStep

LEMMA ReadDocStep ==
  ASSUME TokensInv, NEW q \in Ops, ReadDoc(q) PROVE TokensInv'
<1>1. /\ Is(q, "reading") /\ UNCHANGED <<docs, alone, orderly, lastSet>>
      /\ q \in running /\ op[q].name \in Names /\ op[q].job \in {"select", "delete", "get"}
  BY DEF ReadDoc, running, Is, TokensInv, PlaceOf
<1>2. PICK place : 
        /\ op' = [op EXCEPT ![q] = [op[q] EXCEPT !.flag = docs[op[q].name].isDefault, !.pc = place]]
        /\ op[q].name \notin stored => place = "done"
        /\ op[q].name \in stored =>
             \/ op[q].job = "select" /\ place = "listing"
             \/ op[q].job = "delete" /\ place = "removing"
             \/ op[q].job = "get" /\ place \in {"exchanging", "done"}
  <2> DEFINE place == IF op[q].name \notin stored THEN "done"
              ELSE CASE op[q].job = "select" -> "listing"
                     [] op[q].job = "delete" -> "removing"
                     [] op[q].job = "get" ->
                          IF docs[op[q].name].kind = "user" /\ docs[op[q].name].expiry = "near"
                          THEN "exchanging" ELSE "done"
  <2>1. op' = [op EXCEPT ![q] = [op[q] EXCEPT !.flag = docs[op[q].name].isDefault, !.pc = place]]
    BY DEF ReadDoc
  <2>2. /\ op[q].name \notin stored => place = "done"
        /\ op[q].name \in stored =>
             \/ op[q].job = "select" /\ place = "listing"
             \/ op[q].job = "delete" /\ place = "removing"
             \/ op[q].job = "get" /\ place \in {"exchanging", "done"}
    BY <1>1
  <2> HIDE DEF place
  <2> QED BY <2>1, <2>2
<1> DEFINE new == [op[q] EXCEPT !.flag = docs[op[q].name].isDefault, !.pc = place]
<1>3. docs[op[q].name].isDefault \in BOOLEAN
  <2>1. CASE docs[op[q].name] \in Doc
    BY <2>1 DEF Doc
  <2>2. CASE docs[op[q].name] = NoDoc
    BY <2>2 DEF NoDoc
  <2> QED BY <1>1, <2>1, <2>2, Typed
<1>4. op' = [op EXCEPT ![q] = new] /\ place \in {"done", "listing", "removing", "exchanging"}
  BY <1>1, <1>2
<1>5. /\ new \in OpType /\ new.pc = place /\ new.flag = docs[op[q].name].isDefault
      /\ new.job = op[q].job /\ new.name = op[q].name
  BY <1>3, <1>4, Typed DEF OpType, TokenPlaces
<1> HIDE DEF new
<1>6. op'[q] = new /\ (q \in running' <=> place # "done")
  BY <1>4, <1>5, Typed DEF running
<1>7. stored' = stored /\ defaults' = defaults
  BY <1>1 DEF stored, defaults
<1>8. PlaceOf(q)'
  BY <1>1, <1>2, <1>5, <1>6 DEF PlaceOf, Is
<1>9. AloneAt(q)'
  BY <1>2, <1>5, <1>6 DEF AloneAt, Is
<1>10. OrderlyAt(q) => OneDefault /\ OrderlyAt(q)'
  <2> SUFFICES ASSUME OrderlyAt(q) PROVE OneDefault /\ OrderlyAt(q)'
    OBVIOUS
  <2>1. OneDefault /\ OneDefault'
    BY <1>1, <1>7 DEF OrderlyAt, Is, OneDefault
  <2> QED BY <1>1, <1>2, <1>5, <1>6, <1>7, <2>1 DEF OrderlyAt, Is
<1> QED BY <1>1, <1>4, <1>5, <1>6, <1>8, <1>9, <1>10, ReadStep

LEMMA PickRemainingStep ==
  ASSUME TokensInv, NEW q \in Ops, PickRemaining(q) PROVE TokensInv'
<1>1. PICK place, seen :
        /\ op' = [op EXCEPT ![q] = [op[q] EXCEPT !.pc = place, !.seen = seen]]
        /\ \/ stored = {} /\ place = "done" /\ seen = op[q].seen
           \/ place = "promoting" /\ \E n \in stored : seen = {n}
  <2>1. CASE stored = {} /\ Moves(q, "done")
    <3>1. [op[q] EXCEPT !.pc = "done"] = [op[q] EXCEPT !.pc = "done", !.seen = op[q].seen]
      BY Typed DEF OpType
    <3> QED BY <2>1, <3>1 DEF Moves
  <2>2. ASSUME NEW n \in stored, op' = [op EXCEPT ![q] = [@ EXCEPT !.pc = "promoting", !.seen = {n}]]
        PROVE \E place, seen :
                /\ op' = [op EXCEPT ![q] = [op[q] EXCEPT !.pc = place, !.seen = seen]]
                /\ \/ stored = {} /\ place = "done" /\ seen = op[q].seen
                   \/ place = "promoting" /\ \E m \in stored : seen = {m}
    BY <2>2
  <2> QED BY <2>1, <2>2 DEF PickRemaining
<1> DEFINE new == [op[q] EXCEPT !.pc = place, !.seen = seen]
<1>2. /\ Is(q, "picking") /\ UNCHANGED <<docs, alone, orderly, lastSet>>
      /\ q \in running /\ op[q].name \in Names /\ op[q].job = "delete"
  BY DEF PickRemaining, running, Is, TokensInv, PlaceOf
<1>3. op' = [op EXCEPT ![q] = new]
  BY <1>1
<1>4. seen \in SUBSET Names /\ place \in {"done", "promoting"}
  BY <1>1, Typed DEF OpType, stored
<1>5. /\ new \in OpType /\ new.pc = place /\ new.seen = seen
      /\ new.job = op[q].job /\ new.name = op[q].name
  BY <1>4, Typed DEF OpType, TokenPlaces
<1> HIDE DEF new
<1>6. op'[q] = new /\ (q \in running' <=> place # "done")
  BY <1>3, <1>4, <1>5, Typed DEF running
<1>7. stored' = stored /\ defaults' = defaults
  BY <1>2 DEF stored, defaults
<1>8. PlaceOf(q)'
  BY <1>2, <1>4, <1>5, <1>6 DEF PlaceOf, Is
<1>9. AloneAt(q)'
  BY <1>4, <1>5, <1>6 DEF AloneAt, Is
<1>10. OrderlyAt(q) => IF q \in running' THEN OrderlyAt(q)' ELSE OneDefault
  BY <1>1, <1>2, <1>5, <1>6, <1>7 DEF OrderlyAt, Is, OneDefault
<1> QED BY <1>2, <1>3, <1>5, <1>8, <1>9, <1>10, ReadStep

LEMMA OpFailsStep ==
  ASSUME TokensInv, NEW q \in Ops, q \in running, Moves(q, "failed"), orderly' = FALSE,
         UNCHANGED <<docs, alone, lastSet>>
  PROVE  TokensInv'
<1> DEFINE new == [op[q] EXCEPT !.pc = "failed"]
<1>1. op' = [op EXCEPT ![q] = new]
  BY DEF Moves
<1>2. new \in OpType /\ new.pc = "failed"
  BY Typed DEF OpType, TokenPlaces
<1> HIDE DEF new
<1>3. TokensTypeOK' /\ op'[q] = new
  BY <1>1, <1>2, Typed, OwnTypes DEF TokensInv, TokensTypeOK
<1>4. PlaceOf(q)' /\ q \notin running'
  BY <1>2, <1>3 DEF PlaceOf, Is, running
<1>5. NoResurrection'
  BY DEF TokensInv, NoResurrection, stored
<1> QED BY <1>1, <1>3, <1>4, <1>5, OwnStep

\* updateOrThrow fails, or marks tokens that exist as the default.
LEMMA MarkStep ==
  ASSUME TokensInv, NEW q \in Ops, q \in running, NEW names \in SUBSET Names,
         updateOrThrow(q, names, "isDefault", TRUE, "done"), UNCHANGED <<alone, lastSet>>,
         orderly /\ alone[q] /\ OrderlyAt(q) => defaults = {} /\ \E n \in stored : names = {n}
  PROVE  TokensInv'
<1>1. CASE ~(names \subseteq stored) /\ UNCHANGED docs /\ Moves(q, "failed") /\ orderly' = FALSE
  BY <1>1, OpFailsStep
<1>2. CASE names \subseteq stored /\ updateDocs(names, "isDefault", TRUE) /\ Moves(q, "done") /\ UNCHANGED orderly
  <2> DEFINE new == [op[q] EXCEPT !.pc = "done"]
  <2>1. op' = [op EXCEPT ![q] = new]
    BY <1>2 DEF Moves
  <2>2. new \in OpType /\ new.pc = "done"
    BY Typed DEF OpType, TokenPlaces
  <2> HIDE DEF new
  <2>3. /\ docs' \in [Names -> Doc \cup {NoDoc}]
        /\ stored' = stored /\ defaults' = defaults \cup names
    BY <1>2, MarkingDocs DEF TokensInv
  <2>4. TokensTypeOK' /\ op'[q] = new
    BY <1>2, <2>1, <2>2, <2>3, OwnTypes DEF TokensInv, TokensTypeOK
  <2>5. PlaceOf(q)' /\ q \notin running'
    BY <2>2, <2>4 DEF PlaceOf, Is, running
  <2>6. NoResurrection'
    BY <2>3 DEF TokensInv, NoResurrection
  <2>7. orderly /\ alone[q] /\ OrderlyAt(q) => OneDefault'
    BY <2>3 DEF OneDefault
  <2> QED BY <1>2, <2>1, <2>4, <2>5, <2>6, <2>7, OwnStep DEF TokensInv, TokensTypeOK
<1> QED BY <1>1, <1>2 DEF updateOrThrow

LEMMA setDefaultTokenStep ==
  ASSUME TokensInv, NEW q \in Ops, setDefaultToken(q) PROVE TokensInv'
<1>1. q \in running /\ op[q].name \in Names /\ op[q].pc = "marking"
  BY DEF setDefaultToken, running, Is, TokensInv, PlaceOf
<1>2. alone[q] => defaults = {}
  BY <1>1 DEF TokensInv, RunsAlone, AloneAt, Is
<1>3. OrderlyAt(q) => op[q].name \in stored
  BY <1>1 DEF OrderlyAt, Is
<1>4. {op[q].name} \in SUBSET Names
  BY <1>1
<1>5. updateOrThrow(q, {op[q].name}, "isDefault", TRUE, "done") /\ UNCHANGED <<alone, lastSet>>
  BY DEF setDefaultToken
<1>6. orderly /\ alone[q] /\ OrderlyAt(q) => defaults = {} /\ \E n \in stored : {op[q].name} = {n}
  BY <1>2, <1>3
<1> QED BY <1>1, <1>4, <1>5, <1>6, MarkStep

LEMMA PromoteStep ==
  ASSUME TokensInv, NEW q \in Ops, Promote(q) PROVE TokensInv'
<1>1. q \in running /\ op[q].seen \in SUBSET Names /\ op[q].pc = "promoting"
  BY Typed DEF Promote, running, Is, OpType
<1>2. OrderlyAt(q) => defaults = {} /\ \E n \in stored : op[q].seen = {n}
  BY <1>1 DEF OrderlyAt, Is
<1> QED BY <1>1, <1>2, MarkStep DEF Promote

LEMMA clearDefaultsStep ==
  ASSUME TokensInv, NEW q \in Ops, clearDefaults(q) PROVE TokensInv'
<1>1. /\ q \in running /\ op[q].pc = "clearing" /\ op[q].name \in Names
      /\ op[q].job \in {"login", "select"} /\ op[q].seen \in SUBSET Names
  BY Typed DEF clearDefaults, running, Is, OpType, TokensInv, PlaceOf
<1>2. UNCHANGED <<alone, lastSet>>
  BY DEF clearDefaults
<1>3. CASE /\ op[q].seen \subseteq stored
           /\ updateDocs(op[q].seen, "isDefault", FALSE)
           /\ op' = [op EXCEPT ![q] = [@ EXCEPT !.pc = clearedThen(q), !.flag = TRUE, !.seen = {}]]
           /\ UNCHANGED orderly
  <2> DEFINE place == clearedThen(q)
             new == [op[q] EXCEPT !.pc = place, !.flag = TRUE, !.seen = {}]
  <2>1. op' = [op EXCEPT ![q] = new]
    BY <1>3
  <2>2. place = IF op[q].job = "login" THEN "putting" ELSE "marking"
    BY DEF clearedThen
  <2> HIDE DEF place
  <2>3. /\ new \in OpType /\ new.pc = place /\ new.flag = TRUE
        /\ new.job = op[q].job /\ new.name = op[q].name
    BY <2>2, Typed DEF OpType, TokenPlaces
  <2> HIDE DEF new
  <2>4. /\ docs' \in [Names -> Doc \cup {NoDoc}]
        /\ stored' = stored /\ defaults' = defaults \ op[q].seen
    BY <1>3, MarkingDocs DEF TokensInv
  <2>5. TokensTypeOK' /\ op'[q] = new
    BY <1>2, <1>3, <2>1, <2>3, <2>4, OwnTypes DEF TokensInv, TokensTypeOK
  <2>6. PlaceOf(q)' /\ q \in running'
    BY <1>1, <2>2, <2>3, <2>5 DEF PlaceOf, Is, running
  <2>7. NoResurrection'
    BY <1>2, <2>4 DEF TokensInv, NoResurrection
  <2>8. alone[q] => defaults' = {}
    <3> SUFFICES ASSUME alone[q] PROVE defaults' = {}
      OBVIOUS
    <3>1. op[q].seen = stored
      BY <1>1 DEF TokensInv, RunsAlone, AloneAt, Is
    <3> QED BY <3>1, <2>4 DEF defaults
  <2>9. alone[q] => AloneAt(q)'
    BY <2>2, <2>3, <2>5, <2>8 DEF AloneAt, Is
  <2>10. alone[q] /\ OrderlyAt(q) => OrderlyAt(q)'
    BY <1>1, <2>2, <2>3, <2>4, <2>5, <2>8 DEF OrderlyAt, Is
  <2> QED BY <1>1, <1>2, <1>3, <2>1, <2>5, <2>6, <2>7, <2>9, <2>10, OwnStep DEF TokensInv, TokensTypeOK
<1>4. CASE ~(op[q].seen \subseteq stored) /\ Moves(q, "failed") /\ orderly' = FALSE /\ UNCHANGED docs
  BY <1>1, <1>2, <1>4, OpFailsStep
<1> QED BY <1>3, <1>4 DEF clearDefaults

LEMMA PutTokenStep ==
  ASSUME TokensInv, NEW q \in Ops, PutToken(q) PROVE TokensInv'
<1> DEFINE n == op[q].name
           new == [op[q] EXCEPT !.pc = "done"]
           kind == IF op[q].job = "login" THEN "user" ELSE "system_user"
           expiry == IF op[q].job = "login" THEN "far" ELSE "never"
           doc == [kind |-> kind, isDefault |-> op[q].flag, expiry |-> expiry]
<1>1. /\ q \in running /\ op[q].pc = "putting" /\ op[q].name \in Names /\ op[q].flag \in BOOLEAN
  BY Typed DEF PutToken, running, Is, OpType, TokensInv, PlaceOf
<1>2. op' = [op EXCEPT ![q] = new] /\ UNCHANGED <<alone, orderly>>
  BY DEF PutToken, Moves
<1>3. new \in OpType /\ new.pc = "done"
  BY Typed DEF OpType, TokenPlaces
<1>4. docs' = [docs EXCEPT ![n] = doc] /\ lastSet' = [lastSet EXCEPT ![n] = TRUE]
  BY DEF PutToken
<1>5. doc \in Doc /\ doc.isDefault = op[q].flag /\ NoDoc \notin Doc
  BY <1>1 DEF Doc, NoDoc
<1> HIDE DEF new, doc
<1>6. /\ docs' \in [Names -> Doc \cup {NoDoc}] /\ docs'[n] = doc
      /\ \A m \in Names \ {n} : docs'[m] = docs[m]
      /\ lastSet' \in [Names -> BOOLEAN] /\ lastSet'[n]
      /\ \A m \in Names \ {n} : lastSet'[m] = lastSet[m]
  BY <1>1, <1>4, <1>5, Typed DEF TokensInv, TokensTypeOK
<1>7. TokensTypeOK' /\ op'[q] = new
  BY <1>2, <1>3, <1>6, OwnTypes DEF TokensInv, TokensTypeOK
<1>8. PlaceOf(q)' /\ q \notin running'
  BY <1>3, <1>7 DEF PlaceOf, Is, running
<1>9. stored' = stored \cup {n}
  BY <1>1, <1>5, <1>6 DEF stored
<1>10. defaults' = IF op[q].flag THEN defaults \cup {n} ELSE defaults \ {n}
  BY <1>1, <1>5, <1>6, <1>9 DEF defaults, stored
<1>11. NoResurrection'
  BY <1>6, <1>9 DEF TokensInv, NoResurrection, stored
<1>12. OrderlyAt(q) => OneDefault'
  <2> SUFFICES ASSUME OrderlyAt(q) PROVE \E d \in Names : defaults' = {d}
    BY DEF OneDefault
  <2>1. CASE op[q].flag
    <3>1. defaults' = {n}
      BY <2>1, <1>1, <1>10 DEF OrderlyAt, Is
    <3> QED BY <3>1, <1>1
  <2>2. CASE ~op[q].flag
    BY <2>2, <1>1, <1>10 DEF OrderlyAt, Is
  <2> QED BY <2>1, <2>2
<1> QED BY <1>1, <1>2, <1>7, <1>8, <1>11, <1>12, OwnStep DEF TokensInv, TokensTypeOK

LEMMA deleteTokenStep ==
  ASSUME TokensInv, NEW q \in Ops, deleteToken(q) PROVE TokensInv'
<1> DEFINE n == op[q].name
           place == IF op[q].flag THEN "picking" ELSE "done"
           new == [op[q] EXCEPT !.pc = place]
<1>1. /\ q \in running /\ op[q].pc = "removing" /\ op[q].name \in Names /\ op[q].flag \in BOOLEAN
      /\ op[q].job = "delete"
  BY Typed DEF deleteToken, running, Is, OpType, TokensInv, PlaceOf
<1>2. op' = [op EXCEPT ![q] = new] /\ UNCHANGED <<alone, orderly>>
  BY DEF deleteToken, Moves
<1>3. new \in OpType /\ new.pc = place /\ new.name = n /\ new.job = op[q].job
  BY Typed DEF OpType, TokenPlaces
<1>4. docs' = [docs EXCEPT ![n] = NoDoc] /\ lastSet' = [lastSet EXCEPT ![n] = FALSE]
  BY DEF deleteToken
<1> HIDE DEF new
<1>5. /\ docs' \in [Names -> Doc \cup {NoDoc}] /\ docs'[n] = NoDoc
      /\ \A m \in Names \ {n} : docs'[m] = docs[m]
      /\ lastSet' \in [Names -> BOOLEAN]
      /\ \A m \in Names \ {n} : lastSet'[m] = lastSet[m]
  BY <1>1, <1>4, Typed DEF TokensInv, TokensTypeOK
<1>6. TokensTypeOK' /\ op'[q] = new
  BY <1>2, <1>3, <1>5, OwnTypes DEF TokensInv, TokensTypeOK
<1>7. PlaceOf(q)' /\ (q \in running' <=> op[q].flag)
  BY <1>1, <1>3, <1>6 DEF PlaceOf, Is, running
<1>8. stored' = stored \ {n} /\ defaults' = defaults \ {n}
  <2>1. stored' = stored \ {n}
    BY <1>1, <1>5 DEF stored
  <2> QED BY <2>1, <1>5 DEF defaults, stored
<1>9. NoResurrection'
  BY <1>5, <1>8 DEF TokensInv, NoResurrection, stored
<1>10. AloneAt(q)'
  BY <1>3, <1>6 DEF AloneAt, Is
<1>11. OrderlyAt(q) => IF q \in running' THEN OrderlyAt(q)' ELSE OneDefault'
  <2> SUFFICES ASSUME OrderlyAt(q) PROVE IF q \in running' THEN OrderlyAt(q)' ELSE OneDefault'
    OBVIOUS
  <2>1. /\ n \in stored /\ op[q].flag = docs[n].isDefault
        /\ \E d \in Names : defaults = {d}
    BY <1>1 DEF OrderlyAt, Is, OneDefault
  <2>2. n \in defaults <=> op[q].flag
    BY <2>1 DEF defaults
  <2>3. CASE op[q].flag
    <3>1. defaults' = {}
      BY <1>8, <2>1, <2>2, <2>3
    <3> QED BY <3>1, <2>3, <1>3, <1>6, <1>7 DEF OrderlyAt, Is
  <2>4. CASE ~op[q].flag
    <3>1. defaults' = defaults
      BY <1>8, <2>2, <2>4
    <3> QED BY <3>1, <2>1, <2>4, <1>7 DEF OneDefault
  <2> QED BY <2>3, <2>4
<1> QED BY <1>1, <1>2, <1>6, <1>7, <1>9, <1>10, <1>11, OwnStep DEF TokensInv, TokensTypeOK

\* A change of an expiry is none of the defaults.
LEMMA ExpiryOnly ==
  ASSUME TokensInv, NEW n \in stored, NEW v \in {"far", "near"}, NEW doc,
         doc = [docs[n] EXCEPT !.expiry = v], docs' = [docs EXCEPT ![n] = doc]
  PROVE  /\ docs' \in [Names -> Doc \cup {NoDoc}]
         /\ stored' = stored /\ defaults' = defaults
         /\ \A m \in Names : docs'[m].isDefault = docs[m].isDefault
<1>1. docs[n] \in Doc /\ n \in Names /\ NoDoc \notin Doc
  BY Typed DEF stored, TokensInv, TokensTypeOK, Doc, NoDoc
<1>2. doc \in Doc /\ doc.isDefault = docs[n].isDefault
  BY <1>1 DEF Doc
<1>3. docs'[n] = doc /\ \A m \in Names \ {n} : docs'[m] = docs[m]
  BY <1>1 DEF TokensInv, TokensTypeOK
<1>4. docs' \in [Names -> Doc \cup {NoDoc}]
  BY <1>1, <1>2 DEF TokensInv, TokensTypeOK, Doc
<1>5. stored' = stored
  BY <1>1, <1>2, <1>3 DEF stored
<1>6. \A m \in Names : docs'[m].isDefault = docs[m].isDefault
  BY <1>2, <1>3
<1>7. defaults' = defaults
  BY <1>5, <1>6 DEF defaults, stored
<1> QED BY <1>4, <1>5, <1>6, <1>7

LEMMA PersistRefreshStep ==
  ASSUME TokensInv, NEW q \in Ops, PersistRefresh(q) PROVE TokensInv'
<1> DEFINE n == op[q].name
           new == [op[q] EXCEPT !.pc = "done"]
<1>1. q \in running /\ op[q].pc = "exchanging" /\ n \in Names
  BY DEF PersistRefresh, running, Is, TokensInv, PlaceOf
<1>2. op' = [op EXCEPT ![q] = new] /\ UNCHANGED <<alone, orderly, lastSet>>
  BY DEF PersistRefresh, Moves
<1>3. new \in OpType /\ new.pc = "done"
  BY Typed DEF OpType, TokenPlaces
<1> HIDE DEF new
<1>4. /\ docs' \in [Names -> Doc \cup {NoDoc}]
      /\ stored' = stored /\ defaults' = defaults
  <2>1. CASE n \notin stored
    <3>1. docs' = docs
      BY <2>1 DEF PersistRefresh
    <3> QED BY <3>1, Typed DEF stored, defaults
  <2>2. CASE n \in stored
    <3>1. updateDocs({n}, "expiry", "far")
      BY <2>2 DEF PersistRefresh
    <3>2. PICK doc : doc = [docs[n] EXCEPT !.expiry = "far"]
      OBVIOUS
    <3>3. docs' = [docs EXCEPT ![n] = doc]
      BY <3>1, <3>2, <1>1, Typed DEF updateDocs
    <3> QED BY <2>2, <3>2, <3>3, ExpiryOnly
  <2> QED BY <2>1, <2>2
<1>5. TokensTypeOK' /\ op'[q] = new
  BY <1>2, <1>3, <1>4, OwnTypes DEF TokensInv, TokensTypeOK
<1>6. PlaceOf(q)' /\ q \notin running'
  BY <1>3, <1>5 DEF PlaceOf, Is, running
<1>7. NoResurrection'
  BY <1>2, <1>4 DEF TokensInv, NoResurrection
<1>8. OrderlyAt(q) => OneDefault'
  BY <1>1, <1>4 DEF OrderlyAt, Is, OneDefault
<1> QED BY <1>1, <1>2, <1>5, <1>6, <1>7, <1>8, OwnStep DEF TokensInv, TokensTypeOK

LEMMA ApproachStep ==
  ASSUME TokensInv, NEW n \in Names, Approach(n) PROVE TokensInv'
<1>1. docs[n].expiry = "far" /\ UNCHANGED <<op, alone, orderly, lastSet>>
  BY DEF Approach
<1>2. n \in stored
  BY <1>1 DEF stored, NoDoc
<1>3. PICK doc : doc = [docs[n] EXCEPT !.expiry = "near"] /\ docs' = [docs EXCEPT ![n] = doc]
  BY DEF Approach
<1>4. /\ docs' \in [Names -> Doc \cup {NoDoc}]
      /\ stored' = stored /\ defaults' = defaults
      /\ \A m \in Names : docs'[m].isDefault = docs[m].isDefault
  BY <1>2, <1>3, ExpiryOnly
<1>5. TokensTypeOK' /\ NoResurrection'
  BY <1>1, <1>4 DEF TokensInv, TokensTypeOK, Doc, NoResurrection
<1>6. running' = running /\ (OneDefault' <=> OneDefault)
  BY <1>1, <1>4 DEF running, OneDefault
<1>7. ASSUME NEW q \in Ops, PlaceOf(q)
      PROVE  /\ PlaceOf(q)' /\ (AloneAt(q) => AloneAt(q)')
             /\ q \in running /\ OrderlyAt(q) => OrderlyAt(q)'
  <2>1. PlaceOf(q)'
    BY <1>1, <1>6, <1>7 DEF PlaceOf, Is
  <2>2. AloneAt(q) => AloneAt(q)'
    BY <1>1, <1>4 DEF AloneAt, Is
  <2>3. q \in running /\ OrderlyAt(q) => OrderlyAt(q)'
    BY <1>1, <1>4, <1>6, <1>7 DEF OrderlyAt, Is, PlaceOf
  <2> QED BY <2>1, <2>2, <2>3
<1>8. \A q \in Ops : PlaceOf(q)' /\ (alone'[q] /\ q \in running' => RunsAlone(q)')
  BY <1>1, <1>6, <1>7 DEF TokensInv, RunsAlone
<1>9. orderly' => IF running' = {} THEN OneDefault' ELSE \A q \in running' : alone'[q] /\ OrderlyAt(q)'
  BY <1>1, <1>6, <1>7 DEF TokensInv, running
<1> QED BY <1>5, <1>8, <1>9 DEF TokensInv

LEMMA TokenSteps ==
  ASSUME TokensInv, NEW q \in Ops, TokenStep(q) PROVE TokensInv'
<1>1. CASE Login(q)
  BY <1>1, StartStep, TokensAssumption DEF Login, Jobs
<1>2. ASSUME NEW n \in Names, Register(q, n) PROVE TokensInv'
  BY <1>2, StartStep DEF Register, Jobs
<1>3. ASSUME NEW n \in Names, Select(q, n) PROVE TokensInv'
  BY <1>3, StartStep DEF Select, Jobs
<1>4. ASSUME NEW n \in Names, Delete(q, n) PROVE TokensInv'
  BY <1>4, StartStep DEF Delete, Jobs
<1>5. ASSUME NEW n \in Names, GetToken(q, n) PROVE TokensInv'
  BY <1>5, StartStep DEF GetToken, Jobs
<1>6. CASE OpFails(q)
  BY <1>6, OpFailsStep DEF OpFails
<1> QED BY <1>1, <1>2, <1>3, <1>4, <1>5, <1>6, AskDefaultStep, FindDefaultStep, PutTokenStep,
           ListForClearStep, clearDefaultsStep, setDefaultTokenStep, ReadDocStep, deleteTokenStep,
           PickRemainingStep, PromoteStep, PersistRefreshStep DEF TokenStep

LEMMA TokensInvariance == TokensSpec => []TokensInv
<1>1. ASSUME TokensInv, UNCHANGED tokenVars PROVE TokensInv'
  BY <1>1 DEF tokenVars, TokensInv, TokensTypeOK, NoResurrection, PlaceOf, RunsAlone, AloneAt,
              OrderlyAt, OneDefault, Is, running, stored, defaults
<1>2. TokensInv /\ [TokensNext]_tokenVars => TokensInv'
  BY <1>1, TokenSteps, ApproachStep DEF TokensNext
<1> QED BY TokensInitially, <1>2, PTL DEF TokensSpec

\* A document that exists was saved after its last deletion, for any number of
\* tokens and operations, whatever fails (deleteToken, clearDefaults, maybeRefresh).
THEOREM DeletedStaysDeleted == TokensSpec => []NoResurrection
<1>1. TokensInv => NoResurrection
  BY DEF TokensInv
<1> QED BY <1>1, TokensInvariance, PTL

\* Operations one after the other leave a user who has tokens exactly one
\* default, for any number of tokens (saveToken, setDefaultToken, deleteToken).
THEOREM OneDefaultKept == TokensSpec => []OneDefaultAtRest
<1>1. TokensInv => OneDefaultAtRest
  BY FS_Singleton DEF TokensInv, OneDefaultAtRest, OneDefault
<1> QED BY <1>1, TokensInvariance, PTL

\* The step with which an operation that ran alone is done repairs the defaults.
LEMMA LastStepRepairs ==
  ASSUME TokensInv, [TokensNext]_tokenVars, NEW q \in Ops, alone[q], q \in running,
         op'[q].pc = "done"
  PROVE  Repaired(q)'
<1>1. op'[q] # op[q]
  BY DEF running
<1>2. TokenStep(q)
  <2>1. ASSUME NEW p \in Ops, p # q, TokenStep(p) PROVE op'[q] = op[q]
    BY <2>1, Typed DEF TokenStep, Login, Register, Select, Delete, GetToken, Start, AskDefault, Moves,
       FindDefault, PutToken, ListForClear, clearDefaults, setDefaultToken, ReadDoc, deleteToken,
       PickRemaining, Promote, PersistRefresh, OpFails, updateOrThrow
  <2>2. UNCHANGED tokenVars \/ (\E n \in Names : Approach(n)) => op' = op
    BY DEF tokenVars, Approach
  <2> QED BY <1>1, <2>1, <2>2 DEF TokensNext
<1>3. /\ op[q] \in OpType /\ PlaceOf(q) /\ AloneAt(q) /\ op[q].name \in Names
  BY Typed DEF TokensInv, RunsAlone, PlaceOf
<1>4. CASE PutToken(q)
  <2>1. op[q].job \in {"login", "register"} /\ op'[q].job = op[q].job
    BY <1>3, <1>4, Typed DEF PutToken, PlaceOf, Moves, OpType, Is
  <2>2. docs'[op[q].name] # NoDoc /\ docs'[op[q].name].isDefault = op[q].flag
    BY <1>3, <1>4, Typed DEF PutToken, NoDoc
  <2>3. \A m \in Names \ {op[q].name} : docs'[m] = docs[m]
    BY <1>4, Typed DEF PutToken
  <2>4. defaults' # {}
    <3>1. CASE op[q].flag
      BY <3>1, <2>2, <1>3 DEF defaults, stored
    <3>2. CASE ~op[q].flag
      <4>1. PICK d \in defaults : d # op[q].name
        BY <3>2, <1>3, <1>4 DEF AloneAt, PutToken
      <4> QED BY <4>1, <2>3 DEF defaults, stored
    <3> QED BY <3>1, <3>2
  <2> QED BY <2>1, <2>4 DEF Repaired
<1>5. CASE setDefaultToken(q)
  <2>1. defaults = {} /\ op[q].job = "select"
    BY <1>3, <1>5 DEF AloneAt, PlaceOf, setDefaultToken, Is
  <2>2. {op[q].name} \in SUBSET stored /\ updateDocs({op[q].name}, "isDefault", TRUE)
        /\ Moves(q, "done")
    <3>1. CASE Moves(q, "failed")
      BY <3>1, Typed DEF Moves, OpType
    <3> QED BY <3>1, <1>5 DEF setDefaultToken, updateOrThrow
  <2>3. defaults' = defaults \cup {op[q].name}
    BY <2>2, MarkingDocs DEF TokensInv
  <2>4. op'[q].job = "select" /\ op'[q].name = op[q].name
    BY <2>1, <2>2, Typed DEF Moves, OpType
  <2> QED BY <2>1, <2>3, <2>4 DEF Repaired
<1>6. CASE ReadDoc(q)
  <2>1. /\ op[q].job \in {"select", "delete", "get"} /\ op'[q].job = op[q].job
        /\ op'[q].name = op[q].name /\ docs' = docs
    BY <1>3, <1>6, Typed DEF ReadDoc, PlaceOf, OpType, Is
  <2>2. ~(op[q].job = "select" /\ op[q].name \in stored)
    BY <1>3, <1>6, Typed DEF ReadDoc, OpType
  <2> QED BY <2>1, <2>2 DEF Repaired, stored
<1>7. CASE deleteToken(q) \/ PickRemaining(q) \/ Promote(q) \/ PersistRefresh(q)
  <2>3. ASSUME deleteToken(q) PROVE op'[q].job = op[q].job
    BY <2>3, Typed DEF deleteToken, Moves, OpType
  <2>4. ASSUME PickRemaining(q) PROVE op'[q].job = op[q].job
    <3>1. CASE Moves(q, "done")
      BY <3>1, Typed DEF Moves, OpType
    <3>2. ASSUME NEW n \in stored, op' = [op EXCEPT ![q] = [@ EXCEPT !.pc = "promoting", !.seen = {n}]]
          PROVE  op'[q].job = op[q].job
      <4> DEFINE rec == [op[q] EXCEPT !.pc = "promoting", !.seen = {n}]
      <4>1. rec.job = op[q].job /\ op' = [op EXCEPT ![q] = rec]
        BY <3>2, Typed DEF OpType
      <4> HIDE DEF rec
      <4> QED BY <4>1, Typed
    <3> QED BY <2>4, <3>1, <3>2 DEF PickRemaining
  <2>5. ASSUME Promote(q) PROVE op'[q].job = op[q].job
    BY <2>5, Typed DEF Promote, updateOrThrow, Moves, OpType
  <2>6. ASSUME PersistRefresh(q) PROVE op'[q].job = op[q].job
    BY <2>6, Typed DEF PersistRefresh, Moves, OpType
  <2>1. op'[q].job = op[q].job
    BY <1>7, <2>3, <2>4, <2>5, <2>6
  <2>2. op[q].job \in {"delete", "get"}
    BY <1>3, <1>7 DEF deleteToken, PickRemaining, Promote, PersistRefresh, PlaceOf, Is
  <2> QED BY <2>1, <2>2 DEF Repaired
<1>8. ~(AskDefault(q) \/ FindDefault(q) \/ ListForClear(q) \/ clearDefaults(q) \/ OpFails(q))
  <2>1. ~AskDefault(q) /\ ~OpFails(q)
    BY Typed DEF AskDefault, OpFails, Moves, OpType
  <2>2. ASSUME NEW rec, op' = [op EXCEPT ![q] = rec] PROVE rec.pc = "done"
    BY <2>2, Typed
  <2>3. ASSUME ListForClear(q) PROVE FALSE
    <3> DEFINE rec == [op[q] EXCEPT !.pc = "clearing", !.seen = stored]
    <3>1. rec.pc = "clearing" /\ op' = [op EXCEPT ![q] = rec]
      BY <2>3, Typed DEF ListForClear, OpType
    <3> HIDE DEF rec
    <3> QED BY <3>1, <2>2
  <2>4. ASSUME FindDefault(q) PROVE FALSE
    <3>1. PICK flag : op' = [op EXCEPT ![q] = [op[q] EXCEPT !.pc = "putting", !.flag = flag]]
      <4>1. PICK d : op' = [op EXCEPT ![q] = [op[q] EXCEPT !.pc = "putting", !.flag = d \in {NoName, op[q].name}]]
        BY <2>4 DEF FindDefault
      <4> DEFINE flag == d \in {NoName, op[q].name}
      <4>2. op' = [op EXCEPT ![q] = [op[q] EXCEPT !.pc = "putting", !.flag = flag]]
        BY <4>1
      <4> HIDE DEF flag
      <4> QED BY <4>2
    <3> DEFINE rec == [op[q] EXCEPT !.pc = "putting", !.flag = flag]
    <3>2. rec.pc = "putting" /\ op' = [op EXCEPT ![q] = rec]
      BY <3>1, Typed DEF OpType
    <3> HIDE DEF rec
    <3> QED BY <3>2, <2>2
  <2>5. ASSUME clearDefaults(q) PROVE FALSE
    <3>1. ~Moves(q, "failed")
      BY Typed DEF Moves, OpType
    <3> DEFINE place == clearedThen(q)
               rec == [op[q] EXCEPT !.pc = place, !.flag = TRUE, !.seen = {}]
    <3>2. op' = [op EXCEPT ![q] = rec] /\ place # "done"
      BY <2>5, <3>1 DEF clearDefaults, clearedThen
    <3> HIDE DEF place
    <3>3. rec.pc = place
      BY Typed DEF OpType
    <3> HIDE DEF rec
    <3> QED BY <3>2, <3>3, <2>2
  <2> QED BY <2>1, <2>3, <2>4, <2>5
<1>9. ~(Login(q) \/ \E n \in Names : Register(q, n) \/ Select(q, n) \/ Delete(q, n) \/ GetToken(q, n))
  BY DEF Login, Register, Select, Delete, GetToken, Start, Is, running
<1> QED BY <1>2, <1>4, <1>5, <1>6, <1>7, <1>8, <1>9 DEF TokenStep

\* However operations before it overlapped or failed, an operation that ran by
\* itself leaves the defaults repaired when it is done (setDefaultToken, saveToken).
THEOREM AloneMeansRepaired == TokensSpec => AloneRepairs
<1>1. TokensInv /\ [TokensNext]_tokenVars =>
        [\A q \in Ops : alone[q] /\ q \in running /\ op'[q].pc = "done" => Repaired(q)']_tokenVars
  BY LastStepRepairs
<1> QED BY <1>1, TokensInvariance, PTL DEF AloneRepairs, TokensSpec
-----------------------------------------------------------------------------
(* The clones of an ad set: one claim of a key at a time.                    *)
Claiming == {"idle", "reading", "claiming"}
Creating == {"creating", "savingAdSet", "copying", "savingAd", "overriding", "savingCreative",
             "failing"}
Claimed(r) == claimedAt[r] # -1

\* As much of the types as the argument needs.
Shape ==
  /\ cloneNow \in Nat
  /\ DOMAIN record = {"state", "signature", "startedAt", "created", "result"}
  /\ record.startedAt \in Nat /\ record.startedAt <= cloneNow
  /\ DOMAIN clone = Runs /\ \A r \in Runs : "pc" \in DOMAIN clone[r]
  /\ claimedAt \in [Runs -> Int]

\* A run claims before it creates anything, and once. The record is there from
\* the first claim on, and no claim is younger than the record says.
ClaimedFirst ==
  \A r \in Runs :
    /\ clone[r].pc \in Claiming => ~Claimed(r)
    /\ clone[r].pc \in Creating => Claimed(r)
    /\ AdSet(r) \in exists => Claimed(r)
    /\ Claimed(r) => claimedAt[r] <= record.startedAt /\ record.state # "none"

ClaimsApart ==
  \A r, s \in Runs :
    r # s /\ Claimed(r) /\ Claimed(s) =>
      claimedAt[r] - claimedAt[s] > Stale \/ claimedAt[s] - claimedAt[r] > Stale

ClaimInv == Shape /\ ClaimedFirst /\ ClaimsApart

LEMMA InitialClaims == CloneInit => ClaimInv
<1> SUFFICES ASSUME CloneInit PROVE ClaimInv
  OBVIOUS
<1>1. Shape
  BY DEF CloneInit, Shape, NoRecord
<1>2. ClaimedFirst
  BY DEF CloneInit, ClaimedFirst, Claimed, Claiming, Creating
<1>3. ClaimsApart
  BY DEF CloneInit, ClaimsApart, Claimed
<1> QED BY <1>1, <1>2, <1>3 DEF ClaimInv

\* The record says of its claim what it said before.
ClaimStands ==
  /\ DOMAIN record' = DOMAIN record
  /\ record'.startedAt = record.startedAt
  /\ record.state # "none" => record'.state # "none"

\* An update moves neither the beginning of the claim nor the record away.
LEMMA UpdateKeepsClaim ==
  ASSUME Shape, NEW fields, update(fields), "startedAt" \notin DOMAIN fields,
         "state" \in DOMAIN fields => fields["state"] # "none"
  PROVE  ClaimStands
<1>1. DOMAIN record' = DOMAIN record
  BY DEF update
<1>2. record'["startedAt"] = record["startedAt"]
  BY DEF Shape, update
<1>3. record["state"] # "none" => record'["state"] # "none"
  BY DEF Shape, update
<1> QED BY <1>1, <1>2, <1>3 DEF ClaimStands

\* Run r moves on to a place it can only be at if it was claiming, or creating,
\* before; the others stay where they are.
MovesOn(r) ==
  /\ DOMAIN clone' = Runs
  /\ \A s \in Runs \ {r} : clone'[s] = clone[s]
  /\ "pc" \in DOMAIN clone'[r]
  /\ clone'[r].pc \in Claiming => clone[r].pc \in Claiming
  /\ clone'[r].pc \in Creating => clone[r].pc \in Creating

LEMMA GoingOn ==
  ASSUME Shape, NEW r \in Runs, NEW place, GoOn(r, place),
         place \in Claiming => clone[r].pc \in Claiming,
         place \in Creating => clone[r].pc \in Creating
  PROVE  MovesOn(r)
BY DEF Shape, GoOn, MovesOn

\* A step that claims nothing keeps the invariant if only a run past its claim
\* creates.
LEMMA NothingClaimed ==
  ASSUME ClaimInv, NEW r \in Runs, MovesOn(r), ClaimStands,
         UNCHANGED <<cloneNow, claimedAt>>,
         \A s \in Runs : AdSet(s) \in exists' => AdSet(s) \in exists \/ clone[s].pc \in Creating
  PROVE  ClaimInv'
<1>1. Shape'
  BY DEF ClaimInv, Shape, MovesOn, ClaimStands
<1>2. ClaimedFirst'
  <2> SUFFICES ASSUME NEW s \in Runs
               PROVE  /\ clone'[s].pc \in Claiming => ~Claimed(s)'
                      /\ clone'[s].pc \in Creating => Claimed(s)'
                      /\ AdSet(s) \in exists' => Claimed(s)'
                      /\ Claimed(s)' => claimedAt'[s] <= record'.startedAt /\ record'.state # "none"
    BY DEF ClaimedFirst, AdSet
  <2>1. Claimed(s)' <=> Claimed(s)
    BY DEF Claimed
  <2>2. /\ clone'[s].pc \in Claiming => clone[s].pc \in Claiming
        /\ clone'[s].pc \in Creating => clone[s].pc \in Creating
    BY DEF MovesOn
  <2>3. Claimed(s) => claimedAt'[s] <= record'.startedAt /\ record'.state # "none"
    BY DEF ClaimInv, ClaimedFirst, ClaimStands
  <2> QED BY <2>1, <2>2, <2>3 DEF ClaimInv, ClaimedFirst
<1>3. ClaimsApart'
  BY DEF ClaimInv, ClaimsApart, Claimed
<1> QED BY <1>1, <1>2, <1>3 DEF ClaimInv

\* An unchanged record stands.
LEMMA RecordStands == UNCHANGED record => ClaimStands
BY DEF ClaimStands

\* What is not an ad set may be created at any time, an ad set by a run past its
\* claim.
LEMMA PostKeepsClaims ==
  ASSUME ClaimInv, NEW r \in Runs, clone[r].pc \in Creating, NEW x, NEW ad, NEW then, NEW otherwise,
         PostNew(r, x, ad, then, otherwise), {then, otherwise} \subseteq Creating,
         \A s \in Runs : AdSet(s) = x => s = r
  PROVE  ClaimInv'
<1>1. MovesOn(r)
  <2>1. PICK c : /\ clone' = [clone EXCEPT ![r] = c]
                 /\ "pc" \in DOMAIN c /\ c.pc \in {then, otherwise}
    <3>1. CASE clone' = [clone EXCEPT ![r] = [pc |-> then, ad |-> ad, made |-> clone[r].made \cup {x}]]
      <4> DEFINE c == [pc |-> then, ad |-> ad, made |-> clone[r].made \cup {x}]
      <4>1. "pc" \in DOMAIN c /\ c.pc = then
        OBVIOUS
      <4> HIDE DEF c
      <4> QED BY <3>1, <4>1 DEF c
    <3>2. CASE clone' = [clone EXCEPT ![r] = [clone[r] EXCEPT !.pc = otherwise, !.ad = ad]]
      <4> DEFINE c == [clone[r] EXCEPT !.pc = otherwise, !.ad = ad]
      <4>1. "pc" \in DOMAIN c /\ c.pc = otherwise
        BY DEF ClaimInv, Shape
      <4> QED BY <3>2, <4>1
    <3> QED BY <3>1, <3>2 DEF PostNew
  <2>2. /\ DOMAIN clone' = Runs /\ clone'[r] = c
        /\ \A s \in Runs \ {r} : clone'[s] = clone[s]
    BY <2>1 DEF ClaimInv, Shape
  <2>3. clone'[r].pc \in Creating
    BY <2>1, <2>2
  <2> QED BY <2>1, <2>2, <2>3 DEF MovesOn, Claiming, Creating
<1>2. \A s \in Runs : AdSet(s) \in exists' => AdSet(s) \in exists \/ clone[s].pc \in Creating
  <2> SUFFICES ASSUME NEW s \in Runs, AdSet(s) \in exists', AdSet(s) \notin exists
               PROVE  clone[s].pc \in Creating
    OBVIOUS
  <2>1. exists' \subseteq exists \cup {x}
    BY DEF PostNew
  <2>2. AdSet(s) = x
    BY <2>1
  <2> QED BY <2>2
<1>3. UNCHANGED <<cloneNow, record, claimedAt>>
  BY DEF PostNew
<1> QED BY <1>1, <1>2, <1>3, RecordStands, NothingClaimed

\* The rest of what a run does after its claim.
LEMMA WritingKeepsClaims ==
  ASSUME ClaimInv, NEW r \in Runs, NEW place, GoOn(r, place), clone[r].pc \in Creating,
         place \in Creating \cup {"over"}, ClaimStands, UNCHANGED <<cloneNow, exists, claimedAt>>
  PROVE  ClaimInv'
<1>1. MovesOn(r)
  BY GoingOn DEF ClaimInv, Claiming, Creating
<1> QED BY <1>1, NothingClaimed

LEMMA SaveKeepsClaims ==
  ASSUME ClaimInv, NEW r \in Runs, clone[r].pc \in Creating, NEW then, NEW otherwise,
         Save(r, then, otherwise), {then, otherwise} \subseteq Creating \cup {"over"}
  PROVE  ClaimInv'
<1>1. CASE update([created |-> clone[r].made]) /\ GoOn(r, then)
  <2>1. ClaimStands
    BY <1>1, UpdateKeepsClaim DEF ClaimInv
  <2> QED BY <1>1, <2>1, WritingKeepsClaims DEF Save
<1>2. CASE UNCHANGED record /\ GoOn(r, otherwise)
  BY <1>2, RecordStands, WritingKeepsClaims DEF Save
<1> QED BY <1>1, <1>2 DEF Save

LEMMA AnswerKeepsClaims ==
  ASSUME ClaimInv, NEW r \in Runs, AnswerFromRecord(r)
  PROVE  ClaimInv'
<1>1. GoOn(r, "over") /\ UNCHANGED <<cloneNow, record, exists, claimedAt>>
  BY DEF AnswerFromRecord
<1>2. MovesOn(r)
  BY <1>1, GoingOn DEF ClaimInv, Claiming, Creating
<1> QED BY <1>1, <1>2, RecordStands, NothingClaimed

\* A claim is made where there was none, or when the one before it, and with it
\* every other, is stale.
LEMMA ClaimKeepsClaims ==
  ASSUME ClaimInv, NEW r \in Runs, Claim(r)
  PROVE  ClaimInv'
<1>1. CASE ~mayClaim /\ AnswerFromRecord(r)
  BY <1>1, AnswerKeepsClaims
<1>2. CASE ~(~mayClaim /\ AnswerFromRecord(r))
  <2>1. /\ mayClaim /\ At(r, "claiming")
        /\ record' = [state |-> "in_progress", signature |-> payload[r], startedAt |-> cloneNow,
                      created |-> {}, result |-> NoRun]
        /\ claimedAt' = [claimedAt EXCEPT ![r] = cloneNow]
        /\ GoOn(r, "creating")
        /\ UNCHANGED <<cloneNow, exists>>
    BY <1>2 DEF Claim, NoRecord
  <2>2. ~Claimed(r)
    BY <2>1 DEF At, ClaimInv, ClaimedFirst, Claiming
  <2>3. /\ claimedAt'[r] = cloneNow /\ claimedAt'[r] \in Nat
        /\ \A s \in Runs \ {r} : claimedAt'[s] = claimedAt[s]
        /\ claimedAt' \in [Runs -> Int]
    BY <2>1 DEF ClaimInv, Shape
  <2>4. /\ DOMAIN clone' = Runs /\ clone'[r].pc = "creating"
        /\ \A s \in Runs \ {r} : clone'[s] = clone[s]
        /\ \A s \in Runs : "pc" \in DOMAIN clone'[s]
    BY <2>1 DEF GoOn, ClaimInv, Shape
  <2>5. Shape'
    BY <2>1, <2>3, <2>4 DEF ClaimInv, Shape
  <2>6. ClaimedFirst'
    <3> SUFFICES ASSUME NEW s \in Runs
                 PROVE  /\ clone'[s].pc \in Claiming => ~Claimed(s)'
                        /\ clone'[s].pc \in Creating => Claimed(s)'
                        /\ AdSet(s) \in exists' => Claimed(s)'
                        /\ Claimed(s)' => claimedAt'[s] <= record'.startedAt /\ record'.state # "none"
      BY DEF ClaimedFirst, AdSet
    <3>1. CASE s = r
      <4>1. Claimed(s)' /\ clone'[s].pc \notin Claiming
        BY <3>1, <2>3, <2>4 DEF Claimed, Claiming
      <4>2. claimedAt'[s] <= record'.startedAt /\ record'.state # "none"
        BY <3>1, <2>1, <2>3
      <4> QED BY <4>1, <4>2
    <3>2. CASE s # r
      <4>1. (Claimed(s)' <=> Claimed(s)) /\ clone'[s] = clone[s] /\ claimedAt'[s] = claimedAt[s]
        BY <3>2, <2>3, <2>4 DEF Claimed
      <4>2. Claimed(s) => claimedAt[s] <= cloneNow
        BY DEF ClaimInv, Shape, ClaimedFirst
      <4>3. record'.startedAt = cloneNow /\ record'.state # "none"
        BY <2>1
      <4> QED BY <4>1, <4>2, <4>3, <2>1 DEF ClaimInv, ClaimedFirst
    <3> QED BY <3>1, <3>2
  <2>7. \A s \in Runs : Claimed(s) => cloneNow - claimedAt[s] > Stale
    <3> SUFFICES ASSUME NEW s \in Runs, Claimed(s) PROVE cloneNow - claimedAt[s] > Stale
      OBVIOUS
    <3>1. claimedAt[s] <= record.startedAt /\ record # NoRecord
      BY DEF ClaimInv, ClaimedFirst, NoRecord
    <3>2. cloneNow - record.startedAt > Stale
      BY <3>1, <2>1 DEF mayClaim, isStale
    <3> QED BY <3>1, <3>2, CloneAssumption DEF ClaimInv, Shape
  <2>8. ClaimsApart'
    <3> SUFFICES ASSUME NEW s \in Runs, NEW t \in Runs, s # t, Claimed(s)', Claimed(t)'
                 PROVE  \/ claimedAt'[s] - claimedAt'[t] > Stale
                        \/ claimedAt'[t] - claimedAt'[s] > Stale
      BY DEF ClaimsApart
    <3>1. CASE s = r
      BY <3>1, <2>3, <2>7 DEF Claimed
    <3>2. CASE t = r
      BY <3>2, <2>3, <2>7 DEF Claimed
    <3>3. CASE s # r /\ t # r
      BY <3>3, <2>3 DEF Claimed, ClaimInv, ClaimsApart
    <3> QED BY <3>1, <3>2, <3>3
  <2> QED BY <2>5, <2>6, <2>8 DEF ClaimInv
<1> QED BY <1>1, <1>2

LEMMA StepKeepsClaims == ClaimInv /\ [CloneNext]_cloneVars => ClaimInv'
<1> SUFFICES ASSUME ClaimInv, [CloneNext]_cloneVars PROVE ClaimInv'
  OBVIOUS
<1>1. CASE UNCHANGED cloneVars
  BY <1>1 DEF cloneVars, ClaimInv, Shape, ClaimedFirst, ClaimsApart, Claimed, AdSet
<1>2. CASE CloneTick
  <2>1. cloneNow' = cloneNow + 1 /\ UNCHANGED <<record, clone, exists, claimedAt>>
    BY <1>2 DEF CloneTick
  <2>2. Shape'
    BY <2>1 DEF ClaimInv, Shape
  <2> QED BY <2>1, <2>2 DEF ClaimInv, ClaimedFirst, ClaimsApart, Claimed, AdSet
<1>3. ASSUME NEW r \in Runs, CloneStep(r) PROVE ClaimInv'
  <2>1. CASE Look(r)
    <3>1. CASE AnswerFromRecord(r)
      BY <3>1, AnswerKeepsClaims
    <3>2. CASE GoOn(r, "reading") /\ UNCHANGED <<cloneNow, record, reused, exists, claimedAt>>
      <4>1. MovesOn(r)
        BY <3>2, <2>1, GoingOn DEF Look, At, ClaimInv, Claiming, Creating
      <4> QED BY <4>1, <3>2, RecordStands, NothingClaimed
    <3> QED BY <2>1, <3>1, <3>2 DEF Look
  <2>2. CASE ReadSource(r)
    <3>1. MovesOn(r)
      BY <2>2, GoingOn DEF ReadSource, At, ClaimInv, Claiming, Creating
    <3> QED BY <3>1, <2>2, RecordStands, NothingClaimed DEF ReadSource
  <2>3. CASE Claim(r)
    BY <2>3, ClaimKeepsClaims
  <2>4. CASE CreateAdSet(r)
    <3>1. clone[r].pc \in Creating /\ {"savingAdSet", "failing"} \subseteq Creating
      BY <2>4 DEF CreateAdSet, At, Creating
    <3>2. \A s \in Runs : AdSet(s) = AdSet(r) => s = r
      BY DEF AdSet
    <3> QED BY <3>1, <3>2, <2>4, PostKeepsClaims DEF CreateAdSet
  <2>5. CASE SaveAdSet(r)
    BY <2>5, SaveKeepsClaims DEF SaveAdSet, At, Creating
  <2>6. CASE CopyAd(r)
    <3>1. clone[r].pc \in Creating /\ {"savingAd", "copying"} \subseteq Creating
      BY <2>6 DEF CopyAd, At, Creating
    <3>2. \A s \in Runs, n \in Int : AdSet(s) # Ad(r, n)
      BY DEF AdSet, Ad
    <3>3. \A s \in Runs : AdSet(s) # Ad(r, clone[r].ad + 1)
      BY DEF AdSet, Ad
    <3> QED BY <3>1, <3>3, <2>6, PostKeepsClaims DEF CopyAd
  <2>7. CASE SaveAd(r)
    <3>1. clone[r].pc \in Creating
      BY <2>7 DEF SaveAd, At, Creating
    <3>2. PICK place \in {"overriding", "copying"} : Save(r, place, "over")
      BY <2>7 DEF SaveAd
    <3> QED BY <3>1, <3>2, SaveKeepsClaims DEF Creating
  <2>8. CASE SwapCreative(r)
    <3>1. clone[r].pc \in Creating /\ {"savingCreative", "copying"} \subseteq Creating
      BY <2>8 DEF SwapCreative, At, Creating
    <3>2. \A s \in Runs : AdSet(s) # Creative(r, clone[r].ad)
      BY DEF AdSet, Creative
    <3> QED BY <3>1, <3>2, <2>8, PostKeepsClaims DEF SwapCreative
  <2>9. CASE SaveCreative(r)
    BY <2>9, SaveKeepsClaims DEF SaveCreative, At, Creating
  <2>10. CASE Complete(r)
    <3>1. clone[r].pc \in Creating /\ UNCHANGED <<cloneNow, exists, claimedAt>>
      BY <2>10 DEF Complete, At, Creating
    <3>2. ClaimStands
      BY <2>10, UpdateKeepsClaim, RecordStands DEF Complete, ClaimInv
    <3>3. PICK place \in {"over", "failing"} : GoOn(r, place)
      BY <2>10 DEF Complete
    <3> QED BY <3>1, <3>2, <3>3, WritingKeepsClaims DEF Creating
  <2>11. CASE markFailed(r)
    <3>1. /\ clone[r].pc \in Creating /\ UNCHANGED <<cloneNow, exists, claimedAt>>
          /\ GoOn(r, "over")
      BY <2>11 DEF markFailed, At, Creating
    <3>2. ClaimStands
      BY <2>11, UpdateKeepsClaim, RecordStands DEF markFailed, ClaimInv
    <3> QED BY <3>1, <3>2, WritingKeepsClaims
  <2>12. CASE Die(r)
    <3>1. GoOn(r, "over") /\ UNCHANGED <<cloneNow, record, exists, claimedAt>>
      BY <2>12 DEF Die
    <3>2. MovesOn(r)
      BY <3>1, GoingOn DEF ClaimInv, Claiming, Creating
    <3> QED BY <3>1, <3>2, RecordStands, NothingClaimed
  <2> QED BY <1>3, <2>1, <2>2, <2>3, <2>4, <2>5, <2>6, <2>7, <2>8, <2>9, <2>10, <2>11, <2>12
          DEF CloneStep
<1> QED BY <1>1, <1>2, <1>3 DEF CloneNext

\* Whatever the calls do and wherever they die, two of them create an ad set
\* only when the later one's claim came after the earlier one's had gone stale
\* (claim of clone-bundle-store.ts, ads_clone_ad_set_bundle).
THEOREM OneBundlePerClaim == CloneSpec => []DuplicatesOnlyByTakeover
<1>1. ClaimInv => DuplicatesOnlyByTakeover
  BY DEF ClaimInv, ClaimedFirst, ClaimsApart, DuplicatesOnlyByTakeover
<1> QED BY InitialClaims, StepKeepsClaims, <1>1, PTL DEF CloneSpec

LEMMA ClaimInvariance == CloneSpec => []ClaimInv
  BY InitialClaims, StepKeepsClaims, PTL DEF CloneSpec
-----------------------------------------------------------------------------
(* The ledger. What a run has made and its record does not list, while its  *)
(* claim is the only one.                                                   *)

Missing(r) == clone[r].made \ record.created
Creatives(r) == {Creative(r, n) : n \in 1..Ads}

\* A run has made only what exists, and nothing before its claim.
MadeOf(r) ==
  /\ clone[r].made \subseteq exists
  /\ ~Claimed(r) => clone[r].made = {}
  /\ At(r, "overriding") => clone[r].ad \in 1..Ads
  /\ clone[r].pc \in Creating \ {"creating", "failing"} => AdSet(r) \in exists

\* A result that was passed on is that of the run, with the same arguments.
PassedOn(r) ==
  \A s \in Runs : reused[s] # NoRun =>
    /\ reused[s] = r /\ payload[s] = payload[r]
    /\ AdSet(r) \in exists /\ \E n \in 1..Ads : Ad(r, n) \in exists

\* The record lists everything but creatives, except for the ad set or the ad
\* that is being saved, or was when the run died.
LedgerOf(r) ==
  /\ record.state # "none" /\ record.signature = payload[r]
  /\ clone[r].pc \in Creating => record.state = "in_progress"
  /\ clone[r].pc \in Creating \ {"savingAdSet", "savingAd"} => Missing(r) \subseteq Creatives(r)
  /\ \E x \in Resources : Missing(r) \subseteq Creatives(r) \cup {x}
  /\ record.state = "completed" =>
       /\ Missing(r) \subseteq Creatives(r) /\ record.result = r
       /\ AdSet(r) \in exists /\ \E n \in 1..Ads : Ad(r, n) \in exists
  /\ record.state = "failed" => Missing(r) = {}
  /\ PassedOn(r)

LedgerInv ==
  /\ CloneTypeOK /\ \A r \in Runs : MadeOf(r)
  /\ claimants = {} => record = NoRecord /\ \A s \in Runs : reused[s] = NoRun
  /\ \A r \in Runs : claimants = {r} => LedgerOf(r)

Record == [state : {"in_progress", "completed", "failed"}, signature : Signatures,
           startedAt : 0..cloneNow, created : SUBSET Resources, result : Runs \cup {NoRun}]
Clone == [pc : {"over"} \cup Claiming \cup Creating, ad : 0..Ads, made : SUBSET Resources]

LEMMA CloneTypes ==
  CloneTypeOK <=>
    /\ cloneNow \in Nat /\ (record = NoRecord \/ record \in Record)
    /\ clone \in [Runs -> Clone] /\ reused \in [Runs -> Runs \cup {NoRun}]
    /\ exists \subseteq Resources /\ claimedAt \in [Runs -> -1..cloneNow]
<1>1. {"over"} \cup Claiming \cup Creating =
        {"idle", "reading", "claiming", "creating", "savingAdSet", "copying",
         "savingAd", "overriding", "savingCreative", "failing", "over"}
  BY DEF Claiming, Creating
<1> QED BY <1>1 DEF CloneTypeOK, Record, Clone

LEMMA CloneTypesNext ==
  CloneTypeOK' <=>
    /\ cloneNow' \in Nat /\ (record' = NoRecord \/ record' \in Record')
    /\ clone' \in [Runs -> Clone] /\ reused' \in [Runs -> Runs \cup {NoRun}]
    /\ exists' \subseteq Resources /\ claimedAt' \in [Runs -> -1..cloneNow']
<1>1. {"over"} \cup Claiming \cup Creating =
        {"idle", "reading", "claiming", "creating", "savingAdSet", "copying",
         "savingAd", "overriding", "savingCreative", "failing", "over"}
  BY DEF Claiming, Creating
<1> QED BY <1>1 DEF CloneTypeOK, Record, Clone

LEMMA NoughtNumbers == 0 \in 0..Ads
  BY CloneAssumption

LEMMA LedgerInitially == CloneInit => LedgerInv
<1> SUFFICES ASSUME CloneInit PROVE LedgerInv
  OBVIOUS
<1>1. CloneTypeOK
  BY CloneTypes, CloneAssumption DEF CloneInit, Clone, Claiming
<1>2. claimants = {}
  BY DEF CloneInit, claimants
<1>3. \A r \in Runs : MadeOf(r)
  BY DEF CloneInit, MadeOf, At, Creating
<1> QED BY <1>1, <1>2, <1>3 DEF LedgerInv, CloneInit

\* What an update leaves of a record.
LEMMA UpdatedRecord ==
  ASSUME record \in Record, NEW fields, update(fields), DOMAIN fields \subseteq DOMAIN record,
         "state" \in DOMAIN fields => fields["state"] \in {"completed", "failed"},
         "signature" \notin DOMAIN fields, "startedAt" \notin DOMAIN fields,
         "created" \in DOMAIN fields => fields["created"] \in SUBSET Resources,
         "result" \in DOMAIN fields => fields["result"] \in Runs
  PROVE  /\ record' \in Record
         /\ record'.state = IF "state" \in DOMAIN fields THEN fields["state"] ELSE record.state
         /\ record'.signature = record.signature
         /\ record'.created = IF "created" \in DOMAIN fields THEN fields["created"] ELSE record.created
         /\ record'.result = IF "result" \in DOMAIN fields THEN fields["result"] ELSE record.result
<1>1. DOMAIN record = {"state", "signature", "startedAt", "created", "result"}
  BY DEF Record
<1>2. \A f \in DOMAIN record : record'[f] = IF f \in DOMAIN fields THEN fields[f] ELSE record[f]
  BY DEF update
<1>3. /\ record'["state"] = IF "state" \in DOMAIN fields THEN fields["state"] ELSE record["state"]
      /\ record'["signature"] = record["signature"] /\ record'["startedAt"] = record["startedAt"]
      /\ record'["created"] = IF "created" \in DOMAIN fields THEN fields["created"] ELSE record["created"]
      /\ record'["result"] = IF "result" \in DOMAIN fields THEN fields["result"] ELSE record["result"]
  BY <1>1, <1>2
<1>4. record' = [f \in DOMAIN record |-> record'[f]]
  BY DEF update
<1>5. record' \in Record
  BY <1>1, <1>3, <1>4 DEF Record
<1> QED BY <1>3, <1>5

LEMMA Claimants ==
  ASSUME CloneTypeOK
  PROVE  /\ claimants \subseteq Runs
         /\ \A r \in Runs : r \in claimants <=> Claimed(r)
  BY CloneTypes, SMT DEF claimants, Claimed

\* A run past its claim works on its own part of the ledger.
LEMMA CreatingStep ==
  ASSUME LedgerInv, ClaimInv, NEW r \in Runs, clone[r].pc \in Creating,
         UNCHANGED <<claimedAt, reused>>, exists \subseteq exists',
         \A s \in Runs \ {r} : clone'[s] = clone[s],
         CloneTypeOK', MadeOf(r)', LedgerOf(r) => LedgerOf(r)'
  PROVE  LedgerInv'
<1>1. claimants' = claimants /\ r \in claimants
  BY Claimants DEF claimants, LedgerInv, ClaimInv, ClaimedFirst
<1>2. \A s \in Runs \ {r} : MadeOf(s)'
  BY DEF LedgerInv, MadeOf, Claimed, At, AdSet
<1> QED BY <1>1, <1>2 DEF LedgerInv

\* Before its claim, or when it dies, a run may at most be given a result.
LEMMA OtherStep ==
  ASSUME LedgerInv, ClaimInv, NEW r \in Runs, NEW place \in {"over", "reading", "claiming"},
         GoOn(r, place), place # "over" => clone[r].pc \in Claiming,
         UNCHANGED <<cloneNow, record, exists, claimedAt>>,
         \/ UNCHANGED reused
         \/ /\ record.signature = payload[r] /\ record.state = "completed"
            /\ reused' = [reused EXCEPT ![r] = record.result]
  PROVE  LedgerInv'
<1>1. clone' \in [Runs -> Clone] /\ \A s \in Runs \ {r} : clone'[s] = clone[s]
  BY CloneTypes DEF LedgerInv, GoOn, Clone, Claiming
<1>2. clone'[r].pc = place /\ clone'[r].made = clone[r].made
  BY CloneTypes DEF LedgerInv, GoOn, Clone
<1>3. CloneTypeOK'
  <2>1. reused' \in [Runs -> Runs \cup {NoRun}]
    <3>1. record.state = "completed" => record.result \in Runs \cup {NoRun}
      BY CloneTypes DEF LedgerInv, Record, NoRecord
    <3> QED BY <3>1, CloneTypes DEF LedgerInv
  <2>2. record' = NoRecord \/ record' \in Record'
    BY CloneTypes DEF LedgerInv, Record
  <2> QED BY <1>1, <2>1, <2>2, CloneTypes, CloneTypesNext DEF LedgerInv
<1>4. \A s \in Runs : MadeOf(s)'
  <2>1. MadeOf(r)'
    BY <1>2 DEF LedgerInv, MadeOf, Claimed, At, Creating
  <2>2. \A s \in Runs \ {r} : MadeOf(s)'
    BY <1>1 DEF LedgerInv, MadeOf, Claimed, At, AdSet
  <2> QED BY <2>1, <2>2
<1>5. claimants' = claimants
  BY DEF claimants
<1>6. ASSUME claimants = {} PROVE \A s \in Runs : reused'[s] = NoRun
  BY <1>6 DEF LedgerInv, NoRecord
<1>7. ASSUME NEW s \in Runs, claimants = {s} PROVE LedgerOf(s)'
  <2>1. LedgerOf(s)
    BY <1>7 DEF LedgerInv
  <2>2. Missing(s)' = Missing(s)
    BY <1>1, <1>2 DEF Missing
  <2>3. clone'[s].pc \in Creating => clone'[s].pc = clone[s].pc
    BY <1>1, <1>2 DEF Creating, Claiming
  <2>4. PassedOn(s)'
    <3>1. CASE UNCHANGED reused
      BY <3>1, <2>1 DEF LedgerOf, PassedOn, AdSet, Ad
    <3>2. CASE /\ record.signature = payload[r] /\ record.state = "completed"
               /\ reused' = [reused EXCEPT ![r] = record.result]
      <4>1. /\ payload[r] = payload[s] /\ record.result = s
            /\ AdSet(s) \in exists /\ \E n \in 1..Ads : Ad(s, n) \in exists
        BY <3>2, <2>1 DEF LedgerOf
      <4>2. reused'[r] = s /\ \A t \in Runs \ {r} : reused'[t] = reused[t]
        BY <3>2, <4>1, CloneTypes DEF LedgerInv
      <4> QED BY <4>1, <4>2, <2>1 DEF LedgerOf, PassedOn, AdSet, Ad
    <3> QED BY <3>1, <3>2
  <2>5. Creatives(s)' = Creatives(s)
    BY DEF Creatives, Creative
  <2> QED BY <2>1, <2>2, <2>3, <2>4, <2>5 DEF LedgerOf, Resources, AdSet, Ad
<1> QED BY <1>3, <1>4, <1>5, <1>6, <1>7 DEF LedgerInv

LEMMA AnswerStep ==
  ASSUME LedgerInv, ClaimInv, NEW r \in Runs, AnswerFromRecord(r) PROVE LedgerInv'
<1>1. /\ GoOn(r, "over") /\ UNCHANGED <<cloneNow, record, exists, claimedAt>>
      /\ reused' = [reused EXCEPT ![r] =
           IF record.signature = payload[r] /\ record.state = "completed" THEN record.result ELSE @]
  BY DEF AnswerFromRecord
<1>2. \/ UNCHANGED reused
      \/ /\ record.signature = payload[r] /\ record.state = "completed"
         /\ reused' = [reused EXCEPT ![r] = record.result]
  BY <1>1, CloneTypes DEF LedgerInv
<1> QED BY <1>1, <1>2, OtherStep

\* A claim is the first, or ends the only one: it keeps what is said of one.
LEMMA ClaimStep ==
  ASSUME LedgerInv, ClaimInv, ClaimInv', NEW r \in Runs, Claim(r) PROVE LedgerInv'
<1>1. CASE ~mayClaim /\ AnswerFromRecord(r)
  BY <1>1, AnswerStep
<1>2. CASE ~(~mayClaim /\ AnswerFromRecord(r))
  <2>1. /\ At(r, "claiming")
        /\ record' = [state |-> "in_progress", signature |-> payload[r], startedAt |-> cloneNow,
                      created |-> {}, result |-> NoRun]
        /\ claimedAt' = [claimedAt EXCEPT ![r] = cloneNow]
        /\ GoOn(r, "creating") /\ UNCHANGED <<cloneNow, reused, exists>>
    BY <1>2 DEF Claim, NoRecord
  <2>2. ~Claimed(r) /\ clone[r].made = {}
    BY <2>1 DEF At, LedgerInv, ClaimInv, ClaimedFirst, Claiming, MadeOf
  <2>3. /\ clone' \in [Runs -> Clone] /\ clone'[r].pc = "creating" /\ clone'[r].made = {}
        /\ \A s \in Runs \ {r} : clone'[s] = clone[s]
    BY <2>1, <2>2, CloneTypes DEF LedgerInv, GoOn, Clone, Creating
  <2>4. /\ claimedAt' \in [Runs -> -1..cloneNow] /\ claimedAt'[r] = cloneNow
        /\ \A s \in Runs \ {r} : claimedAt'[s] = claimedAt[s]
    BY <2>1, CloneTypes DEF LedgerInv
  <2>5. CloneTypeOK'
    <3>1. record' \in Record
      BY <2>1, CloneTypes DEF LedgerInv, Record, Signatures
    <3>2. Record' = Record
      BY <2>1 DEF Record, Signatures, Resources
    <3> QED BY <2>1, <2>3, <2>4, <3>1, <3>2, CloneTypes, CloneTypesNext DEF LedgerInv
  <2>6. claimants' = claimants \cup {r}
    <3>1. claimedAt'[r] >= 0
      BY <2>4, CloneTypes DEF LedgerInv
    <3> QED BY <2>4, <3>1 DEF claimants
  <2>7. \A s \in Runs : MadeOf(s)'
    <3>1. MadeOf(r)'
      BY <2>1, <2>3 DEF MadeOf, At, Creating
    <3>2. \A s \in Runs \ {r} : MadeOf(s)'
      BY <2>1, <2>3, <2>4 DEF LedgerInv, MadeOf, Claimed, At, AdSet
    <3> QED BY <3>1, <3>2
  <2>8. ASSUME NEW s \in Runs, claimants' = {s} PROVE LedgerOf(s)'
    <3>1. s = r /\ claimants = {}
      BY <2>6, <2>8, <2>2, Claimants DEF LedgerInv
    <3>2. PassedOn(r)'
      BY <3>1, <2>1 DEF LedgerInv, PassedOn
    <3>3. Missing(r)' = {}
      BY <2>3 DEF Missing
    <3>4. AdSet(r) \in Resources
      BY NoughtNumbers DEF AdSet, Resources
    <3> QED BY <2>1, <3>1, <3>2, <3>3, <3>4 DEF LedgerOf, Resources
  <2> QED BY <2>5, <2>6, <2>7, <2>8 DEF LedgerInv
<1> QED BY <1>1, <1>2

\* Past its claim a run finds a record, in progress if its claim is the only one.
LEMMA RecordThere ==
  ASSUME LedgerInv, ClaimInv, NEW r \in Runs, clone[r].pc \in Creating
  PROVE  record \in Record /\ Claimed(r)
  BY CloneTypes DEF LedgerInv, ClaimInv, ClaimedFirst, NoRecord

LEMMA PostStep ==
  ASSUME LedgerInv, ClaimInv, NEW r \in Runs, clone[r].pc \in Creating \ {"savingAdSet", "savingAd"},
         NEW x \in Resources, NEW ad \in 0..Ads, NEW then \in Creating \ {"overriding"},
         NEW otherwise \in Creating \ {"overriding", "savingAdSet", "savingAd"},
         PostNew(r, x, ad, then, otherwise),
         x \in Creatives(r) \/ then \in {"savingAdSet", "savingAd"},
         \/ x = AdSet(r) /\ otherwise = "failing"
         \/ clone[r].pc \notin {"creating", "failing"}
  PROVE  LedgerInv'
<1>1. /\ UNCHANGED <<cloneNow, record, reused, claimedAt>>
      /\ exists \subseteq exists' /\ exists' \subseteq exists \cup {x}
  BY DEF PostNew
<1>2. /\ clone' \in [Runs -> Clone] /\ \A s \in Runs \ {r} : clone'[s] = clone[s]
      /\ clone'[r].ad = ad
      /\ \/ clone'[r].pc = then /\ clone'[r].made = clone[r].made \cup {x} /\ x \in exists'
         \/ clone'[r].pc = otherwise /\ clone'[r].made = clone[r].made
  <2>1. CASE /\ exists' = exists \cup {x}
             /\ clone' = [clone EXCEPT ![r] = [pc |-> then, ad |-> ad, made |-> clone[r].made \cup {x}]]
    <3> DEFINE c == [pc |-> then, ad |-> ad, made |-> clone[r].made \cup {x}]
    <3>1. /\ c \in Clone /\ c.pc = then /\ c.ad = ad /\ c.made = clone[r].made \cup {x}
      BY CloneTypes DEF LedgerInv, Clone
    <3>2. clone' = [clone EXCEPT ![r] = c]
      BY <2>1
    <3> HIDE DEF c
    <3> QED BY <2>1, <3>1, <3>2, CloneTypes DEF LedgerInv
  <2>2. CASE clone' = [clone EXCEPT ![r] = [clone[r] EXCEPT !.pc = otherwise, !.ad = ad]]
    <3> DEFINE c == [clone[r] EXCEPT !.pc = otherwise, !.ad = ad]
    <3>1. c \in Clone /\ c.pc = otherwise /\ c.ad = ad /\ c.made = clone[r].made
      BY CloneTypes DEF LedgerInv, Clone
    <3>2. clone' = [clone EXCEPT ![r] = c]
      BY <2>2
    <3> HIDE DEF c
    <3> QED BY <3>1, <3>2, CloneTypes DEF LedgerInv
  <2> QED BY <2>1, <2>2 DEF PostNew
<1>3. CloneTypeOK'
  BY <1>1, <1>2, CloneTypes, CloneTypesNext DEF LedgerInv, Record
<1>4. MadeOf(r) /\ Claimed(r) /\ Claimed(r)'
  BY <1>1, RecordThere DEF LedgerInv, Claimed
<1>5. MadeOf(r)'
  <2>1. clone'[r].made \subseteq exists'
    BY <1>1, <1>2, <1>4 DEF MadeOf
  <2>2. clone'[r].pc # "overriding"
    BY <1>2
  <2>3. clone'[r].pc \in Creating \ {"creating", "failing"} => AdSet(r) \in exists'
    BY <1>1, <1>2, <1>4 DEF MadeOf
  <2>4. AdSet(r)' = AdSet(r)
    BY DEF AdSet
  <2> QED BY <1>4, <2>1, <2>2, <2>3, <2>4 DEF MadeOf, At
<1>6. ASSUME LedgerOf(r) PROVE LedgerOf(r)'
  <2>1. /\ record.state = "in_progress" /\ record.signature = payload[r]
        /\ Missing(r) \subseteq Creatives(r)
    BY <1>6 DEF LedgerOf
  <2>2. PassedOn(r)'
    BY <1>1, <1>6 DEF LedgerOf, PassedOn, AdSet, Ad
  <2>3. Missing(r)' \subseteq Creatives(r) \cup {x}
    BY <1>1, <1>2, <2>1 DEF Missing
  <2>4. clone'[r].pc \in Creating \ {"savingAdSet", "savingAd"} => Missing(r)' \subseteq Creatives(r)
    BY <1>1, <1>2, <2>1 DEF Missing
  <2>5. Creatives(r)' = Creatives(r) /\ Resources' = Resources
    BY DEF Creatives, Creative, Resources
  <2> QED BY <1>1, <2>1, <2>2, <2>3, <2>4, <2>5 DEF LedgerOf
<1> QED BY <1>1, <1>2, <1>3, <1>5, <1>6, CreatingStep

\* Anything else a run does past its claim: it goes on, and may change its
\* record, which is then as the step says.
LEMMA WriteStep ==
  ASSUME LedgerInv, ClaimInv, NEW r \in Runs, clone[r].pc \in Creating,
         NEW place \in Creating \cup {"over"}, GoOn(r, place),
         UNCHANGED <<cloneNow, reused, exists, claimedAt>>, record' \in Record,
         place = "overriding" => clone[r].ad \in 1..Ads,
         place \notin {"over", "failing"} => clone[r].pc \notin {"creating", "failing"},
         LedgerOf(r) =>
           /\ record'.signature = payload[r]
           /\ place # "over" => record'.state = "in_progress"
           /\ clone[r].made \ record'.created \subseteq Creatives(r)
                \/ /\ record'.state = "in_progress" /\ place \in {"over", "savingAdSet", "savingAd"}
                   /\ record'.created = record.created
           /\ record'.state = "completed" =>
                /\ record'.result = r
                /\ AdSet(r) \in exists /\ \E n \in 1..Ads : Ad(r, n) \in exists
           /\ record'.state = "failed" => clone[r].made \ record'.created = {}
  PROVE  LedgerInv'
<1>1. /\ clone' \in [Runs -> Clone] /\ \A s \in Runs \ {r} : clone'[s] = clone[s]
      /\ clone'[r].pc = place /\ clone'[r].made = clone[r].made /\ clone'[r].ad = clone[r].ad
  BY CloneTypes DEF LedgerInv, GoOn, Clone
<1>2. CloneTypeOK'
  BY <1>1, CloneTypes, CloneTypesNext DEF LedgerInv, Record
<1>3. MadeOf(r) /\ Claimed(r) /\ Claimed(r)'
  BY RecordThere DEF LedgerInv, Claimed
<1>4. MadeOf(r)'
  BY <1>1, <1>3 DEF MadeOf, At, AdSet, Creating
<1>5. ASSUME LedgerOf(r) PROVE LedgerOf(r)'
  <2>1. PassedOn(r)'
    BY <1>5 DEF LedgerOf, PassedOn, AdSet, Ad
  <2>2. Missing(r)' = clone[r].made \ record'.created /\ Missing(r) = clone[r].made \ record.created
    BY <1>1 DEF Missing
  <2>3. Creatives(r)' = Creatives(r) /\ Resources' = Resources
    BY DEF Creatives, Creative, Resources
  <2>4. \E x \in Resources : Missing(r)' \subseteq Creatives(r) \cup {x}
    BY <1>5, <2>2 DEF LedgerOf
  <2>5. record'.state # "none"
    BY DEF Record
  <2>6. place \in Creating => record'.state = "in_progress"
    BY <1>5 DEF Creating
  <2>7. place \in Creating \ {"savingAdSet", "savingAd"} => Missing(r)' \subseteq Creatives(r)
    BY <1>5, <2>2 DEF Creating
  <2>8. record'.state = "completed" =>
          /\ Missing(r)' \subseteq Creatives(r) /\ record'.result = r
          /\ AdSet(r) \in exists' /\ \E n \in 1..Ads : Ad(r, n) \in exists'
    BY <1>5, <2>2
  <2>9. record'.state = "failed" => Missing(r)' = {}
    BY <1>5, <2>2
  <2> QED BY <1>1, <1>5, <2>1, <2>3, <2>4, <2>5, <2>6, <2>7, <2>8, <2>9 DEF LedgerOf, AdSet, Ad
<1> QED BY <1>1, <1>2, <1>4, <1>5, CreatingStep

\* A save that fails leaves the record as it is.
LEMMA SaveStep ==
  ASSUME LedgerInv, ClaimInv, NEW r \in Runs,
         clone[r].pc \in {"savingAdSet", "savingAd", "savingCreative"},
         NEW then \in {"copying", "overriding"}, NEW otherwise \in {"copying", "over"},
         then = "overriding" => clone[r].ad \in 1..Ads,
         otherwise = "copying" => clone[r].pc = "savingCreative",
         Save(r, then, otherwise)
  PROVE  LedgerInv'
<1>1. /\ clone[r].pc \in Creating /\ record \in Record /\ clone[r].made \in SUBSET Resources
      /\ UNCHANGED <<cloneNow, reused, exists, claimedAt>>
  BY RecordThere, CloneTypes DEF Creating, Save, LedgerInv, Clone
<1>2. CASE update([created |-> clone[r].made]) /\ GoOn(r, then)
  <2>1. /\ record' \in Record /\ record'.state = record.state
        /\ record'.signature = record.signature /\ record'.created = clone[r].made
    <3> DEFINE fields == [created |-> clone[r].made]
    <3>1. DOMAIN fields = {"created"} /\ fields["created"] = clone[r].made
      OBVIOUS
    <3>2. update(fields) /\ DOMAIN fields \subseteq DOMAIN record
      BY <1>1, <1>2 DEF Record
    <3> HIDE DEF fields
    <3> QED BY <1>1, <3>1, <3>2, UpdatedRecord
  <2>2. LedgerOf(r) => record.signature = payload[r] /\ record.state = "in_progress"
    BY <1>1 DEF LedgerOf
  <2> QED BY <1>1, <1>2, <2>1, <2>2, WriteStep DEF Creating
<1>3. CASE UNCHANGED record /\ GoOn(r, otherwise)
  <2>1. LedgerOf(r) =>
          /\ record.signature = payload[r] /\ record.state = "in_progress"
          /\ otherwise = "copying" => clone[r].made \ record.created \subseteq Creatives(r)
    BY <1>1 DEF LedgerOf, Missing
  <2> QED BY <1>1, <1>3, <2>1, WriteStep DEF Creating
<1> QED BY <1>2, <1>3 DEF Save

LEMMA CompleteStep ==
  ASSUME LedgerInv, ClaimInv, NEW r \in Runs, Complete(r) PROVE LedgerInv'
<1>1. /\ clone[r].pc = "copying" /\ clone[r].pc \in Creating /\ record \in Record /\ MadeOf(r)
      /\ UNCHANGED <<cloneNow, reused, exists, claimedAt>>
  BY RecordThere DEF Creating, Complete, At, LedgerInv
<1>2. LedgerOf(r) =>
        /\ record.signature = payload[r] /\ record.state = "in_progress"
        /\ clone[r].made \ record.created \subseteq Creatives(r)
  BY <1>1 DEF LedgerOf, Missing, Creating
<1>3. CASE copiedSome(r) /\ GoOn(r, "over") /\ update([state |-> "completed", result |-> r])
  <2>1. /\ record' \in Record /\ record'.state = "completed" /\ record'.result = r
        /\ record'.signature = record.signature /\ record'.created = record.created
    <3> DEFINE fields == [state |-> "completed", result |-> r]
    <3>1. /\ DOMAIN fields = {"state", "result"}
          /\ fields["state"] = "completed" /\ fields["result"] = r
      OBVIOUS
    <3>2. update(fields) /\ DOMAIN fields \subseteq DOMAIN record
      BY <1>1, <1>3, <3>1 DEF Record
    <3> HIDE DEF fields
    <3> QED BY <1>1, <3>1, <3>2, UpdatedRecord
  <2>2. AdSet(r) \in exists /\ \E n \in 1..Ads : Ad(r, n) \in exists
    BY <1>1, <1>3 DEF MadeOf, Creating, copiedSome
  <2> QED BY <1>1, <1>2, <1>3, <2>1, <2>2, WriteStep
<1>4. CASE UNCHANGED record /\ \E place \in {"over", "failing"} : GoOn(r, place)
  <2>1. PICK place \in {"over", "failing"} : GoOn(r, place)
    BY <1>4
  <2> QED BY <1>1, <1>2, <1>4, <2>1, WriteStep DEF Creating
<1> QED BY <1>3, <1>4 DEF Complete

LEMMA markFailedStep ==
  ASSUME LedgerInv, ClaimInv, NEW r \in Runs, markFailed(r) PROVE LedgerInv'
<1>1. /\ clone[r].pc = "failing" /\ clone[r].pc \in Creating /\ record \in Record
      /\ clone[r].made \in SUBSET Resources
      /\ GoOn(r, "over") /\ UNCHANGED <<cloneNow, reused, exists, claimedAt>>
  BY RecordThere, CloneTypes DEF Creating, markFailed, At, LedgerInv, Clone
<1>2. LedgerOf(r) =>
        /\ record.signature = payload[r] /\ record.state = "in_progress"
        /\ clone[r].made \ record.created \subseteq Creatives(r)
  BY <1>1 DEF LedgerOf, Missing, Creating
<1>3. CASE update([state |-> "failed", created |-> clone[r].made])
  <2>1. /\ record' \in Record /\ record'.state = "failed"
        /\ record'.signature = record.signature /\ record'.created = clone[r].made
    <3> DEFINE fields == [state |-> "failed", created |-> clone[r].made]
    <3>1. /\ DOMAIN fields = {"state", "created"}
          /\ fields["state"] = "failed" /\ fields["created"] = clone[r].made
      OBVIOUS
    <3>2. update(fields) /\ DOMAIN fields \subseteq DOMAIN record
      BY <1>1, <1>3, <3>1 DEF Record
    <3> HIDE DEF fields
    <3> QED BY <1>1, <3>1, <3>2, UpdatedRecord
  <2> QED BY <1>1, <1>2, <2>1, WriteStep
<1>4. CASE UNCHANGED record
  BY <1>1, <1>2, <1>4, WriteStep
<1> QED BY <1>1, <1>3, <1>4 DEF markFailed

LEMMA CloneSteps ==
  ASSUME LedgerInv, ClaimInv, ClaimInv', NEW r \in Runs, CloneStep(r) PROVE LedgerInv'
<1> Ads \in Nat /\ Overridden \subseteq 1..Ads
  BY CloneAssumption
<1>1. CASE Look(r)
  <2>1. CASE AnswerFromRecord(r)
    BY <2>1, AnswerStep
  <2>2. CASE GoOn(r, "reading") /\ UNCHANGED <<cloneNow, record, reused, exists, claimedAt>>
    BY <2>2, <1>1, OtherStep DEF Look, At, Claiming
  <2> QED BY <1>1, <2>1, <2>2 DEF Look
<1>2. CASE ReadSource(r)
  BY <1>2, OtherStep DEF ReadSource, At, Claiming
<1>3. CASE Claim(r)
  BY <1>3, ClaimStep
<1>4. CASE CreateAdSet(r)
  <2>1. AdSet(r) \in Resources /\ 0 \in 0..Ads
    BY NoughtNumbers DEF AdSet, Resources
  <2>2. clone[r].pc = "creating" /\ PostNew(r, AdSet(r), 0, "savingAdSet", "failing")
    BY <1>4 DEF CreateAdSet, At
  <2> QED BY <2>1, <2>2, PostStep DEF Creating
<1>5. CASE SaveAdSet(r)
  BY <1>5, SaveStep DEF SaveAdSet, At
<1>6. CASE CopyAd(r)
  <2>1. PICK n : n = clone[r].ad + 1
    OBVIOUS
  <2>2. n \in 0..Ads /\ clone[r].pc = "copying" /\ PostNew(r, Ad(r, n), n, "savingAd", "copying")
    BY <2>1, <1>6, CloneTypes DEF CopyAd, At, LedgerInv, Clone
  <2>3. Ad(r, n) \in Resources
    BY <2>2 DEF Ad, Resources
  <2> QED BY <2>2, <2>3, PostStep DEF Creating
<1>7. CASE SaveAd(r)
  <2>1. PICK then \in {"copying", "overriding"} :
          /\ Save(r, then, "over")
          /\ then = "overriding" => clone[r].ad \in 1..Ads
    BY <1>7 DEF SaveAd
  <2> QED BY <2>1, <1>7, SaveStep DEF SaveAd, At
<1>8. CASE SwapCreative(r)
  <2>1. PICK n : n = clone[r].ad
    OBVIOUS
  <2>2. /\ n \in 1..Ads /\ n \in 0..Ads /\ clone[r].pc = "overriding"
        /\ PostNew(r, Creative(r, n), n, "savingCreative", "copying")
    BY <2>1, <1>8 DEF SwapCreative, At, LedgerInv, MadeOf
  <2>3. Creative(r, n) \in Resources /\ Creative(r, n) \in Creatives(r)
    BY <2>2 DEF Creative, Resources, Creatives
  <2> QED BY <2>2, <2>3, PostStep DEF Creating
<1>9. CASE SaveCreative(r)
  BY <1>9, SaveStep DEF SaveCreative, At
<1>10. CASE Die(r)
  BY <1>10, OtherStep DEF Die
<1> QED BY <1>1, <1>2, <1>3, <1>4, <1>5, <1>6, <1>7, <1>8, <1>9, <1>10, CompleteStep, markFailedStep
        DEF CloneStep

LEMMA ClockStep ==
  ASSUME LedgerInv, UNCHANGED <<record, clone, reused, exists, claimedAt>>, cloneNow' \in {cloneNow, cloneNow + 1}
  PROVE  LedgerInv'
<1>1. /\ cloneNow' \in Nat /\ -1..cloneNow \subseteq -1..cloneNow'
      /\ 0..cloneNow \subseteq 0..cloneNow'
  BY CloneTypes DEF LedgerInv
<1>2. record \in Record => record \in Record'
  BY <1>1 DEF Record
<1>3. CloneTypeOK'
  BY <1>1, <1>2, CloneTypes, CloneTypesNext DEF LedgerInv
<1>4. claimants' = claimants
  BY DEF claimants
<1>5. ASSUME NEW r \in Runs, MadeOf(r) PROVE MadeOf(r)'
  BY <1>5 DEF MadeOf, Claimed, At, AdSet
<1>6. ASSUME NEW r \in Runs, LedgerOf(r) PROVE LedgerOf(r)'
  <2>1. PassedOn(r)'
    BY <1>6 DEF LedgerOf, PassedOn, AdSet, Ad
  <2>2. Missing(r)' = Missing(r) /\ Creatives(r)' = Creatives(r) /\ Resources' = Resources
    BY DEF Missing, Creatives, Creative, Resources
  <2> QED BY <1>6, <2>1, <2>2 DEF LedgerOf, AdSet, Ad
<1> QED BY <1>3, <1>4, <1>5, <1>6 DEF LedgerInv

LEMMA LedgerInvariance == CloneSpec => [](ClaimInv /\ LedgerInv)
<1>1. ClaimInv /\ LedgerInv /\ [CloneNext]_cloneVars => (ClaimInv /\ LedgerInv)'
  <2> SUFFICES ASSUME ClaimInv, LedgerInv, [CloneNext]_cloneVars PROVE ClaimInv' /\ LedgerInv'
    OBVIOUS
  <2>1. ClaimInv'
    BY StepKeepsClaims
  <2>2. CASE CloneTick \/ UNCHANGED cloneVars
    BY <2>1, <2>2, ClockStep DEF CloneTick, cloneVars
  <2> QED BY <2>1, <2>2, CloneSteps DEF CloneNext
<1> QED BY InitialClaims, LedgerInitially, <1>1, PTL DEF CloneSpec

\* For any number of calls and ads and wherever they die, the record of a key
\* that was claimed once hides no more than one resource from the clean-up, and
\* a result is passed on only to a repetition of the run that has it
\* (saveProgress and markCloneFailed in ads_clone_ad_set_bundle).
THEOREM LedgerIsKept == CloneSpec => []LedgerKept
<1>1. ASSUME LedgerInv PROVE LedgerKept
  <2> SUFFICES ASSUME NEW r \in Runs, claimants = {r}
               PROVE  /\ Cardinality(Missing(r) \ Creatives(r)) <=
                           IF record.state = "in_progress" THEN 1 ELSE 0
                      /\ record.state = "failed" => Missing(r) = {}
                      /\ PassedOn(r)
    BY DEF LedgerKept, Missing, Creatives, PassedOn
  <2>1. LedgerOf(r) /\ (record = NoRecord \/ record \in Record)
    BY <1>1, CloneTypes DEF LedgerInv
  <2>2. PICK x \in Resources : Missing(r) \ Creatives(r) \subseteq {x}
    BY <2>1 DEF LedgerOf
  <2>3. Missing(r) \ Creatives(r) = {} \/ Missing(r) \ Creatives(r) = {x}
    BY <2>2
  <2>4. Cardinality({}) = 0 /\ Cardinality({x}) = 1
    BY FS_EmptySet, FS_Singleton
  <2>5. record.state # "in_progress" => Missing(r) \ Creatives(r) = {}
    BY <2>1 DEF LedgerOf, Record, NoRecord
  <2> QED BY <2>1, <2>3, <2>4, <2>5 DEF LedgerOf
<1> QED BY <1>1, LedgerInvariance, PTL

\* The record, the calls and what they made keep their types.
THEOREM CloneTypesKept == CloneSpec => []CloneTypeOK
<1>1. LedgerInv => CloneTypeOK
  BY DEF LedgerInv
<1> QED BY <1>1, LedgerInvariance, PTL
=============================================================================
