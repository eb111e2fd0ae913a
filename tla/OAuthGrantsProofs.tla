------------------------- MODULE OAuthGrantsProofs --------------------------
(***************************************************************************)
(* Token families are linear for any number of grants, codes, families,    *)
(* tokens and requests, an ended family gets no token any more, and        *)
(* OAuthGrants implements TokenFamilies.                                   *)
(***************************************************************************)
EXTENDS OAuthGrants, TLAPS

-----------------------------------------------------------------------------
(* The inductive invariant.  That a family never has two refresh tokens    *)
(* rests on requests: the one that consumed the last refresh token, and no *)
(* other, may issue the next, and there is none in between.                *)

Active(q) == auth[q].at \in {"sweeping", "issuing", "renewing"}

RequestsRemember ==
  \A q \in AuthRequest :
    /\ auth[q].at = "claiming" => auth[q].code \in Code
    /\ auth[q].at = "rotating" =>
         auth[q].token \in Token /\ token[auth[q].token].kind = "refresh"
    /\ auth[q].at = "revoking" => auth[q].token \in Token

FamiliesAreStarted ==
  /\ \A q \in AuthRequest :
       Active(q) => auth[q].family \in Family /\ started[auth[q].family] # None
  /\ \A t \in Token :
       token[t].kind # "none" =>
         token[t].family \in Family /\ started[token[t].family] # None
  /\ \A t \in Token : token[t].state = "absent" <=> token[t].kind = "none"

CodesStartOnce ==
  \A f, g \in Family : started[f] # None =>
    /\ code[started[f]].state = "used"
    /\ started[f] = started[g] => f = g

OneHolder ==
  \A q \in AuthRequest : Active(q) =>
    /\ \A p \in AuthRequest : Active(p) /\ auth[p].family = auth[q].family => p = q
    /\ \A t \in Token : token[t].state = "live" /\ token[t].kind = "refresh" =>
         token[t].family # auth[q].family

SweptFirst ==
  \A q \in AuthRequest : auth[q].at = "issuing" =>
    \A t \in Token : token[t].state = "live" /\ token[t].kind = "access" =>
      token[t].family # auth[q].family

OAuthInv ==
  /\ OAuthTypeOK
  /\ RequestsRemember
  /\ FamiliesAreStarted
  /\ CodesStartOnce
  /\ OneHolder
  /\ SweptFirst
  /\ LinearFamily

\* Steps that start nothing, issue nothing and make no request active.
Shrinking ==
  /\ started' = started
  /\ \A t \in Token :
       \/ token'[t] = token[t]
       \/ token[t].state = "live" /\ token'[t] = [token[t] EXCEPT !.state = "revoked"]
  /\ \A q \in AuthRequest :
       Active(q)' => Active(q) /\ auth'[q].family = auth[q].family

-----------------------------------------------------------------------------
(* Lemmas about the parts of a step.                                       *)

\* A request goes to a stage, the others stay where they are.
LEMMA Going ==
  ASSUME OAuthTypeOK, NEW q \in AuthRequest, NEW r \in AuthRecord, GoTo(q, r)
  PROVE  /\ auth' \in [AuthRequest -> AuthRecord]
         /\ auth'[q] = r
         /\ \A p \in AuthRequest : p # q => auth'[p] = auth[p]
BY DEF OAuthTypeOK, GoTo

\* The record of a request that is at no await.
LEMMA IdleRecord == Idle \in AuthRecord
BY DEF Idle, AuthRecord

\* A revocation changes nothing but the state of the live tokens it names.
LEMMA Revoking ==
  ASSUME OAuthTypeOK, NEW T \in SUBSET Token, RevokeTokens(T)
  PROVE  /\ token' \in [Token -> TokenRow]
         /\ \A t \in Token :
              \/ token'[t] = token[t]
              \/ token[t].state = "live" /\ token'[t] = [token[t] EXCEPT !.state = "revoked"]
         /\ \A t \in T : token'[t].state # "live"
<1>1. \A t \in Token : token[t] \in TokenRow
  BY DEF OAuthTypeOK
<1>2. \A t \in Token : [token[t] EXCEPT !.state = "revoked"] \in TokenRow
  BY <1>1 DEF TokenRow
<1>3. token' \in [Token -> TokenRow]
  BY <1>1, <1>2 DEF RevokeTokens
<1>4. \A t \in Token :
        \/ token'[t] = token[t]
        \/ token[t].state = "live" /\ token'[t] = [token[t] EXCEPT !.state = "revoked"]
  BY DEF RevokeTokens
<1>5. \A t \in Token : [token[t] EXCEPT !.state = "revoked"].state = "revoked"
  BY <1>1 DEF TokenRow
<1>6. \A t \in T : token'[t].state # "live"
  BY <1>5 DEF RevokeTokens
<1> QED BY <1>3, <1>4, <1>6

\* A new token is the only one that changes.
LEMMA Issuance ==
  ASSUME OAuthTypeOK, NEW q \in AuthRequest, NEW kind \in {"access", "refresh"},
         NewToken(q, kind)
  PROVE  /\ token' \in [Token -> TokenRow]
         /\ \E t \in Token :
              /\ token[t].state = "absent"
              /\ token'[t].state = "live" /\ token'[t].kind = kind
              /\ token'[t].family = auth[q].family
              /\ \A u \in Token : u # t => token'[u] = token[u]
<1>1. auth[q].grant \in AgentGrant \cup {None} /\ auth[q].family \in Family \cup {None}
  BY DEF OAuthTypeOK, AuthRecord
<1>2. PICK t \in Token :
        /\ token[t].state = "absent"
        /\ token' = [token EXCEPT ![t] =
                      [state |-> "live", kind |-> kind, grant |-> auth[q].grant,
                       family |-> auth[q].family]]
  BY DEF NewToken
<1>3. [state |-> "live", kind |-> kind, grant |-> auth[q].grant,
       family |-> auth[q].family] \in TokenRow
  BY <1>1 DEF TokenRow
<1> QED BY <1>2, <1>3 DEF OAuthTypeOK

\* A step that shrinks keeps the invariant.
LEMMA ShrinkingKeeps ==
  ASSUME OAuthInv, OAuthTypeOK', RequestsRemember', Shrinking,
         \A c \in Code : code[c].state = "used" => code'[c].state = "used",
         \A q \in AuthRequest : auth'[q].at = "issuing" => auth[q].at = "issuing"
  PROVE  OAuthInv'
<1>1. \A t \in Token : token[t] \in TokenRow
  BY DEF OAuthInv, OAuthTypeOK
<1>2. \A t \in Token :
        /\ token'[t].kind = token[t].kind
        /\ token'[t].family = token[t].family
        /\ token'[t].state = "live" => token[t].state = "live"
        /\ token'[t].state = "absent" <=> token[t].state = "absent"
  <2> SUFFICES ASSUME NEW t \in Token
               PROVE  /\ token'[t].kind = token[t].kind
                      /\ token'[t].family = token[t].family
                      /\ token'[t].state = "live" => token[t].state = "live"
                      /\ token'[t].state = "absent" <=> token[t].state = "absent"
    OBVIOUS
  <2>1. CASE token'[t] = token[t]
    BY <2>1
  <2>2. CASE token[t].state = "live" /\ token'[t] = [token[t] EXCEPT !.state = "revoked"]
    <3>1. token[t] \in TokenRow
      BY <1>1
    <3>2. /\ token'[t].kind = token[t].kind
          /\ token'[t].family = token[t].family
          /\ token'[t].state = "revoked"
      BY <2>2, <3>1 DEF TokenRow
    <3> QED BY <2>2, <3>2
  <2> QED BY <2>1, <2>2 DEF Shrinking
<1>3. started \in [Family -> Code \cup {None}]
  BY DEF OAuthInv, OAuthTypeOK
<1>4. FamiliesAreStarted'
  BY <1>2 DEF OAuthInv, FamiliesAreStarted, Shrinking
<1>5. CodesStartOnce'
  BY <1>3 DEF OAuthInv, CodesStartOnce, Shrinking
<1>6. OneHolder'
  BY <1>2 DEF OAuthInv, OneHolder, Shrinking
<1>7. SweptFirst'
  BY <1>2 DEF OAuthInv, SweptFirst, Shrinking, Active
<1>8. LinearFamily'
  BY <1>2 DEF OAuthInv, LinearFamily
<1> QED BY <1>4, <1>5, <1>6, <1>7, <1>8 DEF OAuthInv

\* A request that goes to an await where it holds nothing, with or without a
\* revocation, keeps the invariant.
LEMMA Withdrawing ==
  ASSUME OAuthInv, NEW q \in AuthRequest, NEW r \in AuthRecord, NEW T \in SUBSET Token,
         GoTo(q, r), UNCHANGED started, RevokeTokens(T) \/ UNCHANGED token,
         grant' \in [AgentGrant -> {"absent", "live", "revoked"}],
         code' \in [Code -> CodeRow],
         \A c \in Code : code[c].state = "used" => code'[c].state = "used",
         r.at \notin {"sweeping", "issuing", "renewing"},
         r.at = "claiming" => r.code \in Code,
         r.at = "rotating" => r.token \in Token /\ token[r.token].kind = "refresh",
         r.at = "revoking" => r.token \in Token
  PROVE  OAuthInv' /\ Shrinking
<1>1. OAuthTypeOK
  BY DEF OAuthInv
<1>2. /\ auth' \in [AuthRequest -> AuthRecord]
      /\ auth'[q] = r
      /\ \A p \in AuthRequest : p # q => auth'[p] = auth[p]
  BY <1>1, Going
<1>3. /\ token' \in [Token -> TokenRow]
      /\ \A t \in Token :
           \/ token'[t] = token[t]
           \/ token[t].state = "live" /\ token'[t] = [token[t] EXCEPT !.state = "revoked"]
  <2>1. CASE RevokeTokens(T)
    BY <2>1, <1>1, Revoking
  <2>2. CASE UNCHANGED token
    BY <2>2, <1>1 DEF OAuthTypeOK
  <2> QED BY <2>1, <2>2
<1>4. OAuthTypeOK'
  BY <1>1, <1>2, <1>3 DEF OAuthTypeOK
<1>5. \A t \in Token : token'[t].kind = token[t].kind
  BY <1>1, <1>3 DEF OAuthTypeOK, TokenRow
<1>6. RequestsRemember'
  BY <1>2, <1>5 DEF OAuthInv, RequestsRemember
<1>7. Shrinking
  BY <1>2, <1>3 DEF Shrinking, Active
<1>8. \A p \in AuthRequest : auth'[p].at = "issuing" => auth[p].at = "issuing"
  BY <1>2
<1> QED BY <1>4, <1>6, <1>7, <1>8, ShrinkingKeeps

-----------------------------------------------------------------------------
(* Steps that start nothing and issue nothing.                             *)

\* Consent and the lookups of codes and tokens.
LEMMA LookupsKeep ==
  ASSUME OAuthInv, NEW q \in AuthRequest,
         \/ \E g \in AgentGrant, offline \in BOOLEAN : Approve(q, g, offline)
         \/ Replace(q)
         \/ CreateCode(q)
         \/ \E c \in Code : FindCode(q, c)
         \/ \E t \in Token : FindRefresh(q, t) \/ FindRevoked(q, t)
         \/ RevokeToken(q)
         \/ Abort(q)
  PROVE  OAuthInv' /\ Shrinking
<1>1. OAuthTypeOK
  BY DEF OAuthInv
<1>2. auth[q] \in AuthRecord
  BY <1>1 DEF OAuthTypeOK
<1>3. Idle \in AuthRecord /\ Idle.at = "idle"
  BY IdleRecord DEF Idle
<1>4. grant \in [AgentGrant -> {"absent", "live", "revoked"}] /\ code \in [Code -> CodeRow]
  BY <1>1 DEF OAuthTypeOK
<1>5. ASSUME NEW g \in AgentGrant, NEW offline \in BOOLEAN, Approve(q, g, offline)
      PROVE  OAuthInv' /\ Shrinking
  <2> DEFINE r == [Idle EXCEPT !.at = "replacing", !.grant = g, !.offline = offline]
  <2>1. r \in AuthRecord /\ r.at = "replacing"
    BY DEF Idle, AuthRecord
  <2>2. GoTo(q, r) /\ UNCHANGED <<code, token, started>>
    BY <1>5 DEF Approve
  <2>3. grant' \in [AgentGrant -> {"absent", "live", "revoked"}]
    BY <1>4, <1>5 DEF Approve
  <2> HIDE DEF r
  <2> QED BY <2>1, <2>2, <2>3, <1>4, Withdrawing
<1>6. ASSUME Replace(q) PROVE OAuthInv' /\ Shrinking
  <2> DEFINE r == [auth[q] EXCEPT !.at = "coding"]
             T == TokensOf(auth[q].grant)
  <2>1. r \in AuthRecord /\ r.at = "coding"
    BY <1>2 DEF AuthRecord
  <2>2. GoTo(q, r) /\ RevokeTokens(T) /\ UNCHANGED <<grant, code, started>>
    BY <1>6 DEF Replace
  <2>3. T \in SUBSET Token
    BY DEF TokensOf
  <2> HIDE DEF r, T
  <2> QED BY <2>1, <2>2, <2>3, <1>4, Withdrawing
<1>7. ASSUME CreateCode(q) PROVE OAuthInv' /\ Shrinking
  <2>1. PICK c \in Code :
          /\ code[c].state = "absent"
          /\ code' = [code EXCEPT ![c] = [state |-> "unused", grant |-> auth[q].grant,
                                          offline |-> auth[q].offline]]
    BY <1>7 DEF CreateCode
  <2>2. [state |-> "unused", grant |-> auth[q].grant, offline |-> auth[q].offline] \in CodeRow
    BY <1>2 DEF AuthRecord, CodeRow
  <2>3. code' \in [Code -> CodeRow]
    BY <2>1, <2>2, <1>4
  <2>4. \A d \in Code : code[d].state = "used" => code'[d].state = "used"
    BY <2>1, <1>4
  <2>5. GoTo(q, Idle) /\ UNCHANGED <<grant, token, started>>
    BY <1>7 DEF CreateCode
  <2> QED BY <2>3, <2>4, <2>5, <1>3, <1>4, Withdrawing
<1>8. ASSUME NEW c \in Code, FindCode(q, c) PROVE OAuthInv' /\ Shrinking
  <2> DEFINE r == [Idle EXCEPT !.at = "claiming", !.code = c]
  <2>1. r \in AuthRecord /\ r.at = "claiming" /\ r.code = c
    BY DEF Idle, AuthRecord
  <2>2. GoTo(q, r) /\ UNCHANGED <<grant, code, token, started>>
    BY <1>8 DEF FindCode
  <2> HIDE DEF r
  <2> QED BY <2>1, <2>2, <1>4, Withdrawing
<1>9. ASSUME NEW t \in Token, FindRefresh(q, t) PROVE OAuthInv' /\ Shrinking
  <2> DEFINE r == [Idle EXCEPT !.at = "rotating", !.token = t]
  <2>1. r \in AuthRecord /\ r.at = "rotating" /\ r.token = t
    BY DEF Idle, AuthRecord
  <2>2. GoTo(q, r) /\ UNCHANGED <<grant, code, token, started>> /\ token[t].kind = "refresh"
    BY <1>9 DEF FindRefresh
  <2> HIDE DEF r
  <2> QED BY <2>1, <2>2, <1>4, Withdrawing
<1>10. ASSUME NEW t \in Token, FindRevoked(q, t) PROVE OAuthInv' /\ Shrinking
  <2> DEFINE r == [Idle EXCEPT !.at = "revoking", !.token = t]
  <2>1. r \in AuthRecord /\ r.at = "revoking" /\ r.token = t
    BY DEF Idle, AuthRecord
  <2>2. GoTo(q, r) /\ UNCHANGED <<grant, code, token, started>>
    BY <1>10 DEF FindRevoked
  <2> HIDE DEF r
  <2> QED BY <2>1, <2>2, <1>4, Withdrawing
<1>11. ASSUME RevokeToken(q) PROVE OAuthInv' /\ Shrinking
  <2> DEFINE t == auth[q].token
             T == IF token[t].kind = "refresh"
                  THEN FamilyTokens(token[t].family, {"access", "refresh"}) ELSE {t}
  <2>1. GoTo(q, Idle) /\ RevokeTokens(T) /\ UNCHANGED <<grant, code, started>>
    BY <1>11 DEF RevokeToken
  <2>2. t \in Token
    BY <1>11 DEF OAuthInv, RequestsRemember, RevokeToken
  <2>3. T \in SUBSET Token
    BY <2>2 DEF FamilyTokens
  <2> HIDE DEF T
  <2> QED BY <2>1, <2>3, <1>3, <1>4, Withdrawing
<1>12. ASSUME Abort(q) PROVE OAuthInv' /\ Shrinking
  <2>1. GoTo(q, Idle) /\ UNCHANGED <<grant, code, token, started>>
    BY <1>12 DEF Abort
  <2> QED BY <2>1, <1>3, <1>4, Withdrawing
<1> QED BY <1>5, <1>6, <1>7, <1>8, <1>9, <1>10, <1>11, <1>12

\* An administrator revokes a grant; requests in flight are not told.
LEMMA RevokeGrantKeeps ==
  ASSUME OAuthInv, NEW g \in AgentGrant, RevokeGrant(g)
  PROVE  OAuthInv' /\ Shrinking
<1>1. OAuthTypeOK
  BY DEF OAuthInv
<1>2. TokensOf(g) \in SUBSET Token
  BY DEF TokensOf
<1>3. RevokeTokens(TokensOf(g)) /\ UNCHANGED <<code, started, auth>>
  BY DEF RevokeGrant
<1>4. /\ token' \in [Token -> TokenRow]
      /\ \A t \in Token :
           \/ token'[t] = token[t]
           \/ token[t].state = "live" /\ token'[t] = [token[t] EXCEPT !.state = "revoked"]
  BY <1>1, <1>2, <1>3, Revoking
<1>5. OAuthTypeOK'
  BY <1>1, <1>3, <1>4 DEF OAuthTypeOK, RevokeGrant
<1>6. \A t \in Token : token'[t].kind = token[t].kind
  BY <1>1, <1>4 DEF OAuthTypeOK, TokenRow
<1>7. RequestsRemember'
  BY <1>3, <1>6 DEF OAuthInv, RequestsRemember
<1>8. Shrinking
  BY <1>3, <1>4 DEF Shrinking, Active
<1> QED BY <1>3, <1>5, <1>7, <1>8, ShrinkingKeeps

\* The access token of the last generation is gone before the next is issued.
LEMMA SweepKeeps ==
  ASSUME OAuthInv, NEW q \in AuthRequest, Sweep(q)
  PROVE  OAuthInv' /\ Shrinking
<1> DEFINE r == [auth[q] EXCEPT !.at = "issuing"]
           T == FamilyTokens(auth[q].family, {"access"})
<1>1. OAuthTypeOK
  BY DEF OAuthInv
<1>2. auth[q] \in AuthRecord /\ auth[q].at = "sweeping"
  BY <1>1 DEF OAuthTypeOK, Sweep
<1>3. r \in AuthRecord /\ r.at = "issuing" /\ r.family = auth[q].family
  BY <1>2 DEF AuthRecord
<1>4. T \in SUBSET Token
  BY DEF FamilyTokens
<1>5. GoTo(q, r) /\ RevokeTokens(T) /\ UNCHANGED <<grant, code, started>>
  BY DEF Sweep
<1>6. \A t \in Token : token[t].family = auth[q].family /\ token[t].kind = "access" => t \in T
  BY DEF FamilyTokens
<1> HIDE DEF r, T
<1>7. /\ auth' \in [AuthRequest -> AuthRecord]
      /\ auth'[q] = r
      /\ \A p \in AuthRequest : p # q => auth'[p] = auth[p]
  BY <1>1, <1>3, <1>5, Going
<1>8. /\ token' \in [Token -> TokenRow]
      /\ \A t \in Token :
           \/ token'[t] = token[t]
           \/ token[t].state = "live" /\ token'[t] = [token[t] EXCEPT !.state = "revoked"]
      /\ \A t \in T : token'[t].state # "live"
  BY <1>1, <1>4, <1>5, Revoking
<1>9. OAuthTypeOK'
  BY <1>1, <1>5, <1>7, <1>8 DEF OAuthTypeOK
<1>10. \A t \in Token :
         /\ token'[t].kind = token[t].kind
         /\ token'[t].family = token[t].family
         /\ token'[t].state = "live" => token[t].state = "live"
         /\ token'[t].state = "absent" <=> token[t].state = "absent"
  BY <1>1, <1>8 DEF OAuthTypeOK, TokenRow
<1>11. RequestsRemember'
  BY <1>3, <1>7, <1>10 DEF OAuthInv, RequestsRemember
<1>12. Shrinking
  BY <1>2, <1>3, <1>5, <1>7, <1>8 DEF Shrinking, Active
<1>13. FamiliesAreStarted'
  BY <1>10, <1>12 DEF OAuthInv, FamiliesAreStarted, Shrinking
<1>14. CodesStartOnce'
  BY <1>1, <1>5 DEF OAuthInv, CodesStartOnce, OAuthTypeOK
<1>15. OneHolder'
  BY <1>10, <1>12 DEF OAuthInv, OneHolder, Shrinking
<1>16. SweptFirst'
  <2> SUFFICES ASSUME NEW p \in AuthRequest, auth'[p].at = "issuing",
                      NEW t \in Token, token'[t].state = "live", token'[t].kind = "access",
                      token'[t].family = auth'[p].family
               PROVE  FALSE
    BY DEF SweptFirst
  <2>1. CASE p = q
    <3>1. token[t].family = auth[q].family /\ token[t].kind = "access"
      BY <2>1, <1>3, <1>7, <1>10
    <3>2. t \in T
      BY <3>1, <1>6
    <3> QED BY <3>2, <1>8
  <2>2. CASE p # q
    BY <2>2, <1>7, <1>10 DEF OAuthInv, SweptFirst
  <2> QED BY <2>1, <2>2
<1>17. LinearFamily'
  BY <1>10 DEF OAuthInv, LinearFamily
<1> QED BY <1>9, <1>11, <1>12, <1>13, <1>14, <1>15, <1>16, <1>17 DEF OAuthInv

\* Compare-and-set fails: the request gives up.
LEMMA LosersKeep ==
  ASSUME OAuthInv, NEW q \in AuthRequest,
         \/ ClaimCode(q) /\ code[auth[q].code].state # "unused"
         \/ Rotate(q) /\ token[auth[q].token].state # "live"
  PROVE  OAuthInv' /\ Shrinking
<1>1. Idle \in AuthRecord /\ Idle.at = "idle"
  BY IdleRecord DEF Idle
<1>2. grant \in [AgentGrant -> {"absent", "live", "revoked"}] /\ code \in [Code -> CodeRow]
  BY DEF OAuthInv, OAuthTypeOK
<1>3. CASE ClaimCode(q) /\ code[auth[q].code].state # "unused"
  <2>1. GoTo(q, Idle) /\ UNCHANGED <<grant, code, token, started>>
    BY <1>3 DEF ClaimCode
  <2> QED BY <2>1, <1>1, <1>2, Withdrawing
<1>4. CASE Rotate(q) /\ token[auth[q].token].state # "live"
  <2> DEFINE T == {auth[q].token}
  <2>1. GoTo(q, Idle) /\ RevokeTokens(T) /\ UNCHANGED <<grant, code, started>>
    BY <1>4 DEF Rotate
  <2>2. T \in SUBSET Token
    BY <1>4 DEF OAuthInv, RequestsRemember, Rotate
  <2> HIDE DEF T
  <2> QED BY <2>1, <2>2, <1>1, <1>2, Withdrawing
<1> QED BY <1>3, <1>4

-----------------------------------------------------------------------------
(* Steps that start a family, take its refresh token or issue a token.     *)

\* The winner of a code starts a family nobody has.
LEMMA ClaimKeeps ==
  ASSUME OAuthInv, NEW q \in AuthRequest, ClaimCode(q), NEW c, c = auth[q].code,
         code[c].state = "unused"
  PROVE  /\ OAuthInv'
         /\ UNCHANGED <<token, grant>>
         /\ \E f \in Family :
              /\ started[f] = None /\ started' = [started EXCEPT ![f] = c]
              /\ c \in Code /\ auth[q].at = "claiming"
              /\ auth'[q].at = "issuing" /\ auth'[q].family = f
              /\ \A p \in AuthRequest : p # q => auth'[p] = auth[p]
<1>1. OAuthTypeOK
  BY DEF OAuthInv
<1>2. c \in Code /\ auth[q].at = "claiming"
  BY DEF OAuthInv, RequestsRemember, ClaimCode
<1>3. PICK f \in Family :
        /\ started[f] = None
        /\ started' = [started EXCEPT ![f] = c]
        /\ GoTo(q, [Idle EXCEPT !.at = "issuing", !.grant = code[c].grant,
                                !.family = f, !.offline = code[c].offline])
  BY DEF ClaimCode
<1>4. code' = [code EXCEPT ![c].state = "used"] /\ UNCHANGED <<grant, token>>
  BY DEF ClaimCode
<1> DEFINE r == [Idle EXCEPT !.at = "issuing", !.grant = code[c].grant,
                             !.family = f, !.offline = code[c].offline]
<1>5. code[c] \in CodeRow
  BY <1>1, <1>2 DEF OAuthTypeOK
<1>6. r \in AuthRecord /\ r.at = "issuing" /\ r.family = f
  BY <1>5 DEF CodeRow, AuthRecord, Idle
<1>7. GoTo(q, r)
  BY <1>3
<1> HIDE DEF r
<1>8. /\ auth' \in [AuthRequest -> AuthRecord]
      /\ auth'[q] = r
      /\ \A p \in AuthRequest : p # q => auth'[p] = auth[p]
  BY <1>1, <1>6, <1>7, Going
<1>9. code' \in [Code -> CodeRow]
  BY <1>1, <1>4, <1>5 DEF OAuthTypeOK, CodeRow
<1>10. /\ code'[c].state = "used"
       /\ \A d \in Code : d # c => code'[d] = code[d]
  BY <1>1, <1>2, <1>4, <1>5 DEF OAuthTypeOK, CodeRow
<1>11. /\ started' \in [Family -> Code \cup {None}]
       /\ started'[f] = c
       /\ \A g \in Family : g # f => started'[g] = started[g]
  BY <1>1, <1>2, <1>3 DEF OAuthTypeOK
<1>12. OAuthTypeOK'
  BY <1>1, <1>4, <1>8, <1>9, <1>11 DEF OAuthTypeOK
<1>13. RequestsRemember'
  BY <1>4, <1>6, <1>8 DEF OAuthInv, RequestsRemember
<1>14. None \notin Code
  BY OAuthAssumption
<1>15. FamiliesAreStarted'
  BY <1>2, <1>4, <1>6, <1>8, <1>11, <1>14 DEF OAuthInv, FamiliesAreStarted, Active
<1>16. \A g \in Family : started[g] # c
  BY <1>1, <1>2, <1>14 DEF OAuthInv, CodesStartOnce
<1>17. \A g \in Family : started[g] # None => started[g] \in Code /\ code[started[g]].state = "used"
  BY <1>1 DEF OAuthInv, CodesStartOnce, OAuthTypeOK
<1>18. CodesStartOnce'
  <2>1. \A g \in Family : started'[g] # None => code'[started'[g]].state = "used"
    BY <1>10, <1>11, <1>16, <1>17
  <2>2. \A g, h \in Family : started'[g] # None /\ started'[g] = started'[h] => g = h
    BY <1>11, <1>16 DEF OAuthInv, CodesStartOnce
  <2> QED BY <2>1, <2>2 DEF CodesStartOnce
<1>19. /\ \A p \in AuthRequest : Active(p) => auth[p].family # f
       /\ \A t \in Token : token[t].state = "live" => token[t].family # f
  BY <1>3 DEF OAuthInv, FamiliesAreStarted
<1>20. \A p \in AuthRequest : p # q =>
         (Active(p)' <=> Active(p)) /\ auth'[p].family = auth[p].family
  BY <1>8 DEF Active
<1>21. OneHolder'
  BY <1>4, <1>6, <1>8, <1>19, <1>20 DEF OAuthInv, OneHolder
<1>22. SweptFirst'
  BY <1>4, <1>6, <1>8, <1>19 DEF OAuthInv, SweptFirst
<1>23. LinearFamily'
  BY <1>4 DEF OAuthInv, LinearFamily
<1>24. OAuthInv'
  BY <1>12, <1>13, <1>15, <1>18, <1>21, <1>22, <1>23 DEF OAuthInv
<1> QED BY <1>2, <1>3, <1>4, <1>6, <1>8, <1>24

\* The winner of a refresh token becomes the holder of its family.
LEMMA RotateKeeps ==
  ASSUME OAuthInv, NEW q \in AuthRequest, Rotate(q), NEW t, t = auth[q].token,
         token[t].state = "live"
  PROVE  /\ OAuthInv'
         /\ UNCHANGED <<started, code, grant>>
         /\ t \in Token /\ token[t].kind = "refresh" /\ token[t].family \in Family
         /\ token'[t].state # "live"
         /\ \A u \in Token : u # t => token'[u] = token[u]
         /\ auth[q].at = "rotating"
         /\ auth'[q].at = "sweeping" /\ auth'[q].family = token[t].family
         /\ \A p \in AuthRequest : p # q => auth'[p] = auth[p]
<1> DEFINE r == [Idle EXCEPT !.at = "sweeping", !.grant = token[t].grant,
                             !.family = token[t].family, !.offline = TRUE]
           T == {t}
<1>1. OAuthTypeOK
  BY DEF OAuthInv
<1>2. t \in Token /\ token[t].kind = "refresh" /\ auth[q].at = "rotating"
  BY DEF OAuthInv, RequestsRemember, Rotate
<1>3. /\ GoTo(q, r) /\ RevokeTokens(T) /\ UNCHANGED <<grant, code, started>>
      /\ token' = [u \in Token |->
                    IF u \in {t} /\ token[u].state = "live"
                    THEN [token[u] EXCEPT !.state = "revoked"] ELSE token[u]]
  BY DEF Rotate, RevokeTokens
<1>4. token[t] \in TokenRow
  BY <1>1, <1>2 DEF OAuthTypeOK
<1>5. r \in AuthRecord /\ r.at = "sweeping" /\ r.family = token[t].family
  BY <1>4 DEF TokenRow, AuthRecord, Idle
<1>6. T \in SUBSET Token
  BY <1>2
<1>7. \A u \in Token : u # t => token'[u] = token[u]
  BY <1>3
<1>8. t \in T
  OBVIOUS
<1> HIDE DEF r, T
<1>9. /\ auth' \in [AuthRequest -> AuthRecord]
      /\ auth'[q] = r
      /\ \A p \in AuthRequest : p # q => auth'[p] = auth[p]
  BY <1>1, <1>3, <1>5, Going
<1>10. /\ token' \in [Token -> TokenRow]
       /\ \A u \in Token :
            \/ token'[u] = token[u]
            \/ token[u].state = "live" /\ token'[u] = [token[u] EXCEPT !.state = "revoked"]
       /\ \A u \in T : token'[u].state # "live"
  BY <1>1, <1>3, <1>6, Revoking
<1>11. OAuthTypeOK'
  BY <1>1, <1>3, <1>9, <1>10 DEF OAuthTypeOK
<1>12. \A u \in Token :
         /\ token'[u].kind = token[u].kind
         /\ token'[u].family = token[u].family
         /\ token'[u].state = "live" => token[u].state = "live" /\ u # t
         /\ token'[u].state = "absent" <=> token[u].state = "absent"
  BY <1>1, <1>8, <1>10 DEF OAuthTypeOK, TokenRow
<1>13. RequestsRemember'
  BY <1>5, <1>9, <1>12 DEF OAuthInv, RequestsRemember
<1>14. token[t].family \in Family /\ started[token[t].family] # None
  BY <1>2 DEF OAuthInv, FamiliesAreStarted
<1>15. \A p \in AuthRequest : p # q =>
         (Active(p)' <=> Active(p)) /\ auth'[p].family = auth[p].family
  BY <1>9 DEF Active
<1>16. FamiliesAreStarted'
  BY <1>3, <1>5, <1>9, <1>12, <1>14, <1>15 DEF OAuthInv, FamiliesAreStarted
<1>17. CodesStartOnce'
  BY <1>1, <1>3 DEF OAuthInv, CodesStartOnce, OAuthTypeOK
<1>18. /\ \A p \in AuthRequest : Active(p) => auth[p].family # token[t].family
       /\ \A u \in Token : /\ token'[u].state = "live" /\ token'[u].kind = "refresh"
                           => token'[u].family # token[t].family
  BY <1>2, <1>12 DEF OAuthInv, OneHolder, LinearFamily
<1>19. OneHolder'
  BY <1>5, <1>9, <1>12, <1>15, <1>18 DEF OAuthInv, OneHolder
<1>20. SweptFirst'
  BY <1>5, <1>9, <1>12 DEF OAuthInv, SweptFirst
<1>21. LinearFamily'
  BY <1>12 DEF OAuthInv, LinearFamily
<1>22. OAuthInv'
  BY <1>11, <1>13, <1>16, <1>17, <1>19, <1>20, <1>21 DEF OAuthInv
<1> QED BY <1>2, <1>3, <1>5, <1>7, <1>8, <1>9, <1>10, <1>14, <1>22

\* The holder of a family issues its access token, after the sweep.
LEMMA IssueAccessKeeps ==
  ASSUME OAuthInv, NEW q \in AuthRequest, IssueAccess(q)
  PROVE  /\ OAuthInv'
         /\ UNCHANGED <<started, code, grant>>
         /\ \A u \in Token : /\ token'[u].state = "live" /\ token'[u].kind = "refresh"
                             <=> token[u].state = "live" /\ token[u].kind = "refresh"
         /\ \A u \in Token : token[u].state = "live" => token'[u] = token[u]
         /\ auth[q].at = "issuing"
         /\ auth'[q].at \in {"renewing", "idle"}
         /\ auth'[q].at = "renewing" => auth'[q].family = auth[q].family
         /\ \A p \in AuthRequest : p # q => auth'[p] = auth[p]
<1> DEFINE r == IF auth[q].offline THEN [auth[q] EXCEPT !.at = "renewing"] ELSE Idle
<1>1. OAuthTypeOK
  BY DEF OAuthInv
<1>2. auth[q] \in AuthRecord /\ auth[q].at = "issuing"
  BY <1>1 DEF OAuthTypeOK, IssueAccess
<1>3. GoTo(q, r) /\ NewToken(q, "access") /\ UNCHANGED <<grant, code, started>>
  BY DEF IssueAccess
<1>4. /\ r \in AuthRecord /\ r.at \in {"renewing", "idle"}
      /\ r.at = "renewing" => r.family = auth[q].family
  <2>1. CASE auth[q].offline
    BY <2>1, <1>2 DEF AuthRecord
  <2>2. CASE ~auth[q].offline
    BY <2>2, IdleRecord DEF Idle
  <2> QED BY <2>1, <2>2
<1> HIDE DEF r
<1>5. /\ auth' \in [AuthRequest -> AuthRecord]
      /\ auth'[q] = r
      /\ \A p \in AuthRequest : p # q => auth'[p] = auth[p]
  BY <1>1, <1>3, <1>4, Going
<1>6. /\ token' \in [Token -> TokenRow]
      /\ \E t \in Token :
           /\ token[t].state = "absent"
           /\ token'[t].state = "live" /\ token'[t].kind = "access"
           /\ token'[t].family = auth[q].family
           /\ \A u \in Token : u # t => token'[u] = token[u]
  BY <1>1, <1>3, Issuance
<1>7. PICK t \in Token :
        /\ token[t].state = "absent"
        /\ token'[t].state = "live" /\ token'[t].kind = "access"
        /\ token'[t].family = auth[q].family
        /\ \A u \in Token : u # t => token'[u] = token[u]
  BY <1>6
<1>8. OAuthTypeOK'
  BY <1>1, <1>3, <1>5, <1>6 DEF OAuthTypeOK
<1>9. Active(q) /\ auth[q].family \in Family /\ started[auth[q].family] # None
  BY <1>2 DEF OAuthInv, FamiliesAreStarted, Active
<1>10. \A p \in AuthRequest : Active(p)' => Active(p) /\ auth'[p].family = auth[p].family
  BY <1>4, <1>5, <1>9 DEF Active
<1>11. token[t].kind = "none"
  BY <1>7 DEF OAuthInv, FamiliesAreStarted
<1>12. RequestsRemember'
  BY <1>4, <1>5, <1>7, <1>11 DEF OAuthInv, RequestsRemember
<1>13. FamiliesAreStarted'
  BY <1>3, <1>7, <1>9, <1>10 DEF OAuthInv, FamiliesAreStarted
<1>14. CodesStartOnce'
  BY <1>1, <1>3 DEF OAuthInv, CodesStartOnce, OAuthTypeOK
<1>15. OneHolder'
  BY <1>7, <1>10 DEF OAuthInv, OneHolder
<1>16. \A u \in Token : token[u].state = "live" /\ token[u].kind = "access"
                        => token[u].family # auth[q].family
  BY <1>2 DEF OAuthInv, SweptFirst
<1>17. \A p \in AuthRequest : auth'[p].at = "issuing" =>
         p # q /\ auth[p].at = "issuing" /\ auth'[p].family # auth[q].family
  BY <1>4, <1>5, <1>9 DEF OAuthInv, OneHolder, Active
<1>18. SweptFirst'
  BY <1>5, <1>7, <1>17 DEF OAuthInv, SweptFirst
<1>19. LinearFamily'
  BY <1>7, <1>16 DEF OAuthInv, LinearFamily
<1>20. OAuthInv'
  BY <1>8, <1>12, <1>13, <1>14, <1>15, <1>18, <1>19 DEF OAuthInv
<1>21. \A u \in Token : token[u].state = "live" => token'[u] = token[u]
  BY <1>7
<1>22. \A u \in Token : token'[u].state = "live" /\ token'[u].kind = "refresh"
                        <=> token[u].state = "live" /\ token[u].kind = "refresh"
  BY <1>7
<1> QED BY <1>2, <1>3, <1>4, <1>5, <1>20, <1>21, <1>22

\* The holder of a family hands the right to renew it to a refresh token.
LEMMA IssueRefreshKeeps ==
  ASSUME OAuthInv, NEW q \in AuthRequest, IssueRefresh(q)
  PROVE  /\ OAuthInv'
         /\ UNCHANGED <<started, code, grant>>
         /\ auth[q].at = "renewing" /\ auth'[q] = Idle
         /\ \A p \in AuthRequest : p # q => auth'[p] = auth[p]
         /\ \E t \in Token :
              /\ token[t].state = "absent"
              /\ token'[t].state = "live" /\ token'[t].kind = "refresh"
              /\ token'[t].family = auth[q].family
              /\ \A u \in Token : u # t => token'[u] = token[u]
<1>1. OAuthTypeOK
  BY DEF OAuthInv
<1>2. auth[q] \in AuthRecord /\ auth[q].at = "renewing"
  BY <1>1 DEF OAuthTypeOK, IssueRefresh
<1>3. GoTo(q, Idle) /\ NewToken(q, "refresh") /\ UNCHANGED <<grant, code, started>>
  BY DEF IssueRefresh
<1>4. Idle \in AuthRecord /\ Idle.at = "idle"
  BY IdleRecord DEF Idle
<1>5. /\ auth' \in [AuthRequest -> AuthRecord]
      /\ auth'[q] = Idle
      /\ \A p \in AuthRequest : p # q => auth'[p] = auth[p]
  BY <1>1, <1>3, <1>4, Going
<1>6. /\ token' \in [Token -> TokenRow]
      /\ \E t \in Token :
           /\ token[t].state = "absent"
           /\ token'[t].state = "live" /\ token'[t].kind = "refresh"
           /\ token'[t].family = auth[q].family
           /\ \A u \in Token : u # t => token'[u] = token[u]
  BY <1>1, <1>3, Issuance
<1>7. PICK t \in Token :
        /\ token[t].state = "absent"
        /\ token'[t].state = "live" /\ token'[t].kind = "refresh"
        /\ token'[t].family = auth[q].family
        /\ \A u \in Token : u # t => token'[u] = token[u]
  BY <1>6
<1>8. OAuthTypeOK'
  BY <1>1, <1>3, <1>5, <1>6 DEF OAuthTypeOK
<1>9. Active(q) /\ auth[q].family \in Family /\ started[auth[q].family] # None
  BY <1>2 DEF OAuthInv, FamiliesAreStarted, Active
<1>10. \A p \in AuthRequest : Active(p)' =>
         Active(p) /\ p # q /\ auth'[p] = auth[p] /\ auth[p].family # auth[q].family
  BY <1>4, <1>5, <1>9 DEF OAuthInv, OneHolder, Active
<1>11. token[t].kind = "none"
  BY <1>7 DEF OAuthInv, FamiliesAreStarted
<1>12. RequestsRemember'
  BY <1>4, <1>5, <1>7, <1>11 DEF OAuthInv, RequestsRemember
<1>13. FamiliesAreStarted'
  BY <1>3, <1>7, <1>9, <1>10 DEF OAuthInv, FamiliesAreStarted
<1>14. CodesStartOnce'
  BY <1>1, <1>3 DEF OAuthInv, CodesStartOnce, OAuthTypeOK
<1>15. OneHolder'
  BY <1>7, <1>10 DEF OAuthInv, OneHolder
<1>16. SweptFirst'
  BY <1>4, <1>5, <1>7 DEF OAuthInv, SweptFirst
<1>17. \A u \in Token : token[u].state = "live" /\ token[u].kind = "refresh"
                        => token[u].family # auth[q].family
  BY <1>9 DEF OAuthInv, OneHolder
<1>18. LinearFamily'
  BY <1>7, <1>17 DEF OAuthInv, LinearFamily
<1>19. OAuthInv'
  BY <1>8, <1>12, <1>13, <1>14, <1>15, <1>16, <1>18 DEF OAuthInv
<1> QED BY <1>2, <1>3, <1>5, <1>6, <1>19

-----------------------------------------------------------------------------
(* The theorems of the safety properties.                                  *)

LEMMA InitInv == OAuthInit => OAuthInv
BY OAuthAssumption
   DEF OAuthInit, OAuthInv, OAuthTypeOK, RequestsRemember, FamiliesAreStarted, CodesStartOnce,
       OneHolder, SweptFirst, LinearFamily, Active, NoCode, NoToken, Idle, CodeRow, TokenRow,
       AuthRecord

\* Every step of a request or an administrator keeps the invariant.
LEMMA StepInv == OAuthInv /\ [OAuthNext]_oauthVars => OAuthInv'
<1>1. ASSUME OAuthInv, UNCHANGED oauthVars PROVE OAuthInv'
  BY <1>1 DEF OAuthInv, oauthVars, OAuthTypeOK, RequestsRemember, FamiliesAreStarted,
              CodesStartOnce, OneHolder, SweptFirst, LinearFamily, Active
<1>2. ASSUME OAuthInv, NEW g \in AgentGrant, RevokeGrant(g) PROVE OAuthInv'
  BY <1>2, RevokeGrantKeeps
<1>3. ASSUME OAuthInv, NEW q \in AuthRequest, RequestStep(q) PROVE OAuthInv'
  <2>1. CASE ClaimCode(q)
    BY <2>1, <1>3, ClaimKeeps, LosersKeep
  <2>2. CASE Rotate(q)
    BY <2>2, <1>3, RotateKeeps, LosersKeep
  <2>3. CASE Sweep(q)
    BY <2>3, <1>3, SweepKeeps
  <2>4. CASE IssueAccess(q)
    BY <2>4, <1>3, IssueAccessKeeps
  <2>5. CASE IssueRefresh(q)
    BY <2>5, <1>3, IssueRefreshKeeps
  <2>6. CASE ~ (ClaimCode(q) \/ Rotate(q) \/ Sweep(q) \/ IssueAccess(q) \/ IssueRefresh(q))
    <3>1. \/ \E g \in AgentGrant, offline \in BOOLEAN : Approve(q, g, offline)
          \/ Replace(q)
          \/ CreateCode(q)
          \/ \E c \in Code : FindCode(q, c)
          \/ \E t \in Token : FindRefresh(q, t) \/ FindRevoked(q, t)
          \/ RevokeToken(q)
          \/ Abort(q)
      BY <2>6, <1>3 DEF RequestStep
    <3> QED BY <3>1, <1>3, LookupsKeep
  <2> QED BY <2>1, <2>2, <2>3, <2>4, <2>5, <2>6
<1> QED BY <1>1, <1>2, <1>3 DEF OAuthNext

LEMMA OAuthInvariance == OAuthSpec => []OAuthInv
BY InitInv, StepInv, PTL DEF OAuthSpec

\* The rows and the requests have the shape the handlers give them.
THEOREM OAuthTypeCorrect == OAuthSpec => []OAuthTypeOK
<1>1. OAuthInv => OAuthTypeOK
  BY DEF OAuthInv
<1> QED BY <1>1, OAuthInvariance, PTL

\* At most one access and one refresh token of a family are unrevoked, for any
\* number of requests that overlap or break off.
THEOREM LinearFamilyHolds == OAuthSpec => []LinearFamily
<1>1. OAuthInv => LinearFamily
  BY DEF OAuthInv
<1> QED BY <1>1, OAuthInvariance, PTL

-----------------------------------------------------------------------------
(* The refinement.                                                         *)

\* What the phase of a family says, now and after a step.
LEMMA Phases ==
  \A f \in Family :
    /\ FamilyPhase(f) = "unborn" <=> started[f] = None
    /\ FamilyPhase(f) = "issuing" <=> started[f] # None /\ Issuing(f)
    /\ FamilyPhase(f) = "renewable" <=> started[f] # None /\ ~Issuing(f) /\ Renewable(f)
    /\ FamilyPhase(f) = "ended" <=> started[f] # None /\ ~Issuing(f) /\ ~Renewable(f)
    /\ FamilyPhase(f) \in {"unborn", "issuing", "renewable", "ended"}
BY DEF FamilyPhase

LEMMA PhasesNext ==
  \A f \in Family :
    /\ FamilyPhase(f)' = "unborn" <=> started'[f] = None
    /\ FamilyPhase(f)' = "issuing" <=> started'[f] # None /\ Issuing(f)'
    /\ FamilyPhase(f)' = "renewable" <=> started'[f] # None /\ ~Issuing(f)' /\ Renewable(f)'
    /\ FamilyPhase(f)' = "ended" <=> started'[f] # None /\ ~Issuing(f)' /\ ~Renewable(f)'
    /\ FamilyPhase(f)' \in {"unborn", "issuing", "renewable", "ended"}
BY DEF FamilyPhase

\* A family whose renewal is in progress has no refresh token.
LEMMA HolderOrToken ==
  ASSUME OAuthInv PROVE \A f \in Family : Issuing(f) => ~Renewable(f)
BY DEF OAuthInv, OneHolder, Issuing, Renewable, FamilyTokens, Active

\* A step that gives nobody the right to renew a family ends some or none.
LEMMA Ending ==
  ASSUME OAuthInv, UNCHANGED started,
         \A f \in Family : Issuing(f)' => Issuing(f),
         \A f \in Family : Renewable(f)' => Renewable(f)
  PROVE  Families!FamilyNext
<1> DEFINE S == {f \in Family : FamilyPhase(f) \in {"renewable", "issuing"}
                                /\ FamilyPhase(f)' = "ended"}
<1>1. \A f \in Family : f \notin S => FamilyPhase(f)' = FamilyPhase(f)
  <2> SUFFICES ASSUME NEW f \in Family, f \notin S
               PROVE  FamilyPhase(f)' = FamilyPhase(f)
    OBVIOUS
  <2>1. Issuing(f) => ~Renewable(f)
    BY HolderOrToken
  <2>2. Issuing(f)' => Issuing(f)
    OBVIOUS
  <2>3. Renewable(f)' => Renewable(f)
    OBVIOUS
  <2> QED BY <2>1, <2>2, <2>3, Phases, PhasesNext
<1>2. \A f \in S : FamilyPhase(f)' = "ended" /\ FamilyPhase(f) \in {"renewable", "issuing"}
  OBVIOUS
<1>3. S \in SUBSET Family
  OBVIOUS
<1> HIDE DEF S
<1>4. Families!End(S)
  BY <1>1, <1>2, <1>3 DEF Families!End
<1> QED BY <1>3, <1>4 DEF Families!FamilyNext

LEMMA ShrinkingEnds ==
  ASSUME OAuthInv, Shrinking PROVE Families!FamilyNext
<1>1. \A f \in Family : Issuing(f)' => Issuing(f)
  BY DEF Issuing, Shrinking, Active
<1>2. \A t \in Token : token[t] \in TokenRow
  BY DEF OAuthInv, OAuthTypeOK
<1>3. \A t \in Token :
        /\ token'[t].kind = token[t].kind
        /\ token'[t].family = token[t].family
        /\ token'[t].state = "live" => token[t].state = "live"
  BY <1>2 DEF Shrinking, TokenRow
<1>4. \A f \in Family : Renewable(f)' => Renewable(f)
  BY <1>3 DEF Renewable, FamilyTokens
<1> QED BY <1>1, <1>4, Ending DEF Shrinking

\* Claiming a code starts a family from it, the first and only one.
LEMMA ClaimStarts ==
  ASSUME OAuthInv, NEW q \in AuthRequest, ClaimCode(q), code[auth[q].code].state = "unused"
  PROVE  Families!FamilyNext
<1> DEFINE c == auth[q].code
<1>1. UNCHANGED token
  BY ClaimKeeps
<1>2. PICK f \in Family :
        /\ started[f] = None /\ started' = [started EXCEPT ![f] = c]
        /\ c \in Code /\ auth[q].at = "claiming"
        /\ auth'[q].at = "issuing" /\ auth'[q].family = f
        /\ \A p \in AuthRequest : p # q => auth'[p] = auth[p]
  BY ClaimKeeps
<1>3. started \in [Family -> Code \cup {None}] /\ None \notin Code
  BY OAuthAssumption DEF OAuthInv, OAuthTypeOK
<1>4. started'[f] = c /\ \A g \in Family : g # f => started'[g] = started[g]
  BY <1>2, <1>3
<1>5. FamilyPhase(f) = "unborn"
  BY <1>2, Phases
<1>6. Issuing(f)'
  BY <1>2 DEF Issuing
<1>7. FamilyPhase(f)' = "issuing"
  BY <1>2, <1>3, <1>4, <1>6, PhasesNext
<1>8. \A g \in Family : g # f => (Issuing(g)' <=> Issuing(g))
  BY <1>2 DEF Issuing
<1>9. \A g \in Family : Renewable(g)' <=> Renewable(g)
  BY <1>1 DEF Renewable, FamilyTokens
<1>10. \A g \in Family : g # f => FamilyPhase(g)' = FamilyPhase(g)
  BY <1>4, <1>8, <1>9 DEF FamilyPhase
<1>11. \A g \in Family : started[g] # c
  BY <1>2, <1>3 DEF OAuthInv, CodesStartOnce
<1>12. Families!Start(c, f)
  BY <1>2, <1>5, <1>7, <1>10, <1>11 DEF Families!Start
<1> QED BY <1>2, <1>12 DEF Families!FamilyNext

\* Consuming a refresh token takes the renewal of its family.
LEMMA RotateRenews ==
  ASSUME OAuthInv, NEW q \in AuthRequest, Rotate(q), token[auth[q].token].state = "live"
  PROVE  Families!FamilyNext
<1>0. PICK t \in Token, f \in Family : t = auth[q].token /\ f = token[t].family
  BY RotateKeeps
<1>1. /\ OAuthInv'
      /\ UNCHANGED <<started, code, grant>>
      /\ t \in Token /\ token[t].kind = "refresh" /\ f \in Family
      /\ token'[t].state # "live"
      /\ \A u \in Token : u # t => token'[u] = token[u]
      /\ auth[q].at = "rotating"
      /\ auth'[q].at = "sweeping" /\ auth'[q].family = f
      /\ \A p \in AuthRequest : p # q => auth'[p] = auth[p]
  BY <1>0, RotateKeeps
<1>2. started[f] # None /\ Renewable(f)
  BY <1>0, <1>1 DEF OAuthInv, FamiliesAreStarted, Renewable, FamilyTokens
<1>3. ~Issuing(f)
  BY <1>1, <1>2, HolderOrToken
<1>4. FamilyPhase(f) = "renewable"
  BY <1>1, <1>2, <1>3, Phases
<1>5. Issuing(f)'
  BY <1>1 DEF Issuing
<1>6. FamilyPhase(f)' = "issuing"
  BY <1>1, <1>2, <1>5, PhasesNext
<1>7. \A g \in Family : g # f => (Issuing(g)' <=> Issuing(g))
  BY <1>1 DEF Issuing
<1>8. \A g \in Family : g # f => (Renewable(g)' <=> Renewable(g))
  BY <1>0, <1>1 DEF Renewable, FamilyTokens
<1>9. \A g \in Family : g # f => FamilyPhase(g)' = FamilyPhase(g)
  BY <1>1, <1>7, <1>8 DEF FamilyPhase
<1>10. Families!Renew(f)
  BY <1>1, <1>4, <1>6, <1>9 DEF Families!Renew
<1> QED BY <1>1, <1>10 DEF Families!FamilyNext

\* The access token gives no right to renew; without offline access it is the last.
LEMMA IssueAccessEnds ==
  ASSUME OAuthInv, NEW q \in AuthRequest, IssueAccess(q) PROVE Families!FamilyNext
<1>1. /\ UNCHANGED started
      /\ \A u \in Token : /\ token'[u].state = "live" /\ token'[u].kind = "refresh"
                          <=> token[u].state = "live" /\ token[u].kind = "refresh"
      /\ \A u \in Token : token[u].state = "live" => token'[u] = token[u]
      /\ auth[q].at = "issuing"
      /\ auth'[q].at \in {"renewing", "idle"}
      /\ auth'[q].at = "renewing" => auth'[q].family = auth[q].family
      /\ \A p \in AuthRequest : p # q => auth'[p] = auth[p]
  BY IssueAccessKeeps
<1>2. \A f \in Family : Issuing(f)' => Issuing(f)
  BY <1>1 DEF Issuing
<1>3. \A f \in Family : Renewable(f)' => Renewable(f)
  BY <1>1 DEF Renewable, FamilyTokens
<1> QED BY <1>1, <1>2, <1>3, Ending

\* The new refresh token holds the family.
LEMMA IssueRefreshIssues ==
  ASSUME OAuthInv, NEW q \in AuthRequest, IssueRefresh(q) PROVE Families!FamilyNext
<1>0. PICK f \in Family : f = auth[q].family
  <2>1. Active(q)
    BY DEF IssueRefresh, Active
  <2> QED BY <2>1 DEF OAuthInv, FamiliesAreStarted
<1>1. /\ OAuthInv'
      /\ UNCHANGED <<started, code, grant>>
      /\ auth[q].at = "renewing" /\ auth'[q] = Idle
      /\ \A p \in AuthRequest : p # q => auth'[p] = auth[p]
  BY IssueRefreshKeeps
<1>2. PICK t \in Token :
        /\ token[t].state = "absent"
        /\ token'[t].state = "live" /\ token'[t].kind = "refresh"
        /\ token'[t].family = f
        /\ \A u \in Token : u # t => token'[u] = token[u]
  BY <1>0, IssueRefreshKeeps
<1>3. f \in Family /\ started[f] # None /\ Issuing(f)
  BY <1>0, <1>1 DEF OAuthInv, FamiliesAreStarted, Active, Issuing
<1>4. FamilyPhase(f) = "issuing"
  BY <1>3, Phases
<1>5. auth'[q].at = "idle"
  BY <1>1 DEF Idle
<1>6. ~ Issuing(f)'
  BY <1>0, <1>1, <1>3, <1>5 DEF OAuthInv, OneHolder, Active, Issuing
<1>7. Renewable(f)'
  BY <1>1, <1>2 DEF Renewable, FamilyTokens
<1>8. FamilyPhase(f)' = "renewable"
  BY <1>1, <1>3, <1>6, <1>7, PhasesNext
<1>9. \A g \in Family : g # f => (Issuing(g)' <=> Issuing(g))
  BY <1>0, <1>1, <1>5 DEF Issuing
<1>10. \A g \in Family : g # f => (Renewable(g)' <=> Renewable(g))
  BY <1>2 DEF Renewable, FamilyTokens
<1>11. \A g \in Family : g # f => FamilyPhase(g)' = FamilyPhase(g)
  BY <1>1, <1>9, <1>10 DEF FamilyPhase
<1>12. Families!Issued(f)
  BY <1>1, <1>3, <1>4, <1>8, <1>11 DEF Families!Issued
<1> QED BY <1>3, <1>12 DEF Families!FamilyNext

\* Every step of the endpoints is one of TokenFamilies or a stutter.
LEMMA FamilyStep ==
  OAuthInv /\ [OAuthNext]_oauthVars => [Families!FamilyNext]_Families!familyVars
<1>1. ASSUME UNCHANGED oauthVars PROVE UNCHANGED Families!familyVars
  <2>1. \A f \in Family : (Issuing(f)' <=> Issuing(f)) /\ (Renewable(f)' <=> Renewable(f))
    BY <1>1 DEF oauthVars, Issuing, Renewable, FamilyTokens
  <2>2. \A f \in Family : FamilyPhase(f)' = FamilyPhase(f)
    BY <1>1, <2>1 DEF oauthVars, FamilyPhase
  <2> QED BY <1>1, <2>2 DEF oauthVars, Families!familyVars
<1>2. ASSUME OAuthInv, NEW g \in AgentGrant, RevokeGrant(g) PROVE Families!FamilyNext
  BY <1>2, RevokeGrantKeeps, ShrinkingEnds
<1>3. ASSUME OAuthInv, NEW q \in AuthRequest, RequestStep(q) PROVE Families!FamilyNext
  <2>1. CASE ClaimCode(q)
    BY <2>1, <1>3, ClaimStarts, LosersKeep, ShrinkingEnds
  <2>2. CASE Rotate(q)
    BY <2>2, <1>3, RotateRenews, LosersKeep, ShrinkingEnds
  <2>3. CASE Sweep(q)
    BY <2>3, <1>3, SweepKeeps, ShrinkingEnds
  <2>4. CASE IssueAccess(q)
    BY <2>4, <1>3, IssueAccessEnds
  <2>5. CASE IssueRefresh(q)
    BY <2>5, <1>3, IssueRefreshIssues
  <2>6. CASE ~ (ClaimCode(q) \/ Rotate(q) \/ Sweep(q) \/ IssueAccess(q) \/ IssueRefresh(q))
    <3>1. \/ \E g \in AgentGrant, offline \in BOOLEAN : Approve(q, g, offline)
          \/ Replace(q)
          \/ CreateCode(q)
          \/ \E c \in Code : FindCode(q, c)
          \/ \E t \in Token : FindRefresh(q, t) \/ FindRevoked(q, t)
          \/ RevokeToken(q)
          \/ Abort(q)
      BY <2>6, <1>3 DEF RequestStep
    <3> QED BY <3>1, <1>3, LookupsKeep, ShrinkingEnds
  <2> QED BY <2>1, <2>2, <2>3, <2>4, <2>5, <2>6
<1> QED BY <1>1, <1>2, <1>3 DEF OAuthNext

\* Overlapping exchanges, rotations and revocations together keep the promise
\* of TokenFamilies: one family per approval, one holder of its renewal, and
\* no token for a family that has lost it.
THEOREM TokenFamiliesImplemented == OAuthSpec => ImplementsTokenFamilies
<1>1. OAuthInit => Families!FamilyInit
  <2> SUFFICES ASSUME OAuthInit PROVE Families!FamilyInit
    OBVIOUS
  <2>1. \A f \in Family : started[f] = None
    BY DEF OAuthInit
  <2>2. \A f \in Family : FamilyPhase(f) = "unborn"
    BY <2>1, Phases
  <2> QED BY <2>2 DEF Families!FamilyInit, OAuthInit
<1> QED BY <1>1, FamilyStep, OAuthInvariance, PTL
       DEF OAuthSpec, ImplementsTokenFamilies, Families!FamilySpec

\* A family without a refresh token and without a renewal in progress stays so,
\* none of its tokens is issued and none comes back; a revoked token of any
\* family stays revoked.
NoTokenAfterTheEnd ==
  /\ \A f \in Family :
       FamilyPhase(f) = "ended" =>
         /\ FamilyPhase(f)' = "ended"
         /\ \A t \in Token : token'[t].family = f /\ token'[t].state = "live"
                            => token[t].state = "live"
  /\ \A t \in Token : token[t].state = "revoked" => token'[t].state = "revoked"

\* Rows are only ever issued for the family the request works on.
LEMMA WhoIssues ==
  ASSUME OAuthInv, [OAuthNext]_oauthVars, NEW t \in Token
  PROVE  /\ token[t].state = "revoked" => token'[t].state = "revoked"
         /\ token'[t].state = "live" /\ token[t].state # "live"
            => \E q \in AuthRequest : /\ auth[q].at \in {"issuing", "renewing"}
                                     /\ auth[q].family = token'[t].family
<1>0. OAuthTypeOK /\ token[t] \in TokenRow
  BY DEF OAuthInv, OAuthTypeOK
<1>1. CASE UNCHANGED oauthVars
  BY <1>1 DEF oauthVars
<1>2. ASSUME Shrinking PROVE /\ token[t].state = "revoked" => token'[t].state = "revoked"
                             /\ token'[t].state = "live" => token[t].state = "live"
  BY <1>0, <1>2 DEF Shrinking, TokenRow
<1>3. CASE \E g \in AgentGrant : RevokeGrant(g)
  BY <1>2, <1>3, RevokeGrantKeeps
<1>4. ASSUME NEW q \in AuthRequest, RequestStep(q)
      PROVE  /\ token[t].state = "revoked" => token'[t].state = "revoked"
             /\ token'[t].state = "live" /\ token[t].state # "live"
                => /\ auth[q].at \in {"issuing", "renewing"}
                   /\ auth[q].family = token'[t].family
  <2>1. CASE ClaimCode(q)
    <3>1. UNCHANGED token
      BY <2>1, Zenon DEF ClaimCode
    <3> QED BY <3>1
  <2>2. CASE Rotate(q)
    <3>1. CASE token[auth[q].token].state = "live"
      BY <2>2, <3>1, <1>0, RotateKeeps
    <3>2. CASE token[auth[q].token].state # "live"
      BY <2>2, <3>2, <1>2, LosersKeep
    <3> QED BY <3>1, <3>2
  <2>3. CASE Sweep(q)
    BY <2>3, <1>2, SweepKeeps
  <2>4. CASE IssueAccess(q)
    BY <2>4, <1>0 DEF IssueAccess, NewToken, OAuthTypeOK
  <2>5. CASE IssueRefresh(q)
    BY <2>5, <1>0 DEF IssueRefresh, NewToken, OAuthTypeOK
  <2>6. CASE ~ (ClaimCode(q) \/ Rotate(q) \/ Sweep(q) \/ IssueAccess(q) \/ IssueRefresh(q))
    <3>1. \/ \E g \in AgentGrant, offline \in BOOLEAN : Approve(q, g, offline)
          \/ Replace(q)
          \/ CreateCode(q)
          \/ \E c \in Code : FindCode(q, c)
          \/ \E u \in Token : FindRefresh(q, u) \/ FindRevoked(q, u)
          \/ RevokeToken(q)
          \/ Abort(q)
      BY <2>6, <1>4 DEF RequestStep
    <3> QED BY <3>1, <1>2, LookupsKeep
  <2> QED BY <2>1, <2>2, <2>3, <2>4, <2>5, <2>6
<1> QED BY <1>1, <1>3, <1>4 DEF OAuthNext

\* In every behaviour of the endpoints no token is issued for, or given back to,
\* a family that has ended, whatever exchanges, rotations and revocations overlap.
THEOREM EndedForGood == OAuthSpec => [][NoTokenAfterTheEnd]_oauthVars
<1>1. OAuthInv /\ [OAuthNext]_oauthVars => NoTokenAfterTheEnd
  <2> SUFFICES ASSUME OAuthInv, [OAuthNext]_oauthVars PROVE NoTokenAfterTheEnd
    OBVIOUS
  <2>1. ASSUME NEW f \in Family, FamilyPhase(f) = "ended" PROVE FamilyPhase(f)' = "ended"
    <3>1. [Families!FamilyNext]_Families!familyVars
      BY FamilyStep
    <3>2. CASE UNCHANGED Families!familyVars
      BY <2>1, <3>2 DEF Families!familyVars
    <3>3. CASE Families!FamilyNext
      <4>1. CASE \E g \in Family : \/ Families!Renew(g) \/ Families!Issued(g)
                                  \/ \E a \in Code : Families!Start(a, g)
        BY <2>1, <4>1 DEF Families!Renew, Families!Issued, Families!Start
      <4>2. CASE \E S \in SUBSET Family : Families!End(S)
        BY <2>1, <4>2 DEF Families!End
      <4> QED BY <3>3, <4>1, <4>2 DEF Families!FamilyNext
    <3> QED BY <3>1, <3>2, <3>3
  <2>2. ASSUME NEW f \in Family, FamilyPhase(f) = "ended", NEW t \in Token,
               token'[t].family = f, token'[t].state = "live"
        PROVE  token[t].state = "live"
    <3>1. ~Issuing(f)
      BY <2>2, Phases
    <3> QED BY <2>2, <3>1, WhoIssues DEF Issuing
  <2> QED BY <2>1, <2>2, WhoIssues DEF NoTokenAfterTheEnd
<1> QED BY <1>1, OAuthInvariance, PTL DEF OAuthSpec

=============================================================================
