---------------------------- MODULE OAuthGrants ----------------------------
(***************************************************************************)
(* Authorization of agents: consent creates or renews a grant and a code,  *)
(* the token endpoint exchanges codes and rotates refresh tokens, clients  *)
(* revoke tokens and administrators grants.  Every await of a handler is a *)
(* step of its request, so requests interleave at all of them, and any of  *)
(* them may throw or die with the process.                                 *)
(*                                                                         *)
(* A row that has expired differs from one that has not only in being      *)
(* refused, and a refused request changes nothing: expiry has no state.    *)
(***************************************************************************)
EXTENDS Naturals

CONSTANTS
  AgentGrant,     (* grants: one per user and client                        *)
  Code,           (* authorization codes, in creation order                 *)
  Family,         (* token families (random ids, never drawn twice)         *)
  Token,          (* token rows, in creation order                          *)
  AuthRequest,    (* HTTP requests that may be open at a time               *)
  None

ASSUME OAuthAssumption ==
  /\ Code \subseteq Nat
  /\ Token \subseteq Nat
  /\ None \notin AgentGrant \cup Code \cup Family \cup Token

VARIABLES
  grant,          (* OAuthGrant: absent, live or revoked                    *)
  code,           (* OAuthAuthorizationCode                                 *)
  token,          (* OAuthToken                                             *)
  started,        (* history: the code a family was started from            *)
  auth            (* control state of the open requests                     *)

oauthVars == <<grant, code, token, started, auth>>

CodeRow ==
  [state : {"absent", "unused", "used"}, grant : AgentGrant \cup {None},
   offline : BOOLEAN]                          \* the scope has offline_access
TokenRow ==
  [state : {"absent", "live", "revoked"}, kind : {"none", "access", "refresh"},
   grant : AgentGrant \cup {None}, family : Family \cup {None}]

\* What a handler has read, and the await it is at.
AuthRecord ==
  [at : {"idle", "replacing", "coding", "claiming", "rotating", "sweeping",
         "issuing", "renewing", "revoking"},
   grant : AgentGrant \cup {None}, code : Code \cup {None},
   token : Token \cup {None}, family : Family \cup {None}, offline : BOOLEAN]

OAuthTypeOK ==
  /\ grant \in [AgentGrant -> {"absent", "live", "revoked"}]
  /\ code \in [Code -> CodeRow]
  /\ token \in [Token -> TokenRow]
  /\ started \in [Family -> Code \cup {None}]
  /\ auth \in [AuthRequest -> AuthRecord]

NoCode == [state |-> "absent", grant |-> None, offline |-> FALSE]
NoToken == [state |-> "absent", kind |-> "none", grant |-> None, family |-> None]
Idle == [at |-> "idle", grant |-> None, code |-> None, token |-> None,
         family |-> None, offline |-> FALSE]

OAuthInit ==
  /\ grant = [g \in AgentGrant |-> "absent"]
  /\ code = [c \in Code |-> NoCode]
  /\ token = [t \in Token |-> NoToken]
  /\ started = [f \in Family |-> None]
  /\ auth = [q \in AuthRequest |-> Idle]

GoTo(q, record) == auth' = [auth EXCEPT ![q] = record]

\* updateMany with revokedAt: null in its condition.
RevokeTokens(T) ==
  token' = [t \in Token |->
             IF t \in T /\ token[t].state = "live"
             THEN [token[t] EXCEPT !.state = "revoked"] ELSE token[t]]

TokensOf(g) == {t \in Token : token[t].grant = g}
FamilyTokens(f, kinds) == {t \in Token : token[t].family = f /\ token[t].kind \in kinds}

-----------------------------------------------------------------------------
(* The consent decision: the grant is upserted, its tokens are revoked, a  *)
(* code is created.                                                        *)

Approve(q, g, offline) ==
  /\ auth[q].at = "idle"
  /\ grant' = [grant EXCEPT ![g] = "live"]
  /\ GoTo(q, [Idle EXCEPT !.at = "replacing", !.grant = g, !.offline = offline])
  /\ UNCHANGED <<code, token, started>>

Replace(q) ==
  /\ auth[q].at = "replacing"
  /\ RevokeTokens(TokensOf(auth[q].grant))
  /\ GoTo(q, [auth[q] EXCEPT !.at = "coding"])
  /\ UNCHANGED <<grant, code, started>>

CreateCode(q) ==
  /\ auth[q].at = "coding"
  /\ \E c \in Code :
        /\ code[c].state = "absent"
        /\ \A d \in Code : d < c => code[d].state # "absent"
        /\ code' = [code EXCEPT ![c] = [state |-> "unused", grant |-> auth[q].grant,
                                        offline |-> auth[q].offline]]
  /\ GoTo(q, Idle)
  /\ UNCHANGED <<grant, token, started>>

-----------------------------------------------------------------------------
(* The token endpoint.                                                     *)

\* grant_type=authorization_code: the code is found unused, its grant live.
FindCode(q, c) ==
  /\ auth[q].at = "idle"
  /\ code[c].state = "unused" /\ grant[code[c].grant] = "live"
  /\ GoTo(q, [Idle EXCEPT !.at = "claiming", !.code = c])
  /\ UNCHANGED <<grant, code, token, started>>

\* Mutant of ClaimCode: the update does not repeat the condition of the find.
ClaimCodeFound(q) ==
  /\ auth[q].at = "claiming"
  /\ LET c == auth[q].code
     IN \E f \in Family :
          /\ started[f] = None
          /\ code' = [code EXCEPT ![c].state = "used"]
          /\ started' = [started EXCEPT ![f] = c]
          /\ GoTo(q, [Idle EXCEPT !.at = "issuing", !.grant = code[c].grant,
                                  !.family = f, !.offline = code[c].offline])
  /\ UNCHANGED <<grant, token>>

\* Compare-and-set of usedAt; who wins draws the family of the new tokens.
ClaimCode(q) ==
  /\ auth[q].at = "claiming"
  /\ LET c == auth[q].code
     IN \/ /\ code[c].state = "unused"
           /\ code' = [code EXCEPT ![c].state = "used"]
           /\ \E f \in Family :
                 /\ started[f] = None
                 /\ started' = [started EXCEPT ![f] = c]
                 /\ GoTo(q, [Idle EXCEPT !.at = "issuing", !.grant = code[c].grant,
                                         !.family = f, !.offline = code[c].offline])
        \/ /\ code[c].state # "unused"
           /\ GoTo(q, Idle)
           /\ UNCHANGED <<code, started>>
  /\ UNCHANGED <<grant, token>>

\* grant_type=refresh_token: the token is found unrevoked, its grant live.
FindRefresh(q, t) ==
  /\ auth[q].at = "idle"
  /\ token[t].state = "live" /\ token[t].kind = "refresh"
  /\ grant[token[t].grant] = "live"
  /\ GoTo(q, [Idle EXCEPT !.at = "rotating", !.token = t])
  /\ UNCHANGED <<grant, code, token, started>>

\* Compare-and-set of revokedAt.  The scope of a refresh token has
\* offline_access, or it would not exist.
Rotate(q) ==
  /\ auth[q].at = "rotating"
  /\ LET t == auth[q].token
     IN /\ RevokeTokens({t})
        /\ GoTo(q, IF token[t].state = "live"
                   THEN [Idle EXCEPT !.at = "sweeping", !.grant = token[t].grant,
                                     !.family = token[t].family, !.offline = TRUE]
                   ELSE Idle)
  /\ UNCHANGED <<grant, code, started>>

\* Mutant of Sweep: the access token of the last generation is left alone.
SweepNothing(q) ==
  /\ auth[q].at = "sweeping"
  /\ GoTo(q, [auth[q] EXCEPT !.at = "issuing"])
  /\ UNCHANGED <<grant, code, token, started>>

Sweep(q) ==
  /\ auth[q].at = "sweeping"
  /\ RevokeTokens(FamilyTokens(auth[q].family, {"access"}))
  /\ GoTo(q, [auth[q] EXCEPT !.at = "issuing"])
  /\ UNCHANGED <<grant, code, started>>

\* Mutant of NewToken: grant and family change places.
NewTokenSwapped(q, kind) ==
  \E t \in Token :
     /\ token[t].state = "absent"
     /\ \A u \in Token : u < t => token[u].state # "absent"
     /\ token' = [token EXCEPT ![t] =
                   [state |-> "live", kind |-> kind, grant |-> auth[q].family,
                    family |-> auth[q].grant]]

\* The next row, live, in the request's family.
NewToken(q, kind) ==
  \E t \in Token :
     /\ token[t].state = "absent"
     /\ \A u \in Token : u < t => token[u].state # "absent"
     /\ token' = [token EXCEPT ![t] =
                   [state |-> "live", kind |-> kind, grant |-> auth[q].grant,
                    family |-> auth[q].family]]

\* issueTokenPair: the access token, then the refresh token if there is one.
IssueAccess(q) ==
  /\ auth[q].at = "issuing"
  /\ NewToken(q, "access")
  /\ GoTo(q, IF auth[q].offline THEN [auth[q] EXCEPT !.at = "renewing"] ELSE Idle)
  /\ UNCHANGED <<grant, code, started>>

IssueRefresh(q) ==
  /\ auth[q].at = "renewing"
  /\ NewToken(q, "refresh")
  /\ GoTo(q, Idle)
  /\ UNCHANGED <<grant, code, started>>

-----------------------------------------------------------------------------
(* Revocation.                                                             *)

FindRevoked(q, t) ==
  /\ auth[q].at = "idle"
  /\ token[t].state # "absent"
  /\ GoTo(q, [Idle EXCEPT !.at = "revoking", !.token = t])
  /\ UNCHANGED <<grant, code, token, started>>

\* A refresh token takes its family with it, an access token goes alone.
RevokeToken(q) ==
  /\ auth[q].at = "revoking"
  /\ LET t == auth[q].token
     IN RevokeTokens(IF token[t].kind = "refresh"
                     THEN FamilyTokens(token[t].family, {"access", "refresh"})
                     ELSE {t})
  /\ GoTo(q, Idle)
  /\ UNCHANGED <<grant, code, started>>

\* DELETE /api/agents: one transaction.  It may be repeated.
RevokeGrant(g) ==
  /\ grant[g] # "absent"
  /\ grant' = [grant EXCEPT ![g] = "revoked"]
  /\ RevokeTokens(TokensOf(g))
  /\ UNCHANGED <<code, started, auth>>

\* An await throws, or the process dies with the request.
Abort(q) ==
  /\ auth[q].at # "idle"
  /\ GoTo(q, Idle)
  /\ UNCHANGED <<grant, code, token, started>>

-----------------------------------------------------------------------------

RequestStep(q) ==
  \/ \E g \in AgentGrant, offline \in BOOLEAN : Approve(q, g, offline)
  \/ Replace(q)
  \/ CreateCode(q)
  \/ \E c \in Code : FindCode(q, c)
  \/ ClaimCode(q)
  \/ \E t \in Token : FindRefresh(q, t) \/ FindRevoked(q, t)
  \/ Rotate(q)
  \/ Sweep(q)
  \/ IssueAccess(q)
  \/ IssueRefresh(q)
  \/ RevokeToken(q)
  \/ Abort(q)

OAuthNext ==
  \/ \E q \in AuthRequest : RequestStep(q)
  \/ \E g \in AgentGrant : RevokeGrant(g)

OAuthSpec == OAuthInit /\ [][OAuthNext]_oauthVars

-----------------------------------------------------------------------------
(* Properties.                                                             *)

\* At most one access and one refresh token of a family are ever unrevoked,
\* whatever exchanges, rotations, revocations and consents overlap or break
\* off: no rotation leaves the token it replaced usable.
LinearFamily ==
  \A t, u \in Token :
    /\ token[t].state = "live" /\ token[u].state = "live"
    /\ token[t].family = token[u].family /\ token[t].kind = token[u].kind
    => t = u

\* The right to renew a family is a refresh token or a request that consumed
\* one, never both and never two; a code starts one family; a family without
\* it never gets a token again.  Rotation in flight outlives a revocation.
Issuing(f) ==
  \E q \in AuthRequest :
     auth[q].at \in {"sweeping", "issuing", "renewing"} /\ auth[q].family = f
Renewable(f) ==
  \E t \in FamilyTokens(f, {"refresh"}) : token[t].state = "live"
FamilyPhase(f) ==
  CASE started[f] = None -> "unborn"
    [] started[f] # None /\ Issuing(f) -> "issuing"
    [] started[f] # None /\ ~Issuing(f) /\ Renewable(f) -> "renewable"
    [] OTHER -> "ended"

Families == INSTANCE TokenFamilies
  WITH Approval <- Code, Family <- Family, None <- None,
       phase <- [f \in Family |-> FamilyPhase(f)], origin <- started
ImplementsTokenFamilies == Families!FamilySpec

=============================================================================
