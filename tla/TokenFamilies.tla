--------------------------- MODULE TokenFamilies ---------------------------
(***************************************************************************)
(* What an agent's authorization promises of its tokens: one approval      *)
(* starts at most one family of tokens; a family has one holder of the     *)
(* right to renew it, either a refresh token or a renewal in progress; and *)
(* a family that has lost it never gets another token.  OAuthGrants        *)
(* implements this.                                                        *)
(***************************************************************************)
CONSTANTS Approval, Family, None

VARIABLES
  phase,         (* per family: unborn, issuing, renewable, ended           *)
  origin         (* the approval a family started from                      *)

familyVars == <<phase, origin>>

FamilyInit ==
  /\ phase = [f \in Family |-> "unborn"]
  /\ origin = [f \in Family |-> None]

Start(a, f) ==
  /\ phase[f] = "unborn"
  /\ \A g \in Family : origin[g] # a
  /\ phase' = [phase EXCEPT ![f] = "issuing"]
  /\ origin' = [origin EXCEPT ![f] = a]

\* The refresh token is consumed by the one renewal it allows.
Renew(f) ==
  /\ phase[f] = "renewable"
  /\ phase' = [phase EXCEPT ![f] = "issuing"]
  /\ UNCHANGED origin

Issued(f) ==
  /\ phase[f] = "issuing"
  /\ phase' = [phase EXCEPT ![f] = "renewable"]
  /\ UNCHANGED origin

\* A revocation takes what refresh tokens there are; a renewal that fails, or
\* that has no refresh token to issue, ends its family.
End(S) ==
  /\ \A f \in S : phase[f] \in {"renewable", "issuing"}
  /\ phase' = [f \in Family |-> IF f \in S THEN "ended" ELSE phase[f]]
  /\ UNCHANGED origin

FamilyNext ==
  \/ \E f \in Family :
        \/ Renew(f)
        \/ Issued(f)
        \/ \E a \in Approval : Start(a, f)
  \/ \E S \in SUBSET Family : End(S)

FamilySpec == FamilyInit /\ [][FamilyNext]_familyVars

=============================================================================
