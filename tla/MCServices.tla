----------------------------- MODULE MCServices -----------------------------
(* Small instances of OAuthGrants, GithubDeliveries and ManagedEnvironment    *)
(* for TLC.  They share no state: a behaviour belongs to one of them, and the *)
(* state spaces add.                                                          *)
EXTENDS OAuthGrants, GithubDeliveries, ManagedEnvironment, TLC

CONSTANTS g1, q1, q2, x1, x2, e1, h1, h2, k, a, b, w1, w2, t1

VARIABLE scenario

scenarioVars == <<oauthVars, hookVars, envVars, scenario>>

Scenarios == {"tokens", "pushes", "vault", "components", "keys"}

Uses(slots, writers) ==
  \A w \in Writer : writer'[w].at # "idle" => w \in writers /\ writer'[w].slot \in slots
TwoVersions == \A w \in Writer : writer'[w].version <= 2

\* "vault": two writers of one key.  "components": two components and a writer,
\* "keys": a component, a root key and a writer, while one request at a time
\* uses the host.
Confined ==
  CASE scenario = "vault" -> Uses({k}, Writer) /\ \A t \in Task : task'[t].at = "idle"
    [] scenario = "components" -> Uses({a, b}, {w1}) /\ TwoVersions
    [] scenario = "keys" -> Uses({a, k}, {w1}) /\ TwoVersions

\* Of two webhooks, the second comes when policies and grants stand.
Ordered ==
  /\ consents' # consents \/ altered' # altered => hook[h2].at = "idle"
  /\ altered' \subseteq {1}

ServicesInit ==
  /\ OAuthInit /\ DeliveriesInit /\ EnvInit /\ scenario \in Scenarios
  /\ scenario # "pushes" => policy = {}

ServicesNext ==
  \/ /\ scenario = "tokens" /\ OAuthNext
     /\ UNCHANGED <<hookVars, envVars, scenario>>
  \/ /\ scenario = "pushes" /\ DeliveriesNext /\ Ordered
     /\ UNCHANGED <<oauthVars, envVars, scenario>>
  \/ /\ scenario \in {"vault", "components", "keys"} /\ EnvNext /\ Confined
     /\ UNCHANGED <<oauthVars, hookVars, scenario>>

ServicesSpec == ServicesInit /\ [][ServicesNext]_scenarioVars
=============================================================================
