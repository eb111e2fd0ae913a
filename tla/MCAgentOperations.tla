------------------------- MODULE MCAgentOperations -------------------------
(* Small instances of AgentOperations for TLC. *)
EXTENDS AgentOperations, TLC

CONSTANTS g1, d1, d2, s1, s2, k1, k2, v1, v2

\* One thing goes wrong, whatever it is.
OneFailure == faults + crashes <= 1

\* The MCP requests are interchangeable.
Clients == Permutations(Client)

\* Both deployments in one project, or each in its own.
OneSlug == (d1 :> s1)
TwoSlugs == (d1 :> s1) @@ (d2 :> s2)
SharedSlug == (d1 :> s1) @@ (d2 :> s1)

Redeploy(k, d) == [grant |-> g1, key |-> k, dep |-> d, kind |-> "redeploy",
                   image |-> None, build |-> None, expected |-> None]
Build(k, d, v) == [Redeploy(k, d) EXCEPT !.kind = "build", !.image = v]
Release(k, d, b) == [Redeploy(k, d) EXCEPT !.kind = "release", !.build = b]

\* Two redeploys of one deployment, and one client retrying the first.
RedeployCalls == {Redeploy(k1, d1), Redeploy(k2, d1)}
\* A build and a release of what operation 1 built.
ReleaseCalls == {Build(k1, d1, v1), Release(k2, d1, 1)}
\* Redeploys of deployments with logs of their own.
SeparateCalls == {Redeploy(k1, d1), Redeploy(k2, d2)}
=============================================================================
