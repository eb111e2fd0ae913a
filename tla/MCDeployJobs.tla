---------------------------- MODULE MCDeployJobs ----------------------------
(* A small instance of DeployJobs for TLC. *)
EXTENDS DeployJobs, TLC

CONSTANTS p1, p2, k1, r1

\* Three scenarios.  Nobody follows and nothing fails: two requests overlap, or
\* one at a time meets looks at the Compose log.  Or one request at a time is
\* followed through any failure.  In the last two, deployments grow old between
\* two requests only.
Looked == \E d \in Job : row'[d].due # {} \/ row'[d].overtaken

Scenario ==
  /\ IF reader[r1].job = NoJob THEN failures' = 0 ELSE ~Looked
  /\ Looked \/ reader[r1].job # NoJob =>
       /\ pipe'[p2].at = "idle"
       /\ \A d \in Job : row[d].recent /\ ~row'[d].recent => pipe[p1].at = "idle"

MCJobsInit == JobsInit /\ reader[r1].job # 1
MCJobsSpec == MCJobsInit /\ [][JobsNext /\ Scenario]_jobsVars /\ JobsFairness
=============================================================================
