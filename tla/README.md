# GroundControl: TLA+ models, checks and proofs

GroundControl is a self-hosted deployment control plane: a Next.js application
with a custom Node.js server (`src/server.cjs`), a Prisma database, and one or
more Docker hosts it reaches over SSH or locally. Operators use it from a
browser; coding agents use it through MCP tools under an OAuth grant. This
directory holds formal models of its core logic, the TLC configurations that
check them and the theorems proved about them.

## Inventory

State, operations, interactions and the behaviours that are hard, per part.
Paths are relative to the repository, which is under `src/`.

**Agent operations** (`scripts/agent-operation-worker.cjs`, `src/lib/mcp-agent.ts`,
`src/app/api/agents`). State: `AgentOperation` rows (status, attempts, lease,
input, result), `OAuthGrant` rows, the worker's control state in memory.
Operations: the mutating tools queue a row under a unique (grant, idempotency
key); one worker recovers at start-up, then every two seconds reconciles up to
eight verifying rows, claims the oldest pending one by compare-and-set, reads it
again with its grant, and calls the Compose endpoints over loopback HTTP. An
administrator revokes grants; a consent brings one back. Hard: crashes between
claim, mutation and update; calls that time out while the request goes on;
revocation racing the claim; duplicate requests; updates that fail. Correct
when: at most one mutation per operation, no replay, verdicts that stay, and
"success" only on evidence.

**Compose endpoints and host** (`src/app/api/projects/compose/**`,
`src/lib/compose-redeploy.ts`). State: `/tmp/gc-redeploy-<slug>.log` (shared by
all runs of a slug), `DeploymentLog`/`Deployment` rows, the managed image
override file, the containers, the detached host process. Hard: two runs of one
slug; a log truncated under its writer or lost in a host restart; requests that
die with the process while the host process goes on; builds that borrow the
override file; operators who save an image in it meanwhile; release rows found
by one query and updated by the next. Correct when: a verdict is about a run that
happened, release rows are advanced by evidence, and the override is what was
last asked for as long as its writers follow each other.

**OAuth** (`src/lib/oauth.ts`, `src/app/oauth/**`, `src/app/api/oauth/**`).
State: clients, grants, authorization codes, token families. Operations:
consent decision, code exchange, refresh rotation, revocation of tokens and of
grants. Hard: two exchanges of one code, two rotations of one refresh token,
revocation between the consumption of a token and the issue of the next pair,
re-consent after revocation. Correct when: a code starts one family, a family
has one holder of the right to renew it, and no rotation leaves the token it
replaced usable.

**Loop engine** (`src/lib/intelligence/**`, `src/app/api/loop`). State: one
engine in memory with a run per incident, change sets, approvals; saved
snapshots. Hard: concurrent approvals, saves of stale snapshots, policy modes.
Correct when: a change is applied at most once and only as the policy allows.

**Terminal sessions** (`server.cjs`). State: sessions per socket and in total.
Hard: disconnect while a session is being opened; a close that fails. Correct
when: the counts equal the sessions and a shell outlives its socket only when
ending it failed.

**Jobs and deploy pipeline** (`src/lib/jobs`, `src/lib/deploy/pipeline.ts`,
`src/app/api/jobs`). State: `Job` and `Deployment` rows (the latter also
written by whoever looks at the Compose log), the chain of log writes of each
running job, preview tunnels on the host, the cursor of each event
stream. Hard: log writes nobody awaits, failure at any await, look-then-create,
streams that break and resume. Correct when: a success has stored all that was
logged and is a success of its deployment, a follower sees each chunk once, and
deploys that follow each other leave neither a duplicate nor a second tunnel.

**Installation and users** (`src/lib/install-claim.ts`, `src/app/api/auth/**`).
Hard: two claims of one installation. Correct when: exactly one administrator
results.

**GitHub webhooks** (`src/app/api/github/webhooks`, `src/lib/github-auto-deploy.ts`).
State: `GithubWebhookDelivery` rows, and the operations a push queues. Hard:
repeated and overlapping deliveries, a delivery half queued, grants and policies
that change meanwhile. Correct when: a processed push has queued every
deployment on autopilot, once.

**Managed environments** (`src/lib/managed-environment-redeploy.ts`,
`src/lib/env-management.ts`). State: versioned values in the database; `.env`,
component files, manifest and Compose override on the host. Hard: writers of one
key that overlap, a script that fails at any line, values that change between
inspection, resolution and `up`. Correct when: the newest value is in force,
Compose never sees half a bundle, and containers get what was resolved.

**Health checks and alerts** (`src/lib/health-checks.ts`, `alerts.ts`,
`alert-rules.ts`). Thresholds, transitions and de-duplication.

**Not candidates**: host access, discovery and topology, cloud adapters,
template text, the assistant, the user interface and the build tooling: input
and output, presentation, or wording. `PROJECT.json` lists each with its reason
and, under `hazards`, what is hard to test, at its line.

## Plan

1. `ComposeRuns`, `AgentOperations` refining `OperationLifecycle`, with proofs. *Done.*
2. `TerminalSessions`: counts, overlapping handlers and disconnects, with proofs. *Done.*
3. `LoopEngine`: runs, approvals, recovery, policy, with proofs. *Done.*
4. `OAuthGrants` refining `TokenFamilies`, with proofs. *Done.*
5. `DeployJobs`: pipeline, job, log, stream, tunnel, with proofs. *Done.*
6. `ManagedEnvironment` and `GithubDeliveries`, with proofs. *Done.*
7. Installation claim; pure decisions (alert rules, health transitions) against
   reference definitions. *Open.*

## The modules

| module | models | state |
| --- | --- | --- |
| `ComposeRuns` | the Compose endpoints and the host | `run`, `log`, `rows`, `reader`, `override`, `serving`; counters `faults`, `crashes`; history `intended` |
| `AgentOperations` | tools, worker, administration; EXTENDS `ComposeRuns` | `status`, `attempts`, `lease`, `input`, `result`, `revoked`, `resources`, `client`, `worker`; history `launches`, `mutation` |
| `OperationLifecycle` | the promise to an agent, abstractly; refined by `AgentOperations` | `status`, `launches` |
| `TerminalSessions` | terminal sockets, their handlers and the table of sessions | `connected`, `backend`, `counted`, `targeted`, `idle`, `access`, `start`, `starts`, `closer`, `count`, `live`, `abandoned` |
| `LoopEngine` | the Loop engine, its requests and the proxy they repair | `engine`, `pc`, `about`, `mode`, `held`, `seen`, `proxy` (three parts), `edits`; history `mutated`, `drift` |
| `OAuthGrants` | consent, token and revocation endpoints | `grant`, `code`, `token`, `auth`; history `started` |
| `TokenFamilies` | the promise about families of tokens, abstractly; refined by `OAuthGrants` | `phase`, `origin` |
| `DeployJobs` | deploy, build and rollback in a job, its log and event stream | `job`, `chain`, `pipe`, `row`, `tunnel`, `reader`, `failures`; history `orderly` |
| `ManagedEnvironment` | the vault of values, the artifacts on the host, the requests that materialise and redeploy | `row`, `history`, `writer`, `dotenv`, `file`, `manifest`, `override`, `lost`, `task`; history `running` |
| `GithubDeliveries` | push webhooks and the operations they queue | `delivery`, `policy`, `updated`, `may`, `operation`, `hook`, `consents`; history `regranted`, `altered` |
| `MC*` | constants and symmetries of the TLC instances | |
| `*Proofs` | theorems about the module they are named after | |

An action is the code between two awaits; awaits no other actor can tell apart
are one action. A definition named in a comment "Mutant of X" is X with a
plausible mistake; no specification uses it, and it shows which property
notices the mistake.

**Agent operations and Compose endpoints.** A request of the Compose endpoints
is a record of `run`: its `stage` is how far the handler is, `process` what the
host process it started is doing, `verdict` how that ended, `answer` what the
caller saw. The tail of the log is abstracted to its last control marker,
whether it exists, and whether it is stale; that a marker stays within the 200
lines the reader looks at is assumed. Images are an opaque value per project
(one per build), since every step treats the services of a project alike.
`log` requests are `reader`s: they read the log (`LogRead`; its tail and its age
are read by two commands at once and are one step here), look up the newest row
in flight (`RowFound`) and update that row by its identity (`RowSettled`). The
two tables of release rows are advanced one after the other in the same way, so
one sequence `rows` stands for both. The worker asks with the reader `Own`; its
update of the operation is a step of its own (`Reconcile`).
The override has three kinds of writers, and no lock. A build and an operator's
image edit read the file (`OverrideRead`; a failed `cat ... || true` reads as an
empty file), replace it (`OverrideWritten`) and put back what they read
(`BuildEnds` always, `EditEnds` when Compose rejects the image); a release only
writes (`Pin`). `intended` is what was last asked for. It becomes "unclear" when
two writers overlap, or a read, a write, a restoration or the process breaks off
in between, and the property says nothing of the file from then on; so the
comment at `build-publish/route.ts:348`, that a build never leaves the running
configuration changed, holds outside of those cases only.
Worker control points: `recovering` (recoverInterrupted), `polling` (between
ticks), `reconciling` (loop over verifying rows), `claiming` (candidate found),
`claimed` (row is running), `authorized` (grant and resources checked),
`pinning` (release endpoint called), `calling` (mutation sent), `observing`
(waiting for the log endpoint). A release may name the revision it expects to
replace (`expected`); nothing reads that field. The
administrator role and the password flag are checked by the code at the same
place as the grant; no operation of the program takes the role away, so they
are left out.

**Terminal sessions.** The variables of one socket's closure are functions of
the socket (`backend`, `counted` for `sessionCounted`, `targeted` for
`socket.data.vpsId`), `count` is `activeSessionsByUser`, `live` the shells that
run on a host. `start` and `closer` are the control points of the
"terminal:start" handler and of `closeSession`, which overlap at their awaits;
`BeginClose` is the synchronous part of `closeSession`, inlined in every event
that calls it. Output, resizes and socket authentication keep no state. A
client is *patient* if it sends no new start while a close of its session is
running; the terminal page is (one start per connection). For others the table
can be counted wrongly, since `closeSession` returns at once while another call
waits; the theorems assume `Patient` and the runs set it. Ending a shell may
fail: `docker rm -f` has five seconds, and both the local close and
`closeSession` swallow the error when the socket has already dropped its backend.
Such a shell goes on (`live`) and is in `abandoned`: nobody tries to end it
again, though it may exit by itself.

**Loop engine.** `engine` is the immutable value of the process (`runs` with
their state, side effects and plan; `mirror`, what the engine believes the
proxy to be; `revisions`, the proxy saved before each mutation; `events`).
`held[q]` is the copy a request works on, `pc[q]` the await it is at; `Save` is
`setLoopEngine`. `Transitions` is the table of `state-machine.ts`, and `Legal`
its check along the moves a handler makes between two awaits. Journeys, graph
and investigation are abstracted to their outcomes: healthy, guided, or a plan.
Two kinds of plan change the host through this path: restarting a container,
and restoring a proxy revision. The autonomy mode of an approval matters for
autopilot only, as in `canAutopilotApply`. Requests are numbered in the order
they arrive.
The proxy has three parts: the Caddyfile (`main`), the files of Caddy's sites
directory (`sites`) and those of nginx (`nginx`). A content is a sequence of
blocks; trimming and blank lines are abstracted. An observation sees the
Caddyfile and the sites files as one content, or nginx's if Caddy has none
(`Observed`), and the engine's `mirror` and the revision saved for a rollback are
that content. Applying any revision writes all of it into the Caddyfile
(`Installed`, also one that came from nginx) and leaves the other files, with
`config.caddyFile` at its default, the file that is written. The path of a
revision is not checked again, a failed reload is answered as success
(`reload_soft`), and so whether Caddy serves what the file says is not modelled.
A content the adapter's heuristic refuses is `ApplyFails`.

**OAuth.** `auth[q]` is what an open request has read and the await it is at:
`Approve`, `Replace`, `CreateCode` are the consent decision, `FindCode`,
`ClaimCode`, `FindRefresh`, `Rotate`, `Sweep`, `IssueAccess`, `IssueRefresh` the
token endpoint, `FindRevoked`, `RevokeToken` the revocation endpoint. An update
with a condition (`updateMany`) is one step. Expiry has no state: an expired row
differs from a fresh one only in being refused, and a refused request changes
nothing. PKCE, redirect and scope checks are refusals of the same kind.

**Jobs.** `pipe[p]` is an open request, `chain[j]` the closure of `runJob` (the
chain of writes, and whether one failed), `row` the `Deployment` rows, each
named by the job that created it. A stage is the code between two writes; the
adapters succeed or throw. What is outside of the pipeline's try block (the row's
creation, the choice of the VPS, a Terraform apply) leaves the row as it is when
it throws, as in the code: such a row says "running" and holds its idempotency
key for five minutes. `reader` is a client that may resume with `Last-Event-ID`;
the deployments panel of the application itself gives up at the first error, and
nothing assumes that a client comes back.
The Compose log endpoint looks for the newest deployment of its project that is
"deploying", the status the pipeline gives its row, and settles it by id with
the verdict of the project's last Compose redeploy, which may be an old one
(`LookFinds`, `LookSettles`; `due` holds the updates about to be written). A look
that was overtaken by the pipeline's own update writes over it (`overtaken`): the
row of a deploy whose job succeeded may then say failed. The comment there, that
it "only advances the newest in-flight run" (`log/route.ts:38`), is not true of
that update. Rows of Compose redeploys, which a look may settle instead, are in
`ComposeRuns` and not here.

**Managed environments.** A slot is a key of the deployment or a whole
component, a value the number of its version. `EraseFiles` to `WriteOverride`
are the lines of the materialisation script, `Gate` and `Launch` the shell test
of `buildManagedComposeInvocation` (exit 46), `Up` the moment Compose opens its
files. `want` is what a request means to deliver, `put` what it materialises.
The three queries of a resolution are modelled as one read. A redeploy that
meets a save in progress may end in `ENV_VERIFICATION_FAILED` without touching
containers; and since the inspection asks only for what is wanted, a key (or the
last value of a component) that was removed is no reason to materialise: the
redeploy says "reuse-current" and the old value is delivered again. A deletion
drops rows by key, so it also drops a value saved while it was under way.

**GitHub deliveries.** `delivery` is the row of the delivery, `hook[h]` an open
request with what it has read. Grants are ordered by `updatedAt`, which only a
consent and a revocation touch; a request queues under the newest grant that may
redeploy the workload and fails where there is none.

## The runs

Passing runs, each a question of its own:

* `agent_safety`: two redeploys of one deployment, a browser reading the same
  log, revoke and re-consent, and one crash of GroundControl or of the host or
  one failing call, write or update, all at any step. What recovery must do, the
  worker's stale view of its row, leases, evidence, and the lifecycle promised
  by `OperationLifecycle`.
* `agent_release`: two racing clients, a build, a release of it, an operator who
  redeploys or saves another image, on a remote server, and one crash or failure
  anywhere. One operation per idempotency key, what may be released, and that
  the override is what was last asked for.
* `agent_liveness`: under `FairSpec`, every queued operation is decided.
* `terminal_sessions`: two sockets of one user at a limit of one session, with
  restarts, closes that may fail, disconnects and timers in any overlap. The table
  is exact, only a failed close loses a shell, and the shell of a client that is
  gone ends or its ending was tried.
* `loop_serial`: six requests one after the other, two runs, a Caddyfile with a
  sites file or nginx alone, one edit by somebody else. One mutation per run, runs
  that move forward only, rollbacks that write what the engine could know of the
  proxy (all its files in one, or what was last restored into the Caddyfile),
  recoveries whose revision is in the Caddyfile, and every action decided.
* `loop_overlap`: two requests at a time, host calls that throw. The saved runs
  stay coherent and the state machine is never asked for a move it lacks.
* `jobs`: two deploys, builds or rollbacks of one project that overlap; or one
  at a time beside looks at the Compose log; or one at a time followed by a
  browser, with one failing write, command or process anywhere. Success means
  complete output and a successful deployment (unless a look overtook its row),
  streams resume exactly, jobs end, and an open stream does not miss the end.
* `services`: three components that share no state, side by side, so their state
  spaces add. *Tokens*: two requests at a time on one grant, two codes, two
  families, four tokens. *Pushes*: two requests for one delivery of two linked
  deployments, two grants, two changes of grants and one of policy.
  *Environments*: two writers of one key up to three versions; and one request
  on the host with a writer, for two components and for a component and a root
  key, with failures at every line and files a host drops.

Expected violations, each a disagreement of the code with its own text:

| run | what it shows |
| --- | --- |
| `agent_shared_log` | a verdict may be another run's: the log is shared per slug |
| `loop_twice` | two overlapping approvals of one run both mutate the host |
| `loop_rollback` | a completed rollback leaves the proxy other than it was: with a sites file, its contents are in the Caddyfile too |
| `env_race` | a materialisation deletes the files under a Compose run that passed its gate |

Other divergences met while modelling, each a reachable state of the models
that no run is spent on: a crash while a build has its own images configured
leaves them there (`build-publish/route.ts:348` says a build never does), and a
build that overlaps an operator's image edit puts the older file back; a release
does not read the `expectedCurrentRevision` it was given
(`mcp-agent.ts:394` calls it a compare-and-set guard); a
terminal session closed while its shell opens is given back, and the shell then
runs uncounted (`server.cjs:314`); an approval sent in locked mode still
mutates (`docs/LOOP.md:295`), since only autopilot asks the policy; a push that
failed for want of a grant and is redelivered after another consent queues its
first deployment a second time under the newer grant, since the key of an
operation names its grant (`docs/GITHUB-APP.md:40`); and deploys of one project
that overlap may both run and leave a tunnel behind, since the look for a recent
deployment and its creation are two steps.

What overlap costs the Loop engine beyond `loop_twice`: events a webhook
records while a scan is in progress are dropped when the scan saves its copy,
and a run saved meanwhile is overwritten. That is why `MutatedOnce` and
`RunsMoveForward` are stated for requests that come one at a time to a host
whose calls do not throw (`MaxOpen = 1`, `Throws = FALSE`), and only coherence
is claimed beyond. A rollback restores the engine's mirror, so an edit of the
proxy that no scan saw is lost in it, and the sites files are written into the
Caddyfile; `RollbackWritesTheKnown` says exactly that, through `drift` and
`Known`.

**Bounds.** Agent: two operations are enough for one to overtake, cancel or
follow the other, and a release needs exactly a build and itself; two clients
for the race on a key (one where keys are not in question); one fault or one
crash anywhere (`OneFailure`), since the code has no counter that a second one
would meet; two readers of the log, the worker's and one other; worker and operator runs as many as the
operations can request. Terminal: two sockets of one user compete for a limit
of one, and a second start of a socket is the one that restarts a session.
Loop: six requests let a run be recorded, advanced and approved while a second
run restores what the first one saved; two at a time is the least overlap, and
five such requests still reach an approval overlapped by another or by a scan;
one edit suffices, as only "edited and not looked at since" is told apart.
Jobs: two jobs are the least for a duplicate, a second tunnel or a rollback of
a deployment; one failure anywhere, since each path after a failure ends the
request. Overlap, looks at the Compose log and failure are separate scenarios of
the run (`Scenario`). Tokens: two requests are the least that race, four
tokens a generation and its successor. Pushes: two requests for one delivery
are the least that overlap; the second comes when grants and policy stand,
since the first one already meets their changes. Environments: two components
are the least bundle of which half can be missing; the theorems cover the rest.
Where the instance can use up its operations, starts or requests the run does
not check deadlock: the program then waits for more than the instance has.

**Fairness.** Weak fairness of the worker as a whole (its timer is re-armed in
a `finally`, so it always ticks again) and of the host as a whole (requests,
processes and the clock go on). Terminal handlers run on, since every await is
bounded, and an idle timer nobody restarts fires. Probes and host commands of
the Loop engine have timeouts, so a handler that has begun goes on. Open
deploy requests and their log writes go on (weak fairness of each), and so does
the server's loop of an open stream (weak); nobody has to connect or to connect
again, and any connection may break. No fairness of clients, administrators, operators,
crashes, faults or edits. The log a host restart clears is the one reason an
agent operation may stay undecided, and the property names it.

## The proofs

Every theorem holds for every value of the constants that satisfies the
assumptions of its modules. None of the properties is inductive alone; each
module of proofs has one inductive invariant, a lemma per action that keeps it,
and the theorems as its consequences.

The theorems about liveness take fairness as a hypothesis, `Scheduling` of their
module (`JobsScheduling` of `DeployJobsProofs`): the provers do not reason about
`ENABLED`, so each fairness condition is written with the guard of its action in
its place ("always, either the guard fails or the step happens"), and that the
guards imply `ENABLED` on the reachable states was confirmed with TLC on the
instances of the runs. The longer of these proofs have a stronger invariant,
which names whoever must move next, and a rank that falls with every such step;
the rank is bounded by a number, not by a parameter, so a chain of lemmas that
double the steps replaces an induction.

* `ComposeRunsProofs`: every step of the endpoints and the host keeps the types
  of their state, and no request that has begun changes its nature or takes back
  a verdict or an answer (`RunsAdvance`). `AgentOperationsProofs` uses both for
  the steps it shares.
* `AgentOperationsProofs`: `TypeCorrect`, `IdempotencyKeys`, `WorkerOwnsItsRow`,
  `NothingLeftRunning`, `LeasesFollowStatus`, `ReleasesAreBuilds`,
  `LifecycleImplemented`. The invariant adds to the types `RowsConsistent` (what
  status, lease, launches and input of a row say about each other) and
  `WorkerConsistent` (what the worker's control point says about the row in its
  hand): that a claim is followed by one mutation needs `launches = 0` for
  pending rows, that a revocation does not touch the row in hand needs that row
  to be running. The refinement maps each action to the step of
  `OperationLifecycle` it is, or to a stutter.
  `EInv` rests on it and gives `SuccessIsEvidence`, `SuccessOfItsOwn` and
  `OverrideFollowsWrites`. A row repeats what a marker or an answer said, so it
  adds that markers, release rows and what log readers hold between their awaits
  are true (`MarkersAreTrue`, `ReleaseRowsAreTrue`, `ReadersAreTrue`), that an
  answer "ok" of a redeploy was verified (`RunsInShape`), that an operation names
  the run it launched (`OpEvidence`, `CallIsMutation`) and that the worker's
  request is about the operation in its hand (`WorkerObserves`). For the override
  it adds `OverridesInOrder`: while what is intended is clear, at most one writer
  is between its read and its last write, it saved what is intended, and the file
  is that until it writes. Nothing is assumed of failures or crashes; those that
  break a writer off make `intended` unclear.
  `OperationsAdvance` says what no step of anybody does to a row: a settled one
  is frozen with its launches, attempts, input, result and mutation, the call is
  never rewritten, nothing goes back to the queue, a claim takes pending rows
  only and a mutation is sent once, while running. It is read off the refinement
  (`LifecycleStep`) and the other columns (`OtherColumns`).
  `ClaimedGetDecided` is liveness: unless something fails or crashes, or the
  bounded request identities run out, a claimed operation does not stay
  "running", whatever else happens meanwhile. It needs the worker and the request
  the worker waits for to go on, and nobody else. `LiveInv` adds to `EInv` that
  one operation runs at most and that the request in hand will answer;
  `WorkerLeft` counts the steps of both, at most ten.
* `TerminalSessionsProofs`: `TypeCorrect`; `CountExact` and
  `OnlyFailedClosesLose`, assuming `Patient`. `HandlersAgree` says what overlapping handlers of one
  socket may rely on: a start holds no shell before it has opened its own and is
  not counted before it is admitted. The exact count follows by cardinalities of
  the counted sockets before and after each step. `ShellsClosed`, also for patient
  clients: a shell whose client is gone ends or is abandoned by a failed close,
  since somebody holds it until then, its idle timer is armed once the handlers
  are done, and what `closeSession` has taken it tries to end.
* `LoopEngineProofs`: `TypeCorrect`, `SavedRunsCoherent`, `TransitionsValid`,
  whatever overlaps and throws. The invariant says of each copy what the
  handler holding it may rely on (`Fits`): the run it works on is in the state
  of its stage with the side effects of that stage, the others are as saved.
  Since it is about each copy alone, saving one over another keeps it.
  `MutatesOnce` and `RunsGoForward` assume `Serial`; their invariant adds that
  a copy differs from the engine in its own run only (`Follows`) and that a
  request that mutated the host is about to mark its run or has (`Marked`).
  `RollbackWritesKnown` and `RepairInstalled` add, for as long as nobody edited
  the proxy unseen, what the request in progress knows of it at each stage
  (`KnowsProxy`): its mirror is fair, that is, empty, all the files in one, or
  what was last written into the Caddyfile (`Fair`); so is the revision it saved
  of the proxy its action found; and a run that is not approved yet has no
  revision of its own (`NoRevisionYet`). `ActionsGetDecided`, for `Serial`: a request that changed
  the host, if handlers go on, verifies and if need be rolls back, and its run
  ends remembered or with guidance.
* `OAuthGrantsProofs`: `OAuthTypeCorrect`, `LinearFamilyHolds`,
  `TokenFamiliesImplemented`. Its invariant says who holds the right to renew a
  family: at most one request is past the claim of a code or the rotation of a
  token of it, and then no refresh token of it is live; and what a request at
  each await may still find live (after `Sweep`, no access token).
  `EndedForGood`: a family without refresh token and without a renewal in
  progress stays so, no token of it is issued or becomes usable again, and
  a revoked token stays revoked; `WhoIssues` names the only steps that issue.
* `GithubDeliveriesProofs`: `DeliveriesTypeCorrect`, `ProcessedIsQueuedHolds`,
  `OneOperationHolds`. The invariant: what a request has taken off its list is
  queued, policies it read differ from the current ones in `altered` only, and
  while no grant changed every operation is under the one grant a request that
  queues would choose.
* `ManagedEnvironmentProofs`: `EnvTypeCorrect`; `RowIsNewestActiveHolds`, which
  is inductive as it stands; and, for `OneTask` (one request uses the host at a
  time), `OverrideIsWholeHolds` and `DeliveredValuesHolds`. Their invariant says
  for each line of the script which artifacts are there, and from the gate on
  that the host holds what the request wants.

* `DeployJobsProofs`: `JobsTypesHold`, `SuccessIsCompleteHolds`,
  `StreamIsExactHolds`, `JobSuccessIsDeployedHolds`. The invariant says of a job
  a request works on that what is stored and what waits are together what was
  logged, unless a chunk was lost (`Chunks`), that no two requests share a job,
  which deployment row fits the request's stage (`HasRow`), and of a stream that
  it has the prefix up to its cursor (`Follows`). A step inside a job touches
  the request's own job and row only, but for a rollback, which may touch the
  row of any job that is not pending: `LocalStep` is that argument, once for all
  stages. A look at the Compose log touches a deploying row, or one it marks as
  overtaken, which the property leaves out (`TouchKeeps`). `OrderlyDeploysHold` needs more of the deploys that come one at a time
  (`OrderPart`): rows rank in the order of their creation, a tunnel that is up is
  about to be recorded or is the newest recorded one of a deployment that has not
  failed or whose request is about to say success over a look's failure
  (`Found`), which is where `destroyPreviousQuickTunnel` looks for it; a deploying
  row has a request that will write it once more (`DeployingIsOpen`); and a deploy
  finds no other recent and good row of its key.
  `JobsAdvance`: the status of a job only goes forward, its output is only
  appended to and only while it runs, and an ended job is never touched.
  `JobsDoEnd` and `FollowersHear` are liveness: a job that nothing failed around
  ends, since its request (`PendingIsHeld`, `JobsLiveInv`) has stages left or its
  chain of writes has entries to flush, at most 28 steps together; and an open
  stream of a job that ended says so with its next turn, unless it breaks first.

Model-checked only: the liveness property `OperationsSettle`. From the queue to
the claim an operation waits for any number of older ones, each with its request
and its log, which takes an induction over data; `ClaimedGetDecided` proves the
rest of the way to the worker's answer.

## Not modelled

Deletion of users and enrolled deployments (which cascades to operation rows);
the environment profile written beside the override; what a materialisation
script does after its SSH call timed out, when the next request's may run beside
it; whether Caddy loads what was written into its file; several services of one
project with different images; restarts of the process while the Loop engine
works (it lives in memory only, and its documentation says so), the registration of journeys and Daytona
repairs; the registration of OAuth clients; Infisical as a source of values and
environments other than the default one; custom domains of a deploy; webhook
events other than pushes; the installation claim, health checks and alert rules,
which the plan still has; and the parts listed as no candidates, most of the
repository by lines: pages and components, adapters, parsing and text.
