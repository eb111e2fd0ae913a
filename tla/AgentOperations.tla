-------------------------- MODULE AgentOperations --------------------------
(***************************************************************************)
(* Durable agent operations: MCP clients queue them under an OAuth grant,  *)
(* one worker inside the GroundControl process claims them oldest first,   *)
(* dispatches each to the Compose endpoints (ComposeRuns) and reconciles   *)
(* the detached ones from the log of their project slug.                   *)
(*                                                                         *)
(* An action is the code between two awaits, and awaits that no other actor *)
(* can tell apart are one action.  The worker, the MCP and administration  *)
(* requests and the Compose requests live in one process and share its     *)
(* crashes; the database and the host processes survive it.                *)
(***************************************************************************)
EXTENDS ComposeRuns

CONSTANTS
  Op,           (* identities of the operation rows, in creation order     *)
  Grant,        (* OAuth grants approved by administrators                 *)
  Deployment,   (* enrolled deployments                                    *)
  SlugOf,       (* the project slug the worker uses for a deployment       *)
  Key,          (* idempotency keys                                        *)
  Client,       (* concurrent MCP requests                                 *)
  Call,         (* the mutating tool calls the clients may make            *)
  Batch         (* verifying operations one tick reconciles (8 in the code)*)

AgentCall ==
  [grant : Grant, key : Key, dep : Deployment,
   kind : {"redeploy", "build", "release"},
   image : Revision \cup {None},        \* the commit a build asks for
   build : Op \cup {None},              \* the build a release names
   expected : Revision \cup {None}]     \* expectedCurrentRevision: stored, read nowhere

ASSUME OperationAssumption ==
  /\ Op \subseteq Nat
  /\ SlugOf \in [Deployment -> Slug]
  /\ Call \subseteq AgentCall
  /\ \A call \in Call : call.kind = "build" => call.image # None
  /\ None \notin Op \cup AgentCall
  /\ Batch \in Nat \ {0}

VARIABLES
  status, launches,  (* the status column; history: mutations sent          *)
  attempts,          (* the attempts column                                 *)
  lease,             (* the leaseUntil column                               *)
  input,             (* grant, key, deployment, type and input of the row   *)
  result,            (* of a build: the image it produced and its tests     *)
  mutation,          (* history: the run the operation's mutation is        *)
  revoked,           (* OAuthGrant.revokedAt is set                         *)
  resources,         (* the deployments of the grant                        *)
  client,            (* the call a client has found to be new               *)
  worker             (* the worker's control state                          *)

opVars == <<status, launches, attempts, lease, input, result, mutation>>
grantVars == <<revoked, resources>>
vars == <<opVars, grantVars, client, worker, composeVars>>

Settled == {"success", "failed", "cancelled", "uncertain"}
Status == {"absent", "pending", "running", "verifying"} \cup Settled

BuildResult == [image : Image, tests : {"none", "passed", "failed", "skipped"}]

\* Where the worker has an operation in hand.
Executing == {"claimed", "authorized", "pinning", "calling"}

WorkerRecord ==
  [pc : {"down", "recovering", "polling", "reconciling", "observing", "claiming"}
        \cup Executing,
   op : Op \cup {None}, run : Run \cup {None}, queue : SUBSET Op]

TypeOK ==
  /\ ComposeTypeOK
  /\ status \in [Op -> Status]
  /\ launches \in [Op -> Nat]
  /\ attempts \in [Op -> Nat]
  /\ lease \in [Op -> {"none", "live", "expired"}]
  /\ input \in [Op -> AgentCall \cup {None}]
  /\ result \in [Op -> BuildResult]
  /\ mutation \in [Op -> Run \cup {None}]
  /\ revoked \in [Grant -> BOOLEAN]
  /\ resources \in [Grant -> SUBSET Deployment]
  /\ client \in [Client -> AgentCall \cup {None}]
  /\ worker \in WorkerRecord

At(pc) == [pc |-> pc, op |-> None, run |-> None, queue |-> {}]

Init ==
  /\ ComposeInit
  /\ status = [o \in Op |-> "absent"]
  /\ launches = [o \in Op |-> 0]
  /\ attempts = [o \in Op |-> 0]
  /\ lease = [o \in Op |-> "none"]
  /\ input = [o \in Op |-> None]
  /\ result = [o \in Op |-> [image |-> None, tests |-> "none"]]
  /\ mutation = [o \in Op |-> None]
  /\ revoked = [g \in Grant |-> FALSE]
  /\ resources = [g \in Grant |-> Deployment]
  /\ client = [c \in Client |-> None]
  /\ worker = At("recovering")

Up == worker.pc # "down"

-----------------------------------------------------------------------------
(* MCP requests: executeAgentTool for the four mutating tools.             *)

SameKey(o, call) ==
  /\ status[o] # "absent"
  /\ input[o].grant = call.grant
  /\ input[o].key = call.key

\* The token is authenticated, the deployment is checked against the resources
\* the grant has at that moment, and no operation with the key is found.  When
\* one is found it is returned and nothing changes.
Ask(c, call) ==
  /\ Up /\ client[c] = None
  /\ ~revoked[call.grant]
  /\ call.dep \in resources[call.grant]
  /\ \A o \in Op : ~SameKey(o, call)
  /\ client' = [client EXCEPT ![c] = call]
  /\ UNCHANGED <<opVars, grantVars, worker, composeVars>>

\* Mutant of Create: the table lost its unique index.
CreateUnindexed(c) ==
  /\ Up /\ client[c] # None
  /\ client' = [client EXCEPT ![c] = None]
  /\ \E o \in Op :
        /\ status[o] = "absent"
        /\ \A p \in Op : p < o => status[p] # "absent"
        /\ status' = [status EXCEPT ![o] = "pending"]
        /\ input' = [input EXCEPT ![o] = client[c]]
  /\ UNCHANGED <<launches, attempts, lease, result, mutation, grantVars, worker,
                 composeVars>>

\* The insert, one await later: the unique index refuses a second row for the
\* grant and key, and that request ends in an error.
Create(c) ==
  /\ Up /\ client[c] # None
  /\ client' = [client EXCEPT ![c] = None]
  /\ \E o \in Op :
        /\ status[o] = "absent"
        /\ \A p \in Op : p < o => status[p] # "absent"
        /\ IF \E p \in Op : SameKey(p, client[c])
           THEN UNCHANGED <<status, input>>
           ELSE /\ status' = [status EXCEPT ![o] = "pending"]
                /\ input' = [input EXCEPT ![o] = client[c]]
  /\ UNCHANGED <<launches, attempts, lease, result, mutation, grantVars, worker,
                 composeVars>>

-----------------------------------------------------------------------------
(* Administration.                                                         *)

\* Mutant of Revoke: what is running is cancelled too.
RevokeRunning(g) ==
  /\ Up
  /\ revoked' = [revoked EXCEPT ![g] = TRUE]
  /\ status' = [o \in Op |->
                 IF status[o] \in {"pending", "running"} /\ input[o].grant = g
                 THEN "cancelled" ELSE status[o]]
  /\ UNCHANGED <<launches, attempts, lease, input, result, mutation, resources, client,
                 worker, composeVars>>

\* DELETE /api/agents: one transaction revokes the grant and its tokens and
\* cancels what is still pending.
Revoke(g) ==
  /\ Up
  /\ revoked' = [revoked EXCEPT ![g] = TRUE]
  /\ status' = [o \in Op |->
                 IF status[o] = "pending" /\ input[o].grant = g
                 THEN "cancelled" ELSE status[o]]
  /\ lease' = [o \in Op |->
                 IF status[o] = "pending" /\ input[o].grant = g
                 THEN "none" ELSE lease[o]]
  /\ UNCHANGED <<launches, attempts, input, result, mutation, resources, client,
                 worker, composeVars>>

\* The consent decision upserts the grant of the user and client: it is live
\* again, for the deployments chosen now, at least one.
Consent(g, chosen) ==
  /\ Up /\ chosen # {}
  /\ <<revoked[g], resources[g]>> # <<FALSE, chosen>>
  /\ revoked' = [revoked EXCEPT ![g] = FALSE]
  /\ resources' = [resources EXCEPT ![g] = chosen]
  /\ UNCHANGED <<opVars, client, worker, composeVars>>

-----------------------------------------------------------------------------
(* The worker: start-up.                                                   *)

Boot ==
  /\ worker.pc = "down"
  /\ worker' = At("recovering")
  /\ UNCHANGED <<opVars, grantVars, client, composeVars>>

\* Mutants of RecoverOne: the operation is queued again; it gets a status nobody
\* else knows.
RecoverByReplay(o) ==
  /\ worker.pc = "recovering"
  /\ status[o] = "running"
  /\ status' = [status EXCEPT ![o] = "pending"]
  /\ lease' = [lease EXCEPT ![o] = "none"]
  /\ UNCHANGED <<launches, attempts, input, result, mutation, grantVars, client,
                 worker, composeVars>>

RecoverAsInterrupted(o) ==
  /\ worker.pc = "recovering"
  /\ status[o] = "running"
  /\ status' = [status EXCEPT ![o] = "interrupted"]
  /\ lease' = [lease EXCEPT ![o] = "none"]
  /\ UNCHANGED <<launches, attempts, input, result, mutation, grantVars, client,
                 worker, composeVars>>

\* recoverInterrupted: what was running when the process died is not replayed.
RecoverOne(o) ==
  /\ worker.pc = "recovering"
  /\ status[o] = "running"
  /\ status' = [status EXCEPT ![o] = "uncertain"]
  /\ lease' = [lease EXCEPT ![o] = "none"]
  /\ UNCHANGED <<launches, attempts, input, result, mutation, grantVars, client,
                 worker, composeVars>>

\* Mutant of RecoverDone: the first tick does not wait for the recovery.
TickBeforeRecovery ==
  /\ worker.pc = "recovering"
  /\ worker' = At("polling")
  /\ UNCHANGED <<opVars, grantVars, client, composeVars>>

\* All of them are done, or an update threw and the rest is left as it is.
RecoverDone ==
  /\ worker.pc = "recovering"
  /\ IF \A o \in Op : status[o] # "running" THEN UNCHANGED faults ELSE Fault
  /\ worker' = At("polling")
  /\ UNCHANGED <<opVars, grantVars, client, hostVars, rows, reader>>

-----------------------------------------------------------------------------
(* The worker: one tick.                                                   *)

Verifying == {o \in Op : status[o] = "verifying"}

\* At most Batch of the verifying operations are reconciled.
StartTick ==
  /\ worker.pc = "polling"
  /\ \E S \in SUBSET Verifying :
        /\ Cardinality(S) <= Batch
        /\ S = Verifying \/ Cardinality(S) = Batch
        /\ worker' = [At("reconciling") EXCEPT !.queue = S]
  /\ UNCHANGED <<opVars, grantVars, client, composeVars>>

Dequeued(o) == [At("reconciling") EXCEPT !.queue = worker.queue \ {o}]

\* reconcileDetached asks the log endpoint, which also advances the release rows,
\* and waits for its answer.
AskLog(o) ==
  /\ worker.pc = "reconciling" /\ o \in worker.queue
  /\ status[o] = "verifying"
  /\ LogRead(Own, SlugOf[input[o].dep])
  /\ worker' = [worker EXCEPT !.pc = "observing", !.op = o]
  /\ UNCHANGED <<opVars, grantVars, client>>

\* The verdict becomes the row's; "running" renews the lease.
Reconcile ==
  /\ worker.pc = "observing" /\ reader[Own].pc = "answered"
  /\ LET o == worker.op
         verdict == reader[Own].verdict
     IN /\ IF verdict = "running"
           THEN /\ lease' = [lease EXCEPT ![o] = "live"]
                /\ UNCHANGED status
           ELSE /\ status' = [status EXCEPT ![o] = verdict]
                /\ lease' = [lease EXCEPT ![o] = "none"]
        /\ worker' = Dequeued(o)
  /\ reader' = [reader EXCEPT ![Own] = Idle]
  /\ UNCHANGED <<launches, attempts, input, result, mutation, grantVars, client,
                 hostVars, rows, faults>>

\* The endpoint breaks off: an error answer settles the operation once its lease
\* has run out.  An exception, a time-out or a failing update changes nothing;
\* after a time-out the request goes on without the worker.
ReconcileFails ==
  /\ worker.pc = "observing"
  /\ Fault
  /\ LET o == worker.op
         dropped == [reader EXCEPT ![Own] = Idle]
     IN /\ \/ /\ UNCHANGED <<status, lease>>
              /\ \/ reader' = dropped
                 \/ \E p \in Reader :
                      /\ reader[p].pc = "idle" /\ reader[Own].pc # "answered"
                      /\ reader' = [dropped EXCEPT ![p] = reader[Own]]
           \/ /\ lease[o] = "expired"
              /\ status' = [status EXCEPT ![o] = "uncertain"]
              /\ lease' = [lease EXCEPT ![o] = "none"]
              /\ reader' = dropped
        /\ worker' = Dequeued(o)
  /\ UNCHANGED <<launches, attempts, input, result, mutation, grantVars, client,
                 hostVars, rows>>

LeaseExpires(o) ==
  /\ status[o] = "verifying" /\ lease[o] = "live"
  /\ lease' = [lease EXCEPT ![o] = "expired"]
  /\ UNCHANGED <<status, launches, attempts, input, result, mutation, grantVars,
                 client, worker, composeVars>>

\* claimPending, first await: the oldest pending operation, if any.
FindPending ==
  /\ worker.pc = "reconciling" /\ worker.queue = {}
  /\ IF \A o \in Op : status[o] # "pending"
     THEN worker' = At("polling")
     ELSE \E o \in Op :
            /\ status[o] = "pending"
            /\ \A p \in Op : p < o => status[p] # "pending"
            /\ worker' = [At("claiming") EXCEPT !.op = o]
  /\ UNCHANGED <<opVars, grantVars, client, composeVars>>

\* claimPending, second await: compare-and-set from "pending".
Claim ==
  /\ worker.pc = "claiming"
  /\ IF status[worker.op] = "pending"
     THEN /\ status' = [status EXCEPT ![worker.op] = "running"]
          /\ lease' = [lease EXCEPT ![worker.op] = "live"]
          /\ attempts' = [attempts EXCEPT ![worker.op] = @ + 1]
          /\ worker' = [worker EXCEPT !.pc = "claimed"]
     ELSE /\ worker' = At("polling")
          /\ UNCHANGED <<status, lease, attempts>>
  /\ UNCHANGED <<launches, input, result, mutation, grantVars, client, composeVars>>

-----------------------------------------------------------------------------
(* The worker: executing the claimed operation.                            *)

\* Mutants of MarkUncertain: the operation is retried; the lease is not cleared.
MarkForRetry(o) ==
  /\ Fault
  /\ status' = [status EXCEPT ![o] = "pending"]
  /\ lease' = [lease EXCEPT ![o] = "none"]
  /\ worker' = At("polling")

MarkUncertainKeepsLease(o) ==
  /\ Fault
  /\ status' = [status EXCEPT ![o] = "uncertain"]
  /\ UNCHANGED lease
  /\ worker' = At("polling")

\* The row is updated to v.  If the update throws, the tick's handler tries to
\* mark the operation uncertain, and swallows a second failure.
MarkUncertain(o) ==
  /\ Fault
  /\ \/ /\ status' = [status EXCEPT ![o] = "uncertain"]
        /\ lease' = [lease EXCEPT ![o] = "none"]
     \/ UNCHANGED <<status, lease>>
  /\ worker' = At("polling")

Write(o, v) ==
  \/ /\ status' = [status EXCEPT ![o] = v]
     /\ lease' = [lease EXCEPT ![o] = IF v = "verifying" THEN "live" ELSE "none"]
     /\ UNCHANGED faults
     /\ worker' = At("polling")
  \/ MarkUncertain(o)

KeepHost == UNCHANGED <<hostVars, rows, reader>>

\* The code also checks that the approving user still is an administrator; no
\* operation of the program takes that away from a user who has grants.
Allowed(o) ==
  /\ ~revoked[input[o].grant]
  /\ input[o].dep \in resources[input[o].grant]

\* The row is read again with its grant, user and deployment.
Authorize ==
  /\ worker.pc = "claimed" /\ Allowed(worker.op)
  /\ worker' = [worker EXCEPT !.pc = "authorized"]
  /\ UNCHANGED <<opVars, grantVars, client, composeVars>>

Refuse ==
  /\ worker.pc = "claimed" /\ ~Allowed(worker.op)
  /\ Write(worker.op, "failed")
  /\ KeepHost
  /\ UNCHANGED <<launches, attempts, input, result, mutation, grantVars, client>>

\* History: run r is the mutation of operation o.
Launched(o, r) ==
  /\ launches' = [launches EXCEPT ![o] = @ + 1]
  /\ mutation' = [mutation EXCEPT ![o] = r]
  /\ worker' = [worker EXCEPT !.pc = "calling", !.run = r]

LaunchRedeploy(r) ==
  /\ worker.pc = "authorized" /\ input[worker.op].kind = "redeploy"
  /\ Fresh(r, WorkerRun)
  /\ LET s == SlugOf[input[worker.op].dep]
     IN Accept(r, s) \/ AcceptFails(r, s)
  /\ Launched(worker.op, r)
  /\ UNCHANGED <<status, attempts, lease, input, result, grantVars, client>>

LaunchBuild(r) ==
  /\ worker.pc = "authorized" /\ input[worker.op].kind = "build"
  /\ Fresh(r, WorkerRun)
  /\ LET s == SlugOf[input[worker.op].dep]
         image == input[worker.op].image
     IN BuildStarts(r, s, image) \/ SandboxStarts(r, s, image) \/ BuildRefused(r, s, image)
  /\ Launched(worker.op, r)
  /\ UNCHANGED <<status, attempts, lease, input, result, grantVars, client>>

\* executeRelease accepts a successful build of the same deployment whose tests
\* did not fail and that produced images.
Releasable(o) ==
  LET b == input[o].build
  IN /\ b \in Op /\ status[b] = "success"
     /\ input[b].kind = "build" /\ input[b].dep = input[o].dep
     /\ result[b].tests # "failed"
     /\ result[b].image # None

RefuseRelease ==
  /\ worker.pc = "authorized" /\ input[worker.op].kind = "release"
  /\ ~Releasable(worker.op)
  /\ Write(worker.op, "failed")
  /\ KeepHost
  /\ UNCHANGED <<launches, attempts, input, result, mutation, grantVars, client>>

\* Mutant of PinRelease: the build is not looked at again.
PinUnchecked(r) ==
  /\ worker.pc = "authorized" /\ input[worker.op].kind = "release"
  /\ Fresh(r, WorkerRun)
  /\ Pin(r, SlugOf[input[worker.op].dep], result[input[worker.op].build].image)
  /\ worker' = [worker EXCEPT !.pc = "pinning", !.run = r]
  /\ UNCHANGED <<opVars, grantVars, client>>

PinRelease(r) ==
  /\ worker.pc = "authorized" /\ input[worker.op].kind = "release"
  /\ Releasable(worker.op)
  /\ Fresh(r, WorkerRun)
  /\ Pin(r, SlugOf[input[worker.op].dep], result[input[worker.op].build].image)
  /\ worker' = [worker EXCEPT !.pc = "pinning", !.run = r]
  /\ UNCHANGED <<opVars, grantVars, client>>

SwitchRelease(r) ==
  /\ worker.pc = "pinning" /\ run[worker.run].answer = "ok"
  /\ Fresh(r, WorkerRun)
  /\ LET s == SlugOf[input[worker.op].dep]
     IN Accept(r, s) \/ AcceptFails(r, s)
  /\ Launched(worker.op, r)
  /\ UNCHANGED <<status, attempts, lease, input, result, grantVars, client>>

PinFailed ==
  /\ worker.pc = "pinning" /\ run[worker.run].answer = "failed"
  /\ Write(worker.op, "failed")
  /\ KeepHost
  /\ UNCHANGED <<launches, attempts, input, result, mutation, grantVars, client>>

\* Mutant of StatusFor: the launch of a detached process counts as success.
StatusForLaunch(answer) ==
  IF answer \in {"ok", "detached"} THEN "success" ELSE "failed"

\* What an answer means for the row.
StatusFor(answer) ==
  CASE answer = "detached" -> "verifying"
    [] answer = "ok" -> "success"
    [] OTHER -> "failed"

\* The request answered.  A build's images and tests are stored with "success".
Finish ==
  /\ worker.pc = "calling" /\ run[worker.run].stage = "answered"
  /\ LET o == worker.op
         q == run[worker.run]
     IN /\ Write(o, StatusFor(q.answer))
        /\ IF input[o].kind = "build" /\ status'[o] = "success"
           THEN \E image \in {q.image, None}, t \in {"passed", "failed", "skipped"} :
                  result' = [result EXCEPT ![o] = [image |-> image, tests |-> t]]
           ELSE UNCHANGED result
  /\ KeepHost
  /\ UNCHANGED <<launches, attempts, input, mutation, grantVars, client>>

\* The handler throws: a read of the row or of the build fails, or the call to
\* the own endpoint breaks or exceeds its 30 minutes; a request already made
\* goes on by itself.
HandlerThrows ==
  /\ worker.pc \in Executing
  /\ MarkUncertain(worker.op)
  /\ KeepHost
  /\ UNCHANGED <<launches, attempts, input, result, mutation, grantVars, client>>

\* The read after the claim throws outside the handler: the tick ends and the
\* operation stays as it is.
DropClaim ==
  /\ worker.pc = "claimed"
  /\ Fault
  /\ worker' = At("polling")
  /\ KeepHost
  /\ UNCHANGED <<opVars, grantVars, client>>

-----------------------------------------------------------------------------
(* Crashes, and everything that happens without the worker.                *)

Crash ==
  /\ Up
  /\ ServerCrash
  /\ worker' = At("down")
  /\ client' = [c \in Client |-> None]
  /\ UNCHANGED <<opVars, grantVars>>

Reboot ==
  /\ LocalVps => Up
  /\ HostReboot
  /\ IF LocalVps
     THEN worker' = At("down") /\ client' = [c \in Client |-> None]
     ELSE UNCHANGED <<worker, client>>
  /\ UNCHANGED <<opVars, grantVars>>

HostStep ==
  /\ \/ \E r \in Run : RunStep(r) \/ ProcessStep(r)
     \/ \E s \in Slug : Stall(s)
  /\ UNCHANGED <<opVars, grantVars, client, worker>>

\* The log requests go on by themselves.
ReadersStep(p) ==
  /\ ReadStep(p)
  /\ UNCHANGED <<opVars, grantVars, client, worker>>

OperatorStep ==
  /\ Up
  /\ \E s \in Slug :
        \/ \E p \in Reader \ {Own} : LogRead(p, s)
        \/ ComposeUp(s)
        \/ \E r \in OperatorRun :
              \/ OperatorRedeploy(r, s)
              \/ \E image \in Image : OperatorEdit(r, s, image)
  /\ UNCHANGED <<opVars, grantVars, client, worker>>

ClientStep == \E c \in Client : Create(c) \/ \E call \in Call : Ask(c, call)

AdminStep ==
  \E g \in Grant : Revoke(g) \/ \E chosen \in SUBSET Deployment : Consent(g, chosen)

WorkerStep ==
  \/ Boot
  \/ RecoverDone
  \/ StartTick
  \/ FindPending
  \/ Claim
  \/ Authorize
  \/ Refuse
  \/ RefuseRelease
  \/ PinFailed
  \/ Finish
  \/ HandlerThrows
  \/ DropClaim
  \/ Reconcile
  \/ ReconcileFails
  \/ \E o \in Op : RecoverOne(o) \/ AskLog(o)
  \/ \E r \in WorkerRun :
        \/ LaunchRedeploy(r)
        \/ LaunchBuild(r)
        \/ PinRelease(r)
        \/ SwitchRelease(r)

Next ==
  \/ ClientStep
  \/ AdminStep
  \/ WorkerStep
  \/ HostStep
  \/ \E p \in Reader : ReadersStep(p)
  \/ OperatorStep
  \/ \E o \in Op : LeaseExpires(o)
  \/ Crash
  \/ Reboot

Spec == Init /\ [][Next]_vars

-----------------------------------------------------------------------------
(* Fairness.  The worker's timer, the open requests, the host processes    *)
(* and the clock keep going; nobody is obliged to ask, to administrate, to *)
(* crash or to break anything.                                             *)

Fairness ==
  /\ WF_vars(WorkerStep)
  /\ WF_vars(HostStep)
  /\ WF_vars(ReadersStep(Own))

FairSpec == Spec /\ Fairness

-----------------------------------------------------------------------------
(* Properties.                                                             *)

\* The detailed specification keeps the promises of the abstract one: an
\* operation is claimed once, sends at most one mutation, is never sent after
\* a revocation cancelled it, never replayed after a crash, and keeps its
\* verdict.
Lifecycle == INSTANCE OperationLifecycle
  WITH Op <- Op, status <- status, launches <- launches
ImplementsLifecycle == Lifecycle!LifecycleSpec

\* Two clients racing with one idempotency key never get two operations: the
\* lookup and the insert are separate awaits, the unique index decides.
KeyIsUnique ==
  \A o, p \in Op :
    status[o] # "absent" /\ status[p] # "absent" /\ o # p =>
      <<input[o].grant, input[o].key>> # <<input[p].grant, input[p].key>>

\* A release only ever switched a deployment to images of a successful build of
\* that deployment whose tests did not fail, and the build is still that.
ReleasesComeFromBuilds ==
  \A o \in Op :
    launches[o] > 0 /\ input[o].kind = "release" => Releasable(o)

\* Unless both updates of a row failed, an operation is "running" only while the
\* worker holds it, or between a crash and the recovery that follows it.
RunningIsHeld ==
  faults = 0 =>
    \A o \in Op : status[o] = "running" =>
      \/ worker.pc \in {"down", "recovering"}
      \/ worker.pc \in Executing /\ worker.op = o

\* What the worker read of its row still holds at every later await, whatever
\* clients and administrators did meanwhile: the row is running, and its
\* mutation has been sent exactly if the worker waits for the answer.
WorkerHoldsItsRow ==
  worker.pc \in Executing =>
    /\ worker.op \in Op
    /\ status[worker.op] = "running"
    /\ launches[worker.op] = IF worker.pc = "calling" THEN 1 ELSE 0

\* The lease column follows the status: set exactly while the outcome is open.
LeaseFollowsStatus ==
  \A o \in Op : lease[o] # "none" <=> status[o] \in {"running", "verifying"}

\* "success" on an operation is verified evidence of its own mutation: the run
\* it launched succeeded, or the build it asked for was answered.
OwnSuccess(o) ==
  /\ mutation[o] # None
  /\ IF input[o].kind = "build" THEN run[mutation[o]].answer = "ok"
     ELSE run[mutation[o]].verdict = "success"
SuccessIsOwn == \A o \in Op : status[o] = "success" => OwnSuccess(o)

\* The same, of the operations no other run shared the slug's log with.
Alone(o) ==
  \A r \in Run : r # mutation[o] => run[r].kind # "redeploy" \/ run[r].slug # SlugOf[input[o].dep]
AloneSuccessIsOwn ==
  \A o \in Op : status[o] = "success" /\ Alone(o) => OwnSuccess(o)

\* However many runs share a log, truncate it, stall or die: no success is shown,
\* on an operation or on a release row, unless a recreation of that project was
\* verified.
Verified(s) == \E r \in Run : run[r].slug = s /\ run[r].verdict = "success"
SuccessHasEvidence ==
  /\ \A o \in Op :
        status[o] = "success" /\ input[o].kind # "build" => Verified(SlugOf[input[o].dep])
  /\ \A i \in DOMAIN rows : rows[i].status = "success" => Verified(rows[i].slug)

\* Whatever fails or crashes elsewhere: where the writes of builds, edits and
\* releases followed each other and none broke off, the override is what the
\* last release or edit asked for once no build or edit is under way.
OverrideIsIntended ==
  \A s \in Slug :
    Holders(s) = {} /\ intended[s] # "unclear" => override[s] = intended[s]

\* Every queued operation is decided: it settles, unless the host lost the log
\* that alone could tell how its detached mutation ended.
OperationsSettle ==
  \A o \in Op :
    status[o] = "pending" ~>
      \/ status[o] \in Settled
      \/ status[o] = "verifying" /\ ~log[SlugOf[input[o].dep]].exists

=============================================================================
