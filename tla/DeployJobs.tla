----------------------------- MODULE DeployJobs -----------------------------
(***************************************************************************)
(* Template deploys, builds and rollbacks of one project: each request     *)
(* runs its pipeline inside a job (runJob), which stores what the pipeline *)
(* logs through a chain of writes of its own, and anybody may follow the   *)
(* job over a resumable event stream.  Whoever looks at the log of the     *)
(* project's last Compose redeploy may settle a row of a deploy as well.   *)
(* Pipelines, chains, streams and looks interleave at every await and die  *)
(* with the process; the rows of jobs and deployments and the tunnel       *)
(* processes on the host survive it.                                       *)
(*                                                                         *)
(* The row of a deploy or a build is named by the job that creates it.  A  *)
(* chunk of output is the number of the log call.                          *)
(***************************************************************************)
EXTENDS Naturals, Sequences, FiniteSets

CONSTANTS
  Job,            (* job rows, in creation order                            *)
  Pipeline,       (* HTTP requests that may be open at a time               *)
  DeployKey,      (* idempotency keys: one per set of deploy inputs         *)
  Reader,         (* browsers that follow a job                             *)
  MaxFailures,    (* bound on failing database updates and tunnel commands  *)
  NoJob

ASSUME DeployJobsAssumption ==
  /\ Job \subseteq Nat /\ IsFiniteSet(Job)
  /\ NoJob \notin Job \cup DeployKey
  /\ MaxFailures \in Nat

VARIABLES
  job,            (* Job: its status and its output                         *)
  chain,          (* memory of runJob: chunks not yet written, whether one  *)
                  (* could not be; history: how many were logged            *)
  pipe,           (* the open requests                                      *)
  row,            (* Deployment, with the rank of its createdAt; what looks *)
                  (* at the Compose log are about to write to it (due);     *)
                  (* history: whether one wrote after it had changed        *)
  tunnel,         (* the quick tunnel process a deployment started          *)
  reader,         (* the streams: server's cursor, and the client's state   *)
  failures,       (* how many updates and tunnel commands failed            *)
  orderly         (* history: nothing failed or died, no deploy overlapped, *)
                  (* no row was overtaken                                   *)

rowVars == <<row, tunnel>>
jobsVars == <<job, chain, pipe, row, tunnel, reader, failures, orderly>>

Verdict == {"success", "failed"}
InTry == {"preparing", "building", "deploying", "clearing", "tunnelling", "noting",
          "concluding", "unrolling"}
Stage ==
  {"idle", "creating", "starting", "recording", "provisioning", "failing", "erring",
   "saving", "savingError"} \cup InTry

JobsTypeOK ==
  /\ job \in [Job -> [status : {"absent", "pending", "running", "success", "failed"},
                      output : Seq(Nat)]]
  /\ chain \in [Job -> [logged : Nat, queue : Seq(Nat), lost : BOOLEAN]]
  /\ pipe \in [Pipeline ->
       [at : Stage, kind : {"none", "deploy", "build", "rollback"},
        job : Job \cup {NoJob}, row : Job \cup {NoJob},
        key : DeployKey \cup {NoJob}, preview : BOOLEAN]]
  /\ row \in [Job ->
       [status : {"absent", "running", "building", "deploying", "success", "failed",
                  "rolled_back"},
        key : DeployKey \cup {NoJob}, recent : BOOLEAN, rank : Nat, noted : BOOLEAN,
        due : SUBSET Verdict, overtaken : BOOLEAN]]
  /\ tunnel \in [Job -> {"none", "up"}]
  /\ reader \in [Reader ->
       [open : BOOLEAN, job : Job \cup {NoJob}, sent : Nat, cursor : Nat, got : Seq(Nat),
        done : BOOLEAN]]
  /\ failures \in 0..MaxFailures
  /\ orderly \in BOOLEAN

NoChain == [logged |-> 0, queue |-> <<>>, lost |-> FALSE]
Resting == [at |-> "idle", kind |-> "none", job |-> NoJob, row |-> NoJob,
            key |-> NoJob, preview |-> FALSE]

JobsInit ==
  /\ job = [j \in Job |-> [status |-> "absent", output |-> <<>>]]
  /\ chain = [j \in Job |-> NoChain]
  /\ pipe = [p \in Pipeline |-> Resting]
  /\ row = [j \in Job |-> [status |-> "absent", key |-> NoJob, recent |-> FALSE,
                           rank |-> 0, noted |-> FALSE, due |-> {},
                           overtaken |-> FALSE]]
  /\ tunnel = [j \in Job |-> "none"]
  /\ \E follow \in [Reader -> Job \cup {NoJob}] :
        reader = [r \in Reader |-> [open |-> FALSE, job |-> follow[r], sent |-> 0,
                                    cursor |-> 0, got |-> <<>>, done |-> FALSE]]
  /\ failures = 0
  /\ orderly = TRUE

Fails ==
  /\ failures < MaxFailures
  /\ failures' = failures + 1
  /\ orderly' = FALSE

Works == UNCHANGED <<failures, orderly>>

Go(p, stage) == pipe' = [pipe EXCEPT ![p].at = stage]

\* The logger: the chunk joins the chain of writes, and nobody waits for it.
Log(j) ==
  chain' = [chain EXCEPT ![j].logged = @ + 1,
                         ![j].queue = Append(@, chain[j].logged + 1)]

SetRow(d, status) == row' = [row EXCEPT ![d].status = status]

-----------------------------------------------------------------------------
(* A request up to the start of its job.                                   *)

\* findRecentIdempotentDeployment: a deployment of the key, created less than
\* five minutes ago, that has not failed.
RecentOf(k) ==
  {d \in Job : row[d].status \notin {"absent", "failed"} /\ row[d].key = k /\ row[d].recent}

\* When there is one, its id is the answer and nothing happens.
BeginDeploy(p, k, preview) ==
  /\ pipe[p].at = "idle"
  /\ RecentOf(k) = {}
  /\ pipe' = [pipe EXCEPT ![p] = [Resting EXCEPT !.at = "creating", !.kind = "deploy",
                                                 !.key = k, !.preview = preview]]
  /\ orderly' = (orderly /\ \A q \in Pipeline : pipe[q].at = "idle")
  /\ UNCHANGED <<job, chain, rowVars, reader, failures>>

BeginBuild(p) ==
  /\ pipe[p].at = "idle"
  /\ pipe' = [pipe EXCEPT ![p] = [Resting EXCEPT !.at = "creating", !.kind = "build"]]
  /\ UNCHANGED <<job, chain, rowVars, reader, failures, orderly>>

\* A rollback first stops the tunnel its deployment recorded; if that fails,
\* nobody notices.
BeginRollback(p, d) ==
  /\ pipe[p].at = "idle" /\ row[d].status # "absent"
  /\ pipe' = [pipe EXCEPT ![p] = [Resting EXCEPT !.at = "creating", !.kind = "rollback",
                                                 !.row = d]]
  /\ \/ /\ tunnel' = IF row[d].noted THEN [tunnel EXCEPT ![d] = "none"] ELSE tunnel
        /\ Works
     \/ row[d].noted /\ Fails /\ UNCHANGED tunnel
  /\ UNCHANGED <<job, chain, row, reader>>

CreateJob(p) ==
  /\ pipe[p].at = "creating"
  /\ \E j \in Job :
        /\ job[j].status = "absent"
        /\ \A i \in Job : i < j => job[i].status # "absent"
        /\ job' = [job EXCEPT ![j].status = "pending"]
        /\ pipe' = [pipe EXCEPT ![p].at = "starting", ![p].job = j]
  /\ UNCHANGED <<chain, rowVars, reader, failures, orderly>>

\* setJobRunning.  Should it throw, the job stays pending for ever.
StartJob(p) ==
  /\ pipe[p].at = "starting"
  /\ \/ /\ job' = [job EXCEPT ![pipe[p].job].status = "running"]
        /\ Go(p, IF pipe[p].kind = "rollback" THEN "preparing" ELSE "recording")
        /\ Works
     \/ /\ Fails
        /\ pipe' = [pipe EXCEPT ![p] = Resting]
        /\ UNCHANGED job
  /\ UNCHANGED <<chain, rowVars, reader>>

-----------------------------------------------------------------------------
(* The pipeline inside the job.                                            *)

\* prisma.deployment.create; it, the choice of the VPS and a Terraform apply are
\* outside of the try block, so what throws there leaves the row as it is.
RecordRow(p) ==
  /\ pipe[p].at = "recording"
  /\ \/ /\ row' = [row EXCEPT ![pipe[p].job] =
                    [status |-> "running", key |-> pipe[p].key, recent |-> TRUE,
                     noted |-> FALSE, due |-> {}, overtaken |-> FALSE,
                     rank |-> 1 + Cardinality({d \in Job : row[d].status # "absent"})]]
        /\ pipe' = [pipe EXCEPT ![p].row = pipe[p].job, ![p].at = "provisioning"]
        /\ Works
     \/ /\ Fails /\ Go(p, "erring") /\ UNCHANGED row
  /\ UNCHANGED <<job, chain, tunnel, reader>>

Provision(p) ==
  /\ pipe[p].at = "provisioning"
  /\ Go(p, "preparing") \/ Go(p, "erring")
  /\ UNCHANGED <<job, chain, rowVars, reader, failures, orderly>>

\* The environment and the adapter's preparation; the pipeline says what it is
\* about to do.
Prepare(p) ==
  /\ pipe[p].at = "preparing"
  /\ Log(pipe[p].job)
  /\ Go(p, IF pipe[p].kind = "rollback" THEN "unrolling" ELSE "building")
  /\ UNCHANGED <<job, rowVars, reader, failures, orderly>>

Build(p) ==
  /\ pipe[p].at = "building"
  /\ SetRow(pipe[p].row, "building")
  /\ Go(p, IF pipe[p].kind = "deploy" THEN "deploying" ELSE "concluding")
  /\ UNCHANGED <<job, chain, tunnel, reader, failures, orderly>>

Deploy(p) ==
  /\ pipe[p].at = "deploying"
  /\ SetRow(pipe[p].row, "deploying")
  /\ Go(p, IF pipe[p].preview THEN "clearing" ELSE "concluding")
  /\ UNCHANGED <<job, chain, tunnel, reader, failures, orderly>>

\* Whatever is awaited inside the try block may throw into its catch.
Throws(p) ==
  /\ pipe[p].at \in InTry
  /\ pipe[p].at \in {"noting", "concluding"} => tunnel[pipe[p].row] = "none"
  /\ Go(p, "failing")
  /\ UNCHANGED <<job, chain, rowVars, reader, failures, orderly>>

\* The same, of the updates that follow the start of a tunnel.
ThrowsLate(p) ==
  /\ pipe[p].at \in {"noting", "concluding"} /\ tunnel[pipe[p].row] = "up"
  /\ Fails
  /\ Go(p, "failing")
  /\ UNCHANGED <<job, chain, rowVars, reader>>

\* destroyPreviousQuickTunnel: the newest deployment that recorded one and has
\* not failed.
Previous ==
  {d \in Job :
     /\ row[d].noted /\ row[d].status # "failed"
     /\ \A e \in Job : row[e].noted /\ row[e].status # "failed" => row[e].rank <= row[d].rank}

ClearTunnel(p) ==
  /\ pipe[p].at = "clearing"
  /\ \/ /\ tunnel' = [d \in Job |-> IF d \in Previous THEN "none" ELSE tunnel[d]]
        /\ Works
     \/ Previous # {} /\ Fails /\ UNCHANGED tunnel
  /\ Go(p, "tunnelling")
  /\ UNCHANGED <<job, chain, row, reader>>

\* createQuickTunnel kills what it started when no URL appears; it cannot when
\* the answer of the start was lost.
OpenTunnel(p) ==
  /\ pipe[p].at = "tunnelling"
  /\ tunnel' = [tunnel EXCEPT ![pipe[p].row] = "up"]
  /\ \/ Go(p, "noting") /\ Works
     \/ Go(p, "failing") /\ Fails
  /\ UNCHANGED <<job, chain, row, reader>>

\* No port could be determined.
SkipTunnel(p) ==
  /\ pipe[p].at = "tunnelling"
  /\ Go(p, "concluding")
  /\ UNCHANGED <<job, chain, rowVars, reader, failures, orderly>>

\* Mutant of NoteTunnel: the process is forgotten.
NoteNothing(p) ==
  /\ pipe[p].at = "noting"
  /\ Go(p, "concluding")
  /\ UNCHANGED <<job, chain, rowVars, reader, failures, orderly>>

NoteTunnel(p) ==
  /\ pipe[p].at = "noting"
  /\ row' = [row EXCEPT ![pipe[p].row].noted = TRUE]
  /\ Go(p, "concluding")
  /\ UNCHANGED <<job, chain, tunnel, reader, failures, orderly>>

Conclude(p) ==
  /\ pipe[p].at = "concluding"
  /\ SetRow(pipe[p].row, "success")
  /\ IF pipe[p].kind = "deploy" THEN Log(pipe[p].job) ELSE UNCHANGED chain
  /\ Go(p, "saving")
  /\ UNCHANGED <<job, tunnel, reader, failures, orderly>>

Rollback(p) ==
  /\ pipe[p].at = "unrolling"
  /\ SetRow(pipe[p].row, "rolled_back")
  /\ Go(p, "saving")
  /\ UNCHANGED <<job, chain, tunnel, reader, failures, orderly>>

\* Mutant of FailRow: the catch does not throw again.
FailRowQuietly(p) ==
  /\ pipe[p].at = "failing"
  /\ IF pipe[p].kind = "rollback" THEN UNCHANGED row ELSE SetRow(pipe[p].row, "failed")
  /\ Go(p, "saving")
  /\ UNCHANGED <<job, chain, tunnel, reader, failures, orderly>>

\* The catch block; a rollback that failed leaves the status of the row.
FailRow(p) ==
  /\ pipe[p].at = "failing"
  /\ \/ /\ IF pipe[p].kind = "rollback" THEN UNCHANGED row
           ELSE SetRow(pipe[p].row, "failed")
        /\ Works
     \/ Fails /\ UNCHANGED row
  /\ Go(p, "erring")
  /\ UNCHANGED <<job, chain, tunnel, reader>>

-----------------------------------------------------------------------------
(* The end of the job.                                                     *)

\* One write of the chain; the next one follows whether or not it failed.
WriteChunk(j) ==
  /\ chain[j].queue # <<>>
  /\ \/ /\ job' = [job EXCEPT ![j].output = Append(@, Head(chain[j].queue))]
        /\ chain' = [chain EXCEPT ![j].queue = Tail(@)]
        /\ Works
     \/ /\ Fails
        /\ chain' = [chain EXCEPT ![j].queue = Tail(@), ![j].lost = TRUE]
        /\ UNCHANGED job
  /\ UNCHANGED <<pipe, rowVars, reader>>

Settle(p, status) ==
  /\ job' = [job EXCEPT ![pipe[p].job].status = status]
  /\ pipe' = [pipe EXCEPT ![p] = Resting]
  /\ Works

\* Mutant of Save: nobody waits for the chain.
SaveAtOnce(p) ==
  /\ pipe[p].at = "saving"
  /\ IF chain[pipe[p].job].lost THEN Go(p, "erring") /\ Works /\ UNCHANGED job
     ELSE \/ Settle(p, "success")
          \/ Fails /\ Go(p, "erring") /\ UNCHANGED job
  /\ UNCHANGED <<chain, rowVars, reader>>

\* The chain is waited for.  A chunk that could not be written, or an update
\* that throws, makes a failure of the success.
Save(p) ==
  /\ pipe[p].at = "saving" /\ chain[pipe[p].job].queue = <<>>
  /\ IF chain[pipe[p].job].lost THEN Go(p, "erring") /\ Works /\ UNCHANGED job
     ELSE \/ Settle(p, "success")
          \/ Fails /\ Go(p, "erring") /\ UNCHANGED job
  /\ UNCHANGED <<chain, rowVars, reader>>

\* Mutant of LogError: the job of a failure is never ended.
LogErrorOnly(p) ==
  /\ pipe[p].at = "erring"
  /\ Log(pipe[p].job)
  /\ pipe' = [pipe EXCEPT ![p] = Resting]
  /\ UNCHANGED <<job, rowVars, reader, failures, orderly>>

LogError(p) ==
  /\ pipe[p].at = "erring"
  /\ Log(pipe[p].job)
  /\ Go(p, "savingError")
  /\ UNCHANGED <<job, rowVars, reader, failures, orderly>>

\* Mutant of SaveError: a failed job is cancelled.
SaveErrorCancelled(p) ==
  /\ pipe[p].at = "savingError" /\ chain[pipe[p].job].queue = <<>>
  /\ Settle(p, "cancelled")
  /\ UNCHANGED <<chain, rowVars, reader>>

\* Should this update throw, the job stays running for ever.
SaveError(p) ==
  /\ pipe[p].at = "savingError" /\ chain[pipe[p].job].queue = <<>>
  /\ \/ Settle(p, "failed")
     \/ Fails /\ pipe' = [pipe EXCEPT ![p] = Resting] /\ UNCHANGED job
  /\ UNCHANGED <<chain, rowVars, reader>>

-----------------------------------------------------------------------------
(* A look at the log of the project's last Compose redeploy.               *)

\* It finds a verdict there, be it of a redeploy long over, and looks for the
\* newest deployment of the project that is deploying.  What it will write to
\* that row is decided; it was not when the row is another's.
LookFinds(d, verdict) ==
  /\ row[d].status = "deploying"
  /\ \A e \in Job : row[e].status = "deploying" => row[e].rank <= row[d].rank
  /\ row' = [row EXCEPT ![d].due = @ \cup {verdict}]
  /\ UNCHANGED <<job, chain, pipe, tunnel, reader, failures, orderly>>

\* The update goes by the id alone, whatever became of the row.  Several looks
\* may be about to write the same.
LookSettles(d, verdict) ==
  /\ verdict \in row[d].due
  /\ \E due \in {row[d].due, row[d].due \ {verdict}} :
        row' = [row EXCEPT ![d] =
                  [row[d] EXCEPT
                     !.status = verdict, !.due = due,
                     !.overtaken = row[d].overtaken \/ row[d].status # "deploying"]]
  /\ orderly' = (orderly /\ row[d].status = "deploying")
  /\ UNCHANGED <<job, chain, pipe, tunnel, reader, failures>>

LogLook(d) == \E verdict \in Verdict : LookFinds(d, verdict) \/ LookSettles(d, verdict)

-----------------------------------------------------------------------------
(* The event stream.                                                       *)

Terminal(j) == job[j].status \in {"success", "failed"}

\* A client connects, with the id of the last event it received if it did
\* before.
Connect(r) ==
  /\ ~reader[r].open /\ ~reader[r].done
  /\ reader[r].job # NoJob /\ job[reader[r].job].status # "absent"
  /\ reader' = [reader EXCEPT ![r].open = TRUE, ![r].sent = reader[r].cursor]
  /\ UNCHANGED <<job, chain, pipe, rowVars, failures, orderly>>

\* Mutant of PollStream: the event carries the cursor it started
\* from.
PollStale(r) ==
  /\ reader[r].open
  /\ LET s == reader[r]
         out == job[s.job].output
     IN reader' = [reader EXCEPT ![r] =
          [s EXCEPT !.got = @ \o SubSeq(out, s.sent + 1, Len(out)), !.sent = Len(out),
                    !.cursor = s.sent, !.done = Terminal(s.job), !.open = ~Terminal(s.job)]]
  /\ UNCHANGED <<job, chain, pipe, rowVars, failures, orderly>>

\* Mutant of PollStream: a failed job is polled for ever.
PollUntilSuccess(r) ==
  /\ reader[r].open
  /\ LET s == reader[r]
         out == job[s.job].output
         ended == job[s.job].status = "success"
     IN reader' = [reader EXCEPT ![r] =
          [s EXCEPT !.got = @ \o SubSeq(out, s.sent + 1, Len(out)), !.sent = Len(out),
                    !.cursor = Len(out), !.done = ended, !.open = ~ended]]
  /\ UNCHANGED <<job, chain, pipe, rowVars, failures, orderly>>

\* One turn of the loop: output and status are one read; what is new is sent
\* with the cursor behind it, then "done" if the job has ended.
PollStream(r) ==
  /\ reader[r].open
  /\ LET s == reader[r]
         out == job[s.job].output
     IN reader' = [reader EXCEPT ![r] =
          [s EXCEPT !.got = @ \o SubSeq(out, s.sent + 1, Len(out)), !.sent = Len(out),
                    !.cursor = Len(out), !.done = Terminal(s.job), !.open = ~Terminal(s.job)]]
  /\ UNCHANGED <<job, chain, pipe, rowVars, failures, orderly>>

\* The connection breaks before an event of this turn, or behind the output of
\* a job that has ended and before "done".
BreakStream(r) ==
  /\ reader[r].open
  /\ LET s == reader[r]
         out == job[s.job].output
     IN \/ reader' = [reader EXCEPT ![r].open = FALSE]
        \/ /\ Terminal(s.job)
           /\ reader' = [reader EXCEPT ![r] =
                [s EXCEPT !.open = FALSE, !.cursor = Len(out),
                          !.got = @ \o SubSeq(out, s.sent + 1, Len(out))]]
  /\ UNCHANGED <<job, chain, pipe, rowVars, failures, orderly>>

-----------------------------------------------------------------------------

\* Five minutes pass.
Ages(d) ==
  /\ row[d].recent
  /\ row' = [row EXCEPT ![d].recent = FALSE]
  /\ UNCHANGED <<job, chain, pipe, tunnel, reader, failures, orderly>>

\* The process dies.  Nothing at its next start looks at the jobs it left.
ProcessDies ==
  /\ \E p \in Pipeline : pipe[p].at # "idle"
  /\ chain' = [j \in Job |-> [chain[j] EXCEPT !.queue = <<>>]]
  /\ pipe' = [p \in Pipeline |-> Resting]
  /\ reader' = [r \in Reader |-> [reader[r] EXCEPT !.open = FALSE]]
  /\ row' = [d \in Job |-> [row[d] EXCEPT !.due = {}]]
  /\ Fails
  /\ UNCHANGED <<job, tunnel>>

PipelineStep(p) ==
  \/ CreateJob(p) \/ StartJob(p) \/ RecordRow(p) \/ Provision(p) \/ Prepare(p)
  \/ Build(p) \/ Deploy(p) \/ Throws(p) \/ ThrowsLate(p) \/ ClearTunnel(p)
  \/ OpenTunnel(p) \/ SkipTunnel(p) \/ NoteTunnel(p) \/ Conclude(p) \/ Rollback(p)
  \/ FailRow(p) \/ Save(p) \/ LogError(p) \/ SaveError(p)

JobsNext ==
  \/ \E p \in Pipeline :
        \/ PipelineStep(p)
        \/ BeginBuild(p)
        \/ \E k \in DeployKey, preview \in BOOLEAN : BeginDeploy(p, k, preview)
        \/ \E d \in Job : BeginRollback(p, d)
  \/ \E j \in Job : WriteChunk(j) \/ Ages(j) \/ LogLook(j)
  \/ \E r \in Reader : Connect(r) \/ PollStream(r) \/ BreakStream(r)
  \/ ProcessDies

JobsSpec == JobsInit /\ [][JobsNext]_jobsVars

\* Open requests and their chains go on, and so does the loop of a stream while
\* its connection is open.  Nobody has to connect, and any connection may break.
JobsFairness ==
  /\ \A p \in Pipeline : WF_jobsVars(PipelineStep(p))
  /\ \A j \in Job : WF_jobsVars(WriteChunk(j))
  /\ \A r \in Reader : WF_jobsVars(PollStream(r))

-----------------------------------------------------------------------------
(* Properties.                                                             *)

\* A job that says success has stored everything its pipeline logged, in the
\* order it was logged, although nobody awaits a single write.
SuccessIsComplete ==
  \A j \in Job :
    job[j].status = "success" => job[j].output = [i \in 1..chain[j].logged |-> i]

\* However often a stream breaks and resumes, its client has a prefix of the
\* output, nothing twice and nothing left out; when it is told "done" it has
\* the whole, and the output of a job that has ended never grows again.
StreamIsExact ==
  \A r \in {q \in Reader : reader[q].job # NoJob} :
    LET s == reader[r]
        out == job[s.job].output
    IN /\ s.got = SubSeq(out, 1, s.cursor)
       /\ s.done => s.got = out

\* A deploy or build whose job succeeded is a deployment that succeeded (it may
\* have been rolled back since), whatever overlaps, throws or dies, and although
\* looks at the Compose log settle its row meanwhile: only one that found the row
\* deploying and writes when it no longer is can make a difference.
JobSuccessIsDeployed ==
  \A j \in Job :
    job[j].status = "success" /\ row[j].status # "absent" /\ ~row[j].overtaken =>
      row[j].status \in {"success", "rolled_back"}

\* While deploys come one at a time, nothing breaks and no row is overtaken by a
\* look at the Compose log, a project never has two preview tunnels, and two
\* deploys with one key never follow each other within five minutes unless the
\* first has failed or was rolled back.
OrderlyDeploysDoNotPileUp ==
  orderly =>
    /\ \A d, e \in Job : tunnel[d] = "up" /\ tunnel[e] = "up" => d = e
    /\ \A k \in DeployKey : \A d, e \in RecentOf(k) :
          row[d].status # "rolled_back" /\ row[e].status # "rolled_back" => d = e

\* A job ends, unless an update failed or the process died.
JobsEnd ==
  \A j \in Job : job[j].status = "pending" ~> Terminal(j) \/ failures > 0

\* A stream of a job that has ended, or was over before it opened, says so and
\* closes, unless its connection breaks first; no stream polls on for ever.
FollowersAreTold ==
  \A r \in Reader :
    reader[r].open /\ Terminal(reader[r].job) ~> reader[r].done \/ ~reader[r].open

=============================================================================
