-------------------------- MODULE DeployJobsProofs --------------------------
(***************************************************************************)
(* What a job that says success promises, that jobs go forward and end,    *)
(* what their followers receive, and that deploys which follow each other  *)
(* do not pile up, for any number of jobs, requests, browsers, failures    *)
(* and looks at the Compose log.                                           *)
(***************************************************************************)
EXTENDS DeployJobs, FiniteSetTheorems, SequenceTheorems, TLAPS

JobRecord ==
  [status : {"absent", "pending", "running", "success", "failed"}, output : Seq(Nat)]
ChainRecord == [logged : Nat, queue : Seq(Nat), lost : BOOLEAN]
PipeRecord ==
  [at : Stage, kind : {"none", "deploy", "build", "rollback"}, job : Job \cup {NoJob},
   row : Job \cup {NoJob}, key : DeployKey \cup {NoJob}, preview : BOOLEAN]
RowRecord ==
  [status : {"absent", "running", "building", "deploying", "success", "failed",
             "rolled_back"},
   key : DeployKey \cup {NoJob}, recent : BOOLEAN, rank : Nat, noted : BOOLEAN,
   due : SUBSET Verdict, overtaken : BOOLEAN]
ReaderRecord ==
  [open : BOOLEAN, job : Job \cup {NoJob}, sent : Nat, cursor : Nat, got : Seq(Nat),
   done : BOOLEAN]

Working == Stage \ {"idle", "creating", "starting"}
WithRow == InTry \cup {"provisioning", "failing"}
NoRollback == {"recording", "provisioning", "building", "deploying", "clearing",
               "tunnelling", "noting", "concluding"}

\* Stored output and queued chunks are together what was logged, in order.
InOrder(output, queue, logged) ==
  /\ Len(output) + Len(queue) = logged
  /\ \A i \in 1..Len(output) : output[i] = i
  /\ \A i \in 1..Len(queue) : queue[i] = Len(output) + i

Chunks(j) == InOrder(job[j].output, chain[j].queue, chain[j].logged)

\* The job of a request is in the state of the request's stage.
HasJob(p) ==
  /\ pipe[p].at \in {"idle", "creating"} => pipe[p].job = NoJob
  /\ pipe[p].at = "starting" =>
       pipe[p].job \in Job /\ job[pipe[p].job].status = "pending"
  /\ pipe[p].at \in Working =>
       /\ pipe[p].job \in Job /\ job[pipe[p].job].status = "running"
       /\ chain[pipe[p].job].lost \/ Chunks(pipe[p].job)

OwnJobs ==
  \A p, q \in Pipeline : p # q /\ pipe[p].job \in Job => pipe[p].job # pipe[q].job

\* A deployment that succeeded, unless it was overtaken.
Stands(d) == row[d].status \in {"success", "rolled_back"} \/ row[d].overtaken

\* A rollback works on a row that is there and creates none of its own job; the
\* row of a deploy or a build is that of its job.
HasRow(p) ==
  /\ pipe[p].at # "idle" => pipe[p].kind \in {"deploy", "build", "rollback"}
  /\ pipe[p].at \in NoRollback => pipe[p].kind # "rollback"
  /\ pipe[p].at = "unrolling" => pipe[p].kind = "rollback"
  /\ pipe[p].kind = "rollback" =>
       /\ pipe[p].row \in Job /\ row[pipe[p].row].status # "absent"
       /\ pipe[p].job \in Job => row[pipe[p].job].status = "absent"
  /\ pipe[p].kind # "rollback" =>
       /\ pipe[p].at \in {"starting", "recording"} => row[pipe[p].job].status = "absent"
       /\ pipe[p].at \in WithRow =>
            pipe[p].row = pipe[p].job /\ row[pipe[p].job].status # "absent"
       /\ pipe[p].at = "saving" => Stands(pipe[p].job)

\* What the status of a job says of its output and of the row it names.
Kept(j) ==
  /\ job[j].status \in {"absent", "pending"} =>
       chain[j] = NoChain /\ job[j].output = <<>> /\ row[j].status = "absent"
  /\ row[j].status = "absent" => row[j].due = {}
  /\ Terminal(j) => chain[j].queue = <<>>
  /\ job[j].status = "success" =>
       Chunks(j) /\ (row[j].status = "absent" \/ Stands(j))

\* A browser has a prefix of the output, up to its cursor.
Follows(r) ==
  /\ reader[r].open => reader[r].job # NoJob
  /\ reader[r].job # NoJob =>
    /\ reader[r].cursor <= Len(job[reader[r].job].output)
    /\ reader[r].got = SubSeq(job[reader[r].job].output, 1, reader[r].cursor)
    /\ reader[r].open => reader[r].sent = reader[r].cursor
    /\ reader[r].done =>
         Terminal(reader[r].job) /\ reader[r].cursor = Len(job[reader[r].job].output)

JobsInv ==
  /\ JobsTypeOK
  /\ \A p \in Pipeline : HasJob(p)
  /\ OwnJobs
  /\ \A p \in Pipeline : HasRow(p)
  /\ \A j \in Job : Kept(j)
  /\ \A r \in Reader : Follows(r)

-----------------------------------------------------------------------------

\* What was argued to hold follows from the invariant.
LEMMA InvSuffices ==
  JobsInv => SuccessIsComplete /\ StreamIsExact /\ JobSuccessIsDeployed
<1> SUFFICES ASSUME JobsInv PROVE SuccessIsComplete /\ StreamIsExact /\ JobSuccessIsDeployed
  OBVIOUS
<1>1. SuccessIsComplete
  <2> SUFFICES ASSUME NEW j \in Job, job[j].status = "success"
               PROVE  job[j].output = [i \in 1..chain[j].logged |-> i]
    BY DEF SuccessIsComplete
  <2>1. Chunks(j) /\ chain[j].queue = <<>>
    BY DEF JobsInv, Kept, Terminal
  <2>2. job[j].output \in Seq(Nat) /\ chain[j].logged \in Nat
    BY DEF JobsInv, JobsTypeOK
  <2>3. Len(job[j].output) = chain[j].logged
    BY <2>1, <2>2 DEF Chunks, InOrder
  <2>4. job[j].output = [i \in 1..chain[j].logged |-> job[j].output[i]]
    BY <2>2, <2>3
  <2>5. \A i \in 1..chain[j].logged : job[j].output[i] = i
    BY <2>1, <2>3 DEF Chunks, InOrder
  <2> QED BY <2>4, <2>5
<1>2. StreamIsExact
  <2> SUFFICES ASSUME NEW r \in Reader, reader[r].job # NoJob
               PROVE  /\ reader[r].got = SubSeq(job[reader[r].job].output, 1, reader[r].cursor)
                      /\ reader[r].done => reader[r].got = job[reader[r].job].output
    BY DEF StreamIsExact
  <2>1. Follows(r)
    BY DEF JobsInv
  <2>2. job[reader[r].job].output \in Seq(Nat)
    BY DEF JobsInv, JobsTypeOK
  <2>3. SubSeq(job[reader[r].job].output, 1, Len(job[reader[r].job].output))
          = job[reader[r].job].output
    BY <2>2, SubSeqFull
  <2> QED BY <2>1, <2>3 DEF Follows
<1>3. JobSuccessIsDeployed
  BY DEF JobsInv, Kept, JobSuccessIsDeployed, Stands
<1> QED BY <1>1, <1>2, <1>3

\* JobsTypeOK, with a name for every kind of record.
LEMMA TypesByName ==
  JobsTypeOK <=>
    /\ job \in [Job -> JobRecord]
    /\ chain \in [Job -> ChainRecord]
    /\ pipe \in [Pipeline -> PipeRecord]
    /\ row \in [Job -> RowRecord]
    /\ tunnel \in [Job -> {"none", "up"}]
    /\ reader \in [Reader -> ReaderRecord]
    /\ failures \in 0..MaxFailures
    /\ orderly \in BOOLEAN
BY DEF JobsTypeOK, JobRecord, ChainRecord, PipeRecord, RowRecord, ReaderRecord

\* Initially nothing is there.
LEMMA InvInit == JobsInit => JobsInv
<1> SUFFICES ASSUME JobsInit PROVE JobsInv
  OBVIOUS
<1>1. JobsTypeOK
  <2>1. job \in [Job -> JobRecord]
    BY DEF JobsInit, JobRecord
  <2>2. chain \in [Job -> ChainRecord]
    BY DEF JobsInit, NoChain, ChainRecord
  <2>3. pipe \in [Pipeline -> PipeRecord]
    BY DEF JobsInit, Resting, PipeRecord, Stage
  <2>4. row \in [Job -> RowRecord]
    BY DEF JobsInit, RowRecord
  <2>5. reader \in [Reader -> ReaderRecord]
    BY DEF JobsInit, ReaderRecord
  <2>6. /\ tunnel \in [Job -> {"none", "up"}]
        /\ failures \in 0..MaxFailures
        /\ orderly \in BOOLEAN
    BY DeployJobsAssumption DEF JobsInit
  <2> QED BY <2>1, <2>2, <2>3, <2>4, <2>5, <2>6, TypesByName
<1>2. ASSUME NEW p \in Pipeline PROVE HasJob(p) /\ HasRow(p)
  BY DEF JobsInit, Resting, HasJob, HasRow, Working, NoRollback, WithRow, InTry
<1>3. OwnJobs
  BY DeployJobsAssumption DEF OwnJobs, JobsInit, Resting
<1>4. ASSUME NEW j \in Job PROVE Kept(j)
  BY DEF Kept, Terminal, JobsInit
<1>5. ASSUME NEW r \in Reader PROVE Follows(r)
  <2>1. SubSeq(<<>>, 1, 0) = <<>>
    BY SubSeqEmpty
  <2>2. /\ reader[r].got = <<>> /\ reader[r].cursor = 0 /\ reader[r].sent = 0
        /\ reader[r].done = FALSE /\ reader[r].open = FALSE
        /\ reader[r].job \in Job \cup {NoJob}
    BY DEF JobsInit
  <2>3. reader[r].job \in Job => job[reader[r].job].output = <<>>
    BY DEF JobsInit
  <2> QED BY <2>1, <2>2, <2>3 DEF Follows
<1> QED BY <1>1, <1>2, <1>3, <1>4, <1>5 DEF JobsInv

-----------------------------------------------------------------------------
(* What the pieces of a step do.                                           *)

\* A request that goes to a stage keeps the rest of what it knows.
LEMMA GoMoves ==
  ASSUME pipe \in [Pipeline -> PipeRecord], NEW p \in Pipeline, NEW stage \in Stage,
         Go(p, stage)
  PROVE  /\ pipe' \in [Pipeline -> PipeRecord]
         /\ pipe'[p].at = stage
         /\ pipe'[p].kind = pipe[p].kind
         /\ pipe'[p].job = pipe[p].job
         /\ pipe'[p].row = pipe[p].row
         /\ \A q \in Pipeline : q # p => pipe'[q] = pipe[q]
<1>1. pipe[p] \in PipeRecord
  OBVIOUS
<1> DEFINE r == [pipe[p] EXCEPT !.at = stage]
<1>2. r \in PipeRecord /\ r.at = stage /\ r.kind = pipe[p].kind /\ r.job = pipe[p].job
        /\ r.row = pipe[p].row
  BY <1>1 DEF PipeRecord
<1>3. pipe' = [pipe EXCEPT ![p] = r]
  BY DEF Go
<1> HIDE DEF r
<1> QED BY <1>2, <1>3

\* A request that starts afresh or comes to rest.
LEMMA PutMoves ==
  ASSUME pipe \in [Pipeline -> PipeRecord], NEW p \in Pipeline, NEW r \in PipeRecord,
         pipe' = [pipe EXCEPT ![p] = r]
  PROVE  /\ pipe' \in [Pipeline -> PipeRecord]
         /\ pipe'[p] = r
         /\ \A q \in Pipeline : q # p => pipe'[q] = pipe[q]
OBVIOUS

\* A status that is written changes nothing else.
LEMMA SetRowMoves ==
  ASSUME row \in [Job -> RowRecord], NEW d \in Job,
         NEW status \in {"building", "deploying", "success", "failed", "rolled_back"},
         SetRow(d, status)
  PROVE  /\ row' \in [Job -> RowRecord]
         /\ row'[d].status = status
         /\ \A e \in Job : e # d => row'[e] = row[e]
<1>1. row[d] \in RowRecord
  OBVIOUS
<1> DEFINE r == [row[d] EXCEPT !.status = status]
<1>2. r \in RowRecord /\ r.status = status
  BY <1>1 DEF RowRecord
<1>3. row' = [row EXCEPT ![d] = r]
  BY DEF SetRow
<1> HIDE DEF r
<1> QED BY <1>2, <1>3

\* The next number, appended to what waits.
LEMMA AppendNext ==
  ASSUME NEW o \in Seq(Nat), NEW q \in Seq(Nat), NEW n \in Nat, InOrder(o, q, n)
  PROVE  InOrder(o, Append(q, n + 1), n + 1)
<1>1. Len(q) \in Nat /\ Len(o) \in Nat /\ n + 1 \in Nat
  OBVIOUS
<1>2. Len(Append(q, n + 1)) = Len(q) + 1
  BY <1>1, AppendProperties
<1>3. Append(q, n + 1)[Len(q) + 1] = n + 1
  BY <1>1, AppendProperties
<1>4. \A i \in 1..Len(q) : Append(q, n + 1)[i] = q[i]
  BY <1>1, AppendProperties
<1>5. ASSUME NEW i \in 1..Len(Append(q, n + 1)) PROVE Append(q, n + 1)[i] = Len(o) + i
  <2>1. CASE i = Len(q) + 1
    <3>1. Len(o) + Len(q) = n
      BY DEF InOrder
    <3> QED BY <1>1, <1>3, <2>1, <3>1
  <2>2. CASE i \in 1..Len(q)
    BY <1>4, <2>2 DEF InOrder
  <2> QED BY <1>1, <1>2, <2>1, <2>2
<1> QED BY <1>1, <1>2, <1>5 DEF InOrder

\* A chunk that is logged is the next one, and is behind all that waits.
LEMMA LogMoves ==
  ASSUME job \in [Job -> JobRecord], chain \in [Job -> ChainRecord], NEW j \in Job,
         Log(j), job' = job
  PROVE  /\ chain' \in [Job -> ChainRecord]
         /\ chain'[j].lost = chain[j].lost
         /\ Chunks(j) => Chunks(j)'
         /\ \A i \in Job : i # j => chain'[i] = chain[i]
<1>1. chain[j] \in ChainRecord /\ job[j].output \in Seq(Nat)
  BY DEF JobRecord
<1>2. chain[j].logged \in Nat /\ chain[j].queue \in Seq(Nat)
  BY <1>1 DEF ChainRecord
<1> DEFINE n == chain[j].logged + 1
           s == Append(chain[j].queue, chain[j].logged + 1)
           r == [chain[j] EXCEPT !.logged = n, !.queue = s]
<1>3. n \in Nat /\ s \in Seq(Nat)
  BY <1>2
<1>4. chain' = [chain EXCEPT ![j] = r]
  BY DEF Log
<1>5. r \in ChainRecord /\ r.lost = chain[j].lost /\ r.logged = n /\ r.queue = s
  <2> HIDE DEF n, s
  <2> QED BY <1>1, <1>3 DEF ChainRecord
<1>6. chain' \in [Job -> ChainRecord] /\ chain'[j].lost = chain[j].lost
        /\ chain'[j].logged = n /\ chain'[j].queue = s
        /\ \A i \in Job : i # j => chain'[i] = chain[i]
  <2> HIDE DEF r, n, s
  <2> QED BY <1>4, <1>5
<1>7. ASSUME Chunks(j) PROVE Chunks(j)'
  <2>1. InOrder(job[j].output, s, n)
    BY <1>1, <1>2, <1>7, AppendNext DEF Chunks
  <2> QED BY <1>6, <2>1 DEF Chunks
<1> QED BY <1>6, <1>7

-----------------------------------------------------------------------------
(* Steps inside a job.                                                     *)

\* A row that tells what it told, to those who do not ask for its tunnel or key.
SameRow(d) ==
  /\ row'[d].status = row[d].status
  /\ row'[d].overtaken = row[d].overtaken
  /\ row'[d].due = row[d].due

\* What a pipeline does to the rows of deployments: its own row is there
\* afterwards, and any other can only have been rolled back.
RowStep(p) ==
  \A d \in Job :
    \/ SameRow(d)
    \/ d = pipe[p].job /\ pipe[p].kind # "rollback" /\ row'[d].status # "absent"
    \/ row[d].status # "absent" /\ row'[d].status = "rolled_back"

\* A step inside a job keeps the invariant when its stage fits the row.
LEMMA LocalStep ==
  ASSUME JobsInv, JobsTypeOK', NEW p \in Pipeline,
         pipe[p].at \in Working, pipe'[p].at \in Working, pipe'[p].job = pipe[p].job,
         \A q \in Pipeline : q # p => pipe'[q] = pipe[q],
         job' = job, reader' = reader,
         chain' = chain \/ Log(pipe[p].job),
         RowStep(p), HasRow(p)'
  PROVE  JobsInv'
<1>1. PICK own \in Job : /\ own = pipe[p].job /\ job[own].status = "running"
                         /\ chain[own].lost \/ Chunks(own)
  BY DEF JobsInv, HasJob
<1>2. /\ chain'[own].lost = chain[own].lost
      /\ Chunks(own) => Chunks(own)'
      /\ \A i \in Job : i # own => chain'[i] = chain[i]
  <2>1. CASE chain' = chain
    BY <2>1 DEF Chunks
  <2>2. CASE Log(own)
    BY <1>1, <2>2, LogMoves, TypesByName DEF JobsInv
  <2> QED BY <1>1, <2>1, <2>2
<1>3. ASSUME NEW i \in Job, i # own
      PROVE  /\ Chunks(i) => Chunks(i)'
             /\ chain'[i] = chain[i]
             /\ \/ SameRow(i)
                \/ row[i].status # "absent" /\ row'[i].status = "rolled_back"
  <2>1. chain'[i] = chain[i]
    BY <1>2, <1>3
  <2>2. Chunks(i) => Chunks(i)'
    BY <2>1 DEF Chunks
  <2>3. \/ SameRow(i)
        \/ row[i].status # "absent" /\ row'[i].status = "rolled_back"
    BY <1>1, <1>3 DEF RowStep
  <2> QED BY <2>1, <2>2, <2>3
<1>4. \A q \in Pipeline : q # p => pipe[q].job # own
  BY <1>1 DEF JobsInv, OwnJobs
<1>5. ASSUME NEW q \in Pipeline PROVE HasJob(q)'
  <2>1. CASE q = p
    <3>1. pipe'[p].job = own /\ job'[own].status = "running"
      BY <1>1
    <3>2. chain'[own].lost \/ Chunks(own)'
      BY <1>1, <1>2
    <3>3. pipe'[p].at \notin {"idle", "creating", "starting"}
      BY DEF Working
    <3> QED BY <1>1, <2>1, <3>1, <3>2, <3>3 DEF HasJob
  <2>2. CASE q # p
    <3>1. HasJob(q) /\ pipe'[q] = pipe[q] /\ pipe[q].job # own
      BY <1>4, <2>2 DEF JobsInv
    <3> QED BY <1>3, <3>1 DEF HasJob
  <2> QED BY <2>1, <2>2
<1>6. OwnJobs'
  BY DEF JobsInv, OwnJobs
<1>7. ASSUME NEW q \in Pipeline PROVE HasRow(q)'
  <2>1. CASE q # p
    <3>1. HasRow(q) /\ HasJob(q) /\ pipe'[q] = pipe[q] /\ pipe[q].job # own
      BY <1>4, <2>1 DEF JobsInv
    <3>2. \A d \in Job : row[d].status # "absent" => row'[d].status # "absent"
      BY DEF RowStep, SameRow
    <3> DEFINE i == pipe[q].job
    <3>3. pipe[q].kind = "rollback" =>
            /\ pipe[q].row \in Job /\ row'[pipe[q].row].status # "absent"
            /\ i \in Job => row'[i].status = "absent"
      BY <1>3, <3>1, <3>2 DEF HasRow, SameRow
    <3>4. pipe[q].at \in WithRow \cup {"starting", "recording", "saving"} => i \in Job
      BY <3>1 DEF HasJob, WithRow, InTry, Working, Stage
    <3>5. pipe[q].kind # "rollback" =>
            /\ pipe[q].at \in {"starting", "recording"} => row'[i].status = "absent"
            /\ pipe[q].at \in WithRow => pipe[q].row = i /\ row'[i].status # "absent"
            /\ pipe[q].at = "saving" => Stands(i)'
      BY <1>3, <3>1, <3>4 DEF HasRow, Stands, SameRow
    <3> QED BY <3>1, <3>3, <3>5 DEF HasRow
  <2> QED BY <2>1
<1>8. ASSUME NEW i \in Job PROVE Kept(i)'
  <2>1. CASE i = own
    <3>1. Kept(own) /\ row'[own].status = "absent" => SameRow(own)
      BY DEF JobsInv, RowStep
    <3>2. row'[own].status = "absent" => row'[own].due = {}
      BY <3>1 DEF Kept, SameRow, JobsInv
    <3> QED BY <1>1, <2>1, <3>2 DEF Kept, Terminal
  <2>2. CASE i # own
    <3>1. Kept(i)
      BY DEF JobsInv
    <3> QED BY <1>3, <2>2, <3>1 DEF Kept, Terminal, Stands, SameRow
  <2> QED BY <2>1, <2>2
<1>9. ASSUME NEW r \in Reader PROVE Follows(r)'
  BY DEF JobsInv, Follows, Terminal
<1> QED BY <1>5, <1>6, <1>7, <1>8, <1>9 DEF JobsInv

\* What may fail, and what does not.
LEMMA FailsOrWorks ==
  ASSUME JobsTypeOK, Fails \/ Works
  PROVE  failures' \in 0..MaxFailures /\ orderly' \in BOOLEAN
<1>1. failures \in 0..MaxFailures /\ orderly \in BOOLEAN
  BY DEF JobsTypeOK
<1>2. CASE Fails
  <2>1. failures' \in 0..MaxFailures
    BY <1>1, <1>2, DeployJobsAssumption DEF Fails
  <2>2. orderly' \in BOOLEAN
    BY <1>2 DEF Fails
  <2> QED BY <2>1, <2>2
<1>3. CASE Works
  BY <1>1, <1>3 DEF Works
<1> QED BY <1>2, <1>3

\* The commonest step inside a job: the request goes to another stage.
LEMMA LocalGo ==
  ASSUME JobsInv, NEW p \in Pipeline, NEW stage \in Working,
         pipe[p].at \in Working, Go(p, stage), stage # "recording",
         job' = job, reader' = reader,
         chain' = chain \/ Log(pipe[p].job),
         row' \in [Job -> RowRecord], tunnel' \in [Job -> {"none", "up"}], Fails \/ Works,
         RowStep(p),
         stage \in NoRollback => pipe[p].kind # "rollback",
         stage = "unrolling" => pipe[p].kind = "rollback",
         pipe[p].kind # "rollback" =>
           /\ stage \in WithRow =>
                pipe[p].row = pipe[p].job /\ row'[pipe[p].job].status # "absent"
           /\ stage = "saving" => row'[pipe[p].job].status = "success"
  PROVE  JobsInv'
<1>1. /\ JobsTypeOK /\ HasJob(p) /\ HasRow(p)
      /\ job \in [Job -> JobRecord] /\ chain \in [Job -> ChainRecord]
      /\ pipe \in [Pipeline -> PipeRecord] /\ reader \in [Reader -> ReaderRecord]
  BY TypesByName DEF JobsInv
<1>2. stage \in Stage
  BY DEF Working
<1>3. /\ pipe' \in [Pipeline -> PipeRecord]
      /\ pipe'[p].at = stage
      /\ pipe'[p].kind = pipe[p].kind
      /\ pipe'[p].job = pipe[p].job
      /\ pipe'[p].row = pipe[p].row
      /\ \A q \in Pipeline : q # p => pipe'[q] = pipe[q]
  BY <1>1, <1>2, GoMoves
<1>4. pipe[p].job \in Job
  BY <1>1 DEF HasJob
<1>5. chain' \in [Job -> ChainRecord]
  BY <1>1, <1>4, LogMoves
<1>6. failures' \in 0..MaxFailures /\ orderly' \in BOOLEAN
  BY <1>1, FailsOrWorks
<1>7. JobsTypeOK'
  <2>1. job' \in [Job -> JobRecord] /\ reader' \in [Reader -> ReaderRecord]
    BY <1>1
  <2> QED BY <1>3, <1>5, <1>6, <2>1
           DEF JobsTypeOK, JobRecord, ChainRecord, PipeRecord, RowRecord, ReaderRecord
<1>8. HasRow(p)'
  <2>1. pipe[p].kind \in {"deploy", "build", "rollback"} /\ stage # "starting"
    BY <1>1 DEF HasRow, Working
  <2>2. ASSUME pipe[p].kind = "rollback"
        PROVE  /\ pipe[p].row \in Job /\ row'[pipe[p].row].status # "absent"
               /\ row'[pipe[p].job].status = "absent"
    BY <1>1, <1>4, <2>2 DEF HasRow, RowStep, SameRow
  <2> QED BY <1>3, <1>4, <2>1, <2>2 DEF HasRow, Stands
<1> QED BY <1>3, <1>7, <1>8, LocalStep

\* A step that writes the status of the request's own deployment.
LEMMA OwnRow ==
  ASSUME JobsInv, NEW p \in Pipeline, pipe[p].at \in Working,
         pipe[p].kind # "rollback", pipe[p].row = pipe[p].job,
         NEW status \in {"building", "deploying", "success", "failed", "rolled_back"},
         SetRow(pipe[p].row, status)
  PROVE  /\ row' \in [Job -> RowRecord]
         /\ row'[pipe[p].job].status = status
         /\ RowStep(p)
<1>1. row \in [Job -> RowRecord] /\ pipe[p].job \in Job
  BY TypesByName DEF JobsInv, HasJob
<1>2. /\ row' \in [Job -> RowRecord]
      /\ row'[pipe[p].job].status = status
      /\ \A e \in Job : e # pipe[p].job => row'[e] = row[e]
  BY <1>1, SetRowMoves
<1> QED BY <1>1, <1>2 DEF RowStep, SameRow

\* The stages of a pipeline, up to the end of the try block.
LEMMA TryKeeps ==
  ASSUME JobsInv, NEW p \in Pipeline,
         \/ Provision(p) \/ Prepare(p) \/ Build(p) \/ Deploy(p) \/ Throws(p)
         \/ ThrowsLate(p) \/ ClearTunnel(p) \/ OpenTunnel(p) \/ SkipTunnel(p)
         \/ NoteTunnel(p) \/ Conclude(p) \/ Rollback(p)
  PROVE  JobsInv'
<1>1. /\ JobsTypeOK /\ HasJob(p) /\ HasRow(p)
      /\ row \in [Job -> RowRecord] /\ tunnel \in [Job -> {"none", "up"}]
  BY TypesByName DEF JobsInv
<1>2. UNCHANGED row => row' \in [Job -> RowRecord] /\ RowStep(p)
  BY <1>1 DEF RowStep, SameRow
<1>3. UNCHANGED tunnel => tunnel' \in [Job -> {"none", "up"}]
  BY <1>1
<1>4. UNCHANGED <<failures, orderly>> => Fails \/ Works
  BY DEF Works
<1>5. pipe[p].at \in WithRow /\ pipe[p].kind # "rollback" =>
        pipe[p].row = pipe[p].job /\ row[pipe[p].job].status # "absent"
  BY <1>1 DEF HasRow
<1>6. pipe[p].at \in NoRollback => pipe[p].kind # "rollback"
  BY <1>1 DEF HasRow
<1> USE DEF Working, Stage, InTry, NoRollback, WithRow, rowVars
<1>7. CASE Provision(p)
  <2>1. pipe[p].at = "provisioning" /\ pipe[p].kind # "rollback"
    BY <1>6, <1>7 DEF Provision
  <2>2. CASE Go(p, "preparing")
    BY <1>2, <1>3, <1>4, <1>5, <1>7, <2>1, <2>2, LocalGo DEF Provision
  <2>3. CASE Go(p, "erring")
    BY <1>2, <1>3, <1>4, <1>7, <2>1, <2>3, LocalGo DEF Provision
  <2> QED BY <1>7, <2>2, <2>3 DEF Provision
<1>8. CASE Prepare(p)
  <2>1. pipe[p].at = "preparing"
    BY <1>8 DEF Prepare
  <2>2. CASE pipe[p].kind = "rollback"
    <3>1. Go(p, "unrolling")
      BY <1>8, <2>2 DEF Prepare
    <3> QED BY <1>2, <1>3, <1>4, <1>8, <2>1, <2>2, <3>1, LocalGo DEF Prepare
  <2>3. CASE pipe[p].kind # "rollback"
    <3>1. Go(p, "building")
      BY <1>8, <2>3 DEF Prepare
    <3> QED BY <1>2, <1>3, <1>4, <1>5, <1>8, <2>1, <2>3, <3>1, LocalGo DEF Prepare
  <2> QED BY <2>2, <2>3
<1>9. CASE Build(p)
  <2>1. pipe[p].at = "building" /\ pipe[p].kind # "rollback"
    BY <1>6, <1>9 DEF Build
  <2>2. /\ pipe[p].row = pipe[p].job /\ row' \in [Job -> RowRecord] /\ RowStep(p)
        /\ row'[pipe[p].job].status = "building"
    BY <1>5, <1>9, <2>1, OwnRow DEF Build
  <2>3. CASE Go(p, "deploying")
    BY <1>3, <1>4, <1>9, <2>1, <2>2, <2>3, LocalGo DEF Build
  <2>4. CASE Go(p, "concluding")
    BY <1>3, <1>4, <1>9, <2>1, <2>2, <2>4, LocalGo DEF Build
  <2> QED BY <1>9, <2>3, <2>4 DEF Build
<1>10. CASE Deploy(p)
  <2>1. pipe[p].at = "deploying" /\ pipe[p].kind # "rollback"
    BY <1>6, <1>10 DEF Deploy
  <2>2. /\ pipe[p].row = pipe[p].job /\ row' \in [Job -> RowRecord] /\ RowStep(p)
        /\ row'[pipe[p].job].status = "deploying"
    BY <1>5, <1>10, <2>1, OwnRow DEF Deploy
  <2>3. CASE Go(p, "clearing")
    BY <1>3, <1>4, <1>10, <2>1, <2>2, <2>3, LocalGo DEF Deploy
  <2>4. CASE Go(p, "concluding")
    BY <1>3, <1>4, <1>10, <2>1, <2>2, <2>4, LocalGo DEF Deploy
  <2> QED BY <1>10, <2>3, <2>4 DEF Deploy
<1>11. CASE Throws(p)
  <2>1. pipe[p].at \in InTry /\ Go(p, "failing")
    BY <1>11 DEF Throws
  <2> QED BY <1>2, <1>3, <1>4, <1>5, <1>11, <2>1, LocalGo DEF Throws
<1>12. CASE ThrowsLate(p)
  <2>1. pipe[p].at \in InTry /\ Go(p, "failing")
    BY <1>12 DEF ThrowsLate
  <2> QED BY <1>2, <1>3, <1>5, <1>12, <2>1, LocalGo DEF ThrowsLate
<1>13. CASE ClearTunnel(p)
  <2>1. pipe[p].at = "clearing" /\ pipe[p].kind # "rollback" /\ Go(p, "tunnelling")
    BY <1>6, <1>13 DEF ClearTunnel
  <2>2. tunnel' \in [Job -> {"none", "up"}]
    BY <1>1, <1>3, <1>13 DEF ClearTunnel
  <2>3. Fails \/ Works
    BY <1>13 DEF ClearTunnel
  <2> QED BY <1>2, <1>5, <1>13, <2>1, <2>2, <2>3, LocalGo DEF ClearTunnel
<1>14. CASE OpenTunnel(p)
  <2>1. pipe[p].at = "tunnelling" /\ pipe[p].kind # "rollback"
    BY <1>6, <1>14 DEF OpenTunnel
  <2>2. tunnel' \in [Job -> {"none", "up"}]
    BY <1>1, <1>14 DEF OpenTunnel
  <2>3. Fails \/ Works
    BY <1>14 DEF OpenTunnel
  <2>4. CASE Go(p, "noting")
    BY <1>2, <1>5, <1>14, <2>1, <2>2, <2>3, <2>4, LocalGo DEF OpenTunnel
  <2>5. CASE Go(p, "failing")
    BY <1>2, <1>5, <1>14, <2>1, <2>2, <2>3, <2>5, LocalGo DEF OpenTunnel
  <2> QED BY <1>14, <2>4, <2>5 DEF OpenTunnel
<1>15. CASE SkipTunnel(p)
  <2>1. pipe[p].at = "tunnelling" /\ pipe[p].kind # "rollback" /\ Go(p, "concluding")
    BY <1>6, <1>15 DEF SkipTunnel
  <2> QED BY <1>2, <1>3, <1>4, <1>5, <1>15, <2>1, LocalGo DEF SkipTunnel
<1>16. CASE NoteTunnel(p)
  <2>1. pipe[p].at = "noting" /\ pipe[p].kind # "rollback" /\ Go(p, "concluding")
    BY <1>6, <1>16 DEF NoteTunnel
  <2>2. PICK d \in Job : d = pipe[p].row
    BY <1>1, <1>5, <2>1 DEF HasJob
  <2> DEFINE r == [row[d] EXCEPT !.noted = TRUE]
  <2>3. /\ r \in RowRecord /\ r.status = row[d].status
        /\ r.overtaken = row[d].overtaken /\ r.due = row[d].due
    BY <1>1 DEF RowRecord
  <2>4. row' = [row EXCEPT ![d] = r]
    BY <1>16, <2>2 DEF NoteTunnel
  <2> HIDE DEF r
  <2>5. /\ row' \in [Job -> RowRecord]
        /\ \A e \in Job : SameRow(e)
    BY <1>1, <2>3, <2>4 DEF SameRow
  <2>6. RowStep(p)
    BY <2>5 DEF RowStep
  <2>7. row'[pipe[p].job].status # "absent"
    BY <1>1, <1>5, <2>1, <2>5 DEF HasJob, SameRow
  <2> QED BY <1>3, <1>4, <1>5, <1>16, <2>1, <2>5, <2>6, <2>7, LocalGo DEF NoteTunnel
<1>17. CASE Conclude(p)
  <2>1. pipe[p].at = "concluding" /\ pipe[p].kind # "rollback" /\ Go(p, "saving")
    BY <1>6, <1>17 DEF Conclude
  <2>2. /\ pipe[p].row = pipe[p].job /\ row' \in [Job -> RowRecord] /\ RowStep(p)
        /\ row'[pipe[p].job].status = "success"
    BY <1>5, <1>17, <2>1, OwnRow DEF Conclude
  <2>3. chain' = chain \/ Log(pipe[p].job)
    BY <1>17 DEF Conclude
  <2> QED BY <1>3, <1>4, <1>17, <2>1, <2>2, <2>3, LocalGo DEF Conclude
<1>18. CASE Rollback(p)
  <2>1. pipe[p].at = "unrolling" /\ pipe[p].kind = "rollback" /\ Go(p, "saving")
    BY <1>1, <1>18 DEF Rollback, HasRow
  <2>2. pipe[p].row \in Job /\ row[pipe[p].row].status # "absent"
    BY <1>1, <2>1 DEF HasRow
  <2>3. SetRow(pipe[p].row, "rolled_back")
    BY <1>18 DEF Rollback
  <2>4. /\ row' \in [Job -> RowRecord] /\ row'[pipe[p].row].status = "rolled_back"
        /\ \A e \in Job : e # pipe[p].row => row'[e] = row[e]
    BY <1>1, <2>2, <2>3, SetRowMoves
  <2>5. RowStep(p)
    BY <2>2, <2>4 DEF RowStep, SameRow
  <2> QED BY <1>3, <1>4, <1>18, <2>1, <2>4, <2>5, LocalGo DEF Rollback
<1> QED BY <1>7, <1>8, <1>9, <1>10, <1>11, <1>12, <1>13, <1>14, <1>15, <1>16, <1>17, <1>18

\* The row of a deploy or a build is created.
LEMMA RecordRowKeeps ==
  ASSUME JobsInv, NEW p \in Pipeline, RecordRow(p)
  PROVE  JobsInv'
<1>1. /\ JobsTypeOK /\ HasRow(p) /\ pipe[p].at = "recording" /\ pipe[p].kind # "rollback"
      /\ job \in [Job -> JobRecord] /\ chain \in [Job -> ChainRecord]
      /\ row \in [Job -> RowRecord] /\ reader \in [Reader -> ReaderRecord]
      /\ pipe \in [Pipeline -> PipeRecord] /\ tunnel \in [Job -> {"none", "up"}]
  BY TypesByName DEF JobsInv, RecordRow, HasRow, NoRollback
<1>2. PICK own \in Job : own = pipe[p].job
  BY <1>1 DEF JobsInv, HasJob, Working, Stage
<1>3. ASSUME Fails, Go(p, "erring"), UNCHANGED row PROVE JobsInv'
  <2>1. RowStep(p)
    BY <1>3 DEF RowStep, SameRow
  <2> QED BY <1>1, <1>3, <2>1, LocalGo
          DEF RecordRow, Working, Stage, InTry, NoRollback, WithRow
<1>4. ASSUME NEW rank \in Nat, Works,
             row' = [row EXCEPT ![own] =
                      [status |-> "running", key |-> pipe[p].key, recent |-> TRUE,
                       noted |-> FALSE, due |-> {}, overtaken |-> FALSE, rank |-> rank]],
             pipe' = [pipe EXCEPT ![p].row = own, ![p].at = "provisioning"]
      PROVE  JobsInv'
  <2>1. pipe[p] \in PipeRecord
    BY <1>1
  <2> DEFINE r == [pipe[p] EXCEPT !.row = own, !.at = "provisioning"]
  <2>2. /\ r \in PipeRecord /\ r.at = "provisioning" /\ r.row = own
        /\ r.job = pipe[p].job /\ r.kind = pipe[p].kind
    BY <2>1 DEF PipeRecord, Stage
  <2>3. pipe' = [pipe EXCEPT ![p] = r]
    BY <1>4
  <2> HIDE DEF r
  <2>4. /\ pipe' \in [Pipeline -> PipeRecord] /\ pipe'[p] = r
        /\ \A q \in Pipeline : q # p => pipe'[q] = pipe[q]
    BY <1>1, <2>2, <2>3, PutMoves
  <2> DEFINE n == [status |-> "running", key |-> pipe[p].key, recent |-> TRUE,
                   noted |-> FALSE, due |-> {}, overtaken |-> FALSE, rank |-> rank]
  <2>5. n \in RowRecord /\ n.status = "running"
    BY <2>1 DEF RowRecord, PipeRecord
  <2>6. row' = [row EXCEPT ![own] = n]
    BY <1>4
  <2> HIDE DEF n
  <2>7. /\ row' \in [Job -> RowRecord] /\ row'[own].status = "running"
        /\ \A e \in Job : e # own => row'[e] = row[e]
    BY <1>1, <2>5, <2>6
  <2>8. RowStep(p)
    BY <1>1, <1>2, <2>7 DEF RowStep, SameRow
  <2>9. HasRow(p)'
    BY <1>1, <1>2, <2>2, <2>4, <2>7 DEF HasRow, NoRollback, WithRow
  <2>10. failures' \in 0..MaxFailures /\ orderly' \in BOOLEAN
    BY <1>1, <1>4, FailsOrWorks
  <2>11. UNCHANGED <<job, chain, tunnel, reader>>
    BY DEF RecordRow
  <2>12. JobsTypeOK'
    <3>1. /\ job' \in [Job -> JobRecord] /\ chain' \in [Job -> ChainRecord]
          /\ tunnel' \in [Job -> {"none", "up"}] /\ reader' \in [Reader -> ReaderRecord]
      BY <1>1, <2>11
    <3> QED BY <2>4, <2>7, <2>10, <3>1
            DEF JobsTypeOK, JobRecord, ChainRecord, PipeRecord, RowRecord, ReaderRecord
  <2> QED BY <1>1, <1>2, <2>2, <2>4, <2>8, <2>9, <2>11, <2>12, LocalStep DEF Working, Stage, InTry
<1>5. Cardinality({d \in Job : row[d].status # "absent"}) \in Nat
  <2>1. IsFiniteSet({d \in Job : row[d].status # "absent"})
    BY DeployJobsAssumption, FS_Subset
  <2> QED BY <2>1, FS_CardinalityType
<1>6. 1 + Cardinality({d \in Job : row[d].status # "absent"}) \in Nat
  BY <1>5
<1> QED BY <1>2, <1>3, <1>4, <1>6 DEF RecordRow

\* The catch block, and the last chunk of a job that failed.
LEMMA ErringKeeps ==
  ASSUME JobsInv, NEW p \in Pipeline, FailRow(p) \/ LogError(p)
  PROVE  JobsInv'
<1>1. /\ JobsTypeOK /\ HasRow(p) /\ row \in [Job -> RowRecord]
      /\ tunnel \in [Job -> {"none", "up"}]
  BY TypesByName DEF JobsInv
<1>2. UNCHANGED row => row' \in [Job -> RowRecord] /\ RowStep(p)
  BY <1>1 DEF RowStep, SameRow
<1> USE DEF Working, Stage, InTry, NoRollback, WithRow, rowVars
<1>3. CASE LogError(p)
  <2>1. UNCHANGED <<failures, orderly>> => Works
    BY DEF Works
  <2> QED BY <1>1, <1>2, <1>3, <2>1, LocalGo DEF LogError
<1>4. CASE FailRow(p)
  <2>1. pipe[p].at = "failing" /\ Go(p, "erring")
    BY <1>4 DEF FailRow
  <2>2. CASE UNCHANGED row
    BY <1>1, <1>2, <1>4, <2>1, <2>2, LocalGo DEF FailRow
  <2>3. CASE pipe[p].kind # "rollback" /\ SetRow(pipe[p].row, "failed")
    <3>1. row' \in [Job -> RowRecord] /\ RowStep(p)
      BY <1>1, <2>1, <2>3, OwnRow DEF HasRow
    <3> QED BY <1>1, <1>4, <2>1, <2>3, <3>1, LocalGo DEF FailRow
  <2> QED BY <1>4, <2>2, <2>3 DEF FailRow
<1> QED BY <1>3, <1>4

-----------------------------------------------------------------------------
(* The ends of a job.                                                      *)

\* A request that comes to rest, or starts afresh, has no job.
LEMMA FreshKeeps ==
  ASSUME JobsInv, NEW p \in Pipeline, NEW r \in PipeRecord,
         pipe' = [pipe EXCEPT ![p] = r],
         r.job = NoJob, r.at \in {"idle", "creating"},
         r.at = "creating" => r.kind # "none",
         r.kind = "rollback" => r.row \in Job /\ row[r.row].status # "absent",
         UNCHANGED <<job, chain, row, reader>>,
         tunnel' \in [Job -> {"none", "up"}],
         failures' \in 0..MaxFailures, orderly' \in BOOLEAN
  PROVE  JobsInv'
<1>1. /\ job \in [Job -> JobRecord] /\ chain \in [Job -> ChainRecord]
      /\ row \in [Job -> RowRecord] /\ reader \in [Reader -> ReaderRecord]
      /\ pipe \in [Pipeline -> PipeRecord]
  BY TypesByName DEF JobsInv
<1>2. /\ pipe' \in [Pipeline -> PipeRecord] /\ pipe'[p] = r
      /\ \A q \in Pipeline : q # p => pipe'[q] = pipe[q]
  BY <1>1, PutMoves
<1>3. JobsTypeOK'
  <2>1. /\ job' \in [Job -> JobRecord] /\ chain' \in [Job -> ChainRecord]
        /\ row' \in [Job -> RowRecord] /\ reader' \in [Reader -> ReaderRecord]
    BY <1>1
  <2> QED BY <1>2, <2>1
           DEF JobsTypeOK, JobRecord, ChainRecord, PipeRecord, RowRecord, ReaderRecord
<1>4. ASSUME NEW q \in Pipeline PROVE HasJob(q)' /\ HasRow(q)'
  <2>1. CASE q = p
    <3>1. r.kind \in {"none", "deploy", "build", "rollback"}
      BY DEF PipeRecord
    <3> QED BY <1>2, <2>1, <3>1, DeployJobsAssumption
            DEF HasJob, HasRow, Working, NoRollback, WithRow, InTry
  <2>2. CASE q # p
    <3>1. HasJob(q) /\ HasRow(q) /\ pipe'[q] = pipe[q]
      BY <1>2, <2>2 DEF JobsInv
    <3>2. HasJob(q)'
      BY <3>1 DEF HasJob, Chunks
    <3>3. HasRow(q)'
      BY <3>1 DEF HasRow, Stands
    <3> QED BY <3>2, <3>3
  <2> QED BY <2>1, <2>2
<1>5. OwnJobs'
  BY <1>2, DeployJobsAssumption DEF JobsInv, OwnJobs
<1>6. ASSUME NEW j \in Job PROVE Kept(j)'
  BY DEF JobsInv, Kept, Terminal, Chunks, Stands
<1>7. ASSUME NEW q \in Reader PROVE Follows(q)'
  BY DEF JobsInv, Follows, Terminal
<1> QED BY <1>3, <1>4, <1>5, <1>6, <1>7 DEF JobsInv

\* A request that rests.
LEMMA RestKeeps ==
  ASSUME JobsInv, NEW p \in Pipeline, pipe' = [pipe EXCEPT ![p] = Resting],
         UNCHANGED <<job, chain, row, tunnel, reader>>, Fails \/ Works
  PROVE  JobsInv'
<1>1. failures' \in 0..MaxFailures /\ orderly' \in BOOLEAN
  BY FailsOrWorks DEF JobsInv
<1>2. tunnel' \in [Job -> {"none", "up"}]
  BY TypesByName DEF JobsInv
<1>3. /\ Resting \in PipeRecord /\ Resting.job = NoJob /\ Resting.at = "idle"
      /\ Resting.kind = "none"
  BY DEF Resting, PipeRecord, Stage
<1> QED BY <1>1, <1>2, <1>3, FreshKeeps

\* A request arrives.
LEMMA BeginKeeps ==
  ASSUME JobsInv, NEW p \in Pipeline,
         \/ BeginBuild(p)
         \/ \E k \in DeployKey, preview \in BOOLEAN : BeginDeploy(p, k, preview)
         \/ \E d \in Job : BeginRollback(p, d)
  PROVE  JobsInv'
<1>1. /\ JobsTypeOK /\ tunnel \in [Job -> {"none", "up"}]
      /\ failures \in 0..MaxFailures /\ orderly \in BOOLEAN
  BY TypesByName DEF JobsInv
<1>2. ASSUME BeginBuild(p) PROVE JobsInv'
  <2> DEFINE r == [Resting EXCEPT !.at = "creating", !.kind = "build"]
  <2>1. r \in PipeRecord /\ r.job = NoJob /\ r.at = "creating" /\ r.kind = "build"
    BY DEF Resting, PipeRecord, Stage
  <2>2. pipe' = [pipe EXCEPT ![p] = r]
    BY <1>2 DEF BeginBuild
  <2> HIDE DEF r
  <2> QED BY <1>1, <1>2, <2>1, <2>2, FreshKeeps DEF BeginBuild, rowVars
<1>3. ASSUME NEW k \in DeployKey, NEW preview \in BOOLEAN, BeginDeploy(p, k, preview)
      PROVE  JobsInv'
  <2> DEFINE r == [Resting EXCEPT !.at = "creating", !.kind = "deploy", !.key = k,
                                  !.preview = preview]
  <2>1. r \in PipeRecord /\ r.job = NoJob /\ r.at = "creating" /\ r.kind = "deploy"
    BY DEF Resting, PipeRecord, Stage
  <2>2. pipe' = [pipe EXCEPT ![p] = r]
    BY <1>3 DEF BeginDeploy
  <2>3. orderly' \in BOOLEAN
    BY <1>1, <1>3 DEF BeginDeploy
  <2> HIDE DEF r
  <2> QED BY <1>1, <1>3, <2>1, <2>2, <2>3, FreshKeeps DEF BeginDeploy, rowVars
<1>4. ASSUME NEW d \in Job, BeginRollback(p, d) PROVE JobsInv'
  <2> DEFINE r == [Resting EXCEPT !.at = "creating", !.kind = "rollback", !.row = d]
  <2>1. /\ r \in PipeRecord /\ r.job = NoJob /\ r.at = "creating" /\ r.kind = "rollback"
        /\ r.row = d
    BY DEF Resting, PipeRecord, Stage
  <2>2. pipe' = [pipe EXCEPT ![p] = r] /\ row[d].status # "absent"
    BY <1>4 DEF BeginRollback
  <2>3. Fails \/ Works
    BY <1>4 DEF BeginRollback
  <2>4. tunnel' \in [Job -> {"none", "up"}]
    BY <1>1, <1>4 DEF BeginRollback
  <2>5. failures' \in 0..MaxFailures /\ orderly' \in BOOLEAN
    BY <1>1, <2>3, FailsOrWorks
  <2> HIDE DEF r
  <2> QED BY <1>4, <2>1, <2>2, <2>4, <2>5, FreshKeeps DEF BeginRollback
<1> QED BY <1>2, <1>3, <1>4

\* A status that is written into a job leaves its output.
LEMMA JobStatusMoves ==
  ASSUME job \in [Job -> JobRecord], NEW j \in Job,
         NEW status \in {"pending", "running", "success", "failed"},
         job' = [job EXCEPT ![j].status = status]
  PROVE  /\ job' \in [Job -> JobRecord]
         /\ job'[j].status = status
         /\ \A i \in Job : i # j => job'[i] = job[i]
         /\ \A i \in Job : job'[i].output = job[i].output
<1>1. job[j] \in JobRecord
  OBVIOUS
<1> DEFINE r == [job[j] EXCEPT !.status = status]
<1>2. r \in JobRecord /\ r.status = status /\ r.output = job[j].output
  BY <1>1 DEF JobRecord
<1>3. job' = [job EXCEPT ![j] = r]
  OBVIOUS
<1> HIDE DEF r
<1> QED BY <1>2, <1>3

\* A request that changes the status of the job it has, or that no request has.
LEMMA StatusKeeps ==
  ASSUME JobsInv, NEW p \in Pipeline, NEW r \in PipeRecord, NEW j \in Job,
         NEW status \in {"pending", "running", "success", "failed"},
         ~Terminal(j),
         \A q \in Pipeline : q # p => pipe[q].job # j,
         job' = [job EXCEPT ![j].status = status],
         pipe' = [pipe EXCEPT ![p] = r],
         UNCHANGED <<chain, row, tunnel, reader>>,
         Fails \/ Works \/ UNCHANGED <<failures, orderly>>,
         r.job \in {j, NoJob},
         HasJob(p)', HasRow(p)', Kept(j)'
  PROVE  JobsInv'
<1>1. /\ job \in [Job -> JobRecord] /\ chain \in [Job -> ChainRecord]
      /\ row \in [Job -> RowRecord] /\ reader \in [Reader -> ReaderRecord]
      /\ pipe \in [Pipeline -> PipeRecord] /\ tunnel \in [Job -> {"none", "up"}]
      /\ JobsTypeOK
  BY TypesByName DEF JobsInv
<1>2. /\ pipe' \in [Pipeline -> PipeRecord] /\ pipe'[p] = r
      /\ \A q \in Pipeline : q # p => pipe'[q] = pipe[q]
  BY <1>1, PutMoves
<1>3. /\ job' \in [Job -> JobRecord]
      /\ job'[j].status = status
      /\ \A i \in Job : i # j => job'[i] = job[i]
      /\ \A i \in Job : job'[i].output = job[i].output
  BY <1>1, JobStatusMoves
<1>4. JobsTypeOK'
  <2>1. /\ chain' \in [Job -> ChainRecord] /\ row' \in [Job -> RowRecord]
        /\ reader' \in [Reader -> ReaderRecord] /\ tunnel' \in [Job -> {"none", "up"}]
    BY <1>1
  <2>2. failures' \in 0..MaxFailures /\ orderly' \in BOOLEAN
    BY <1>1, FailsOrWorks DEF Works
  <2> QED BY <1>2, <1>3, <2>1, <2>2
           DEF JobsTypeOK, JobRecord, ChainRecord, PipeRecord, RowRecord, ReaderRecord
<1>5. ASSUME NEW i \in Job PROVE Chunks(i) => Chunks(i)'
  <2>1. job'[i].output = job[i].output
    BY <1>3
  <2> QED BY <2>1 DEF Chunks
<1>6. ASSUME NEW q \in Pipeline PROVE HasJob(q)' /\ HasRow(q)'
  <2>1. CASE q = p
    BY <2>1
  <2>2. CASE q # p
    <3>1. HasJob(q) /\ HasRow(q) /\ pipe'[q] = pipe[q] /\ pipe[q].job # j
      BY <1>2, <2>2 DEF JobsInv
    <3>2. HasJob(q)'
      BY <1>3, <1>5, <3>1 DEF HasJob
    <3>3. HasRow(q)'
      BY <3>1 DEF HasRow, Stands
    <3> QED BY <3>2, <3>3
  <2> QED BY <2>1, <2>2
<1>7. OwnJobs'
  BY <1>2, DeployJobsAssumption DEF JobsInv, OwnJobs
<1>8. ASSUME NEW i \in Job PROVE Kept(i)'
  <2>1. CASE i = j
    BY <2>1
  <2>2. CASE i # j
    <3>1. Kept(i) /\ job'[i] = job[i]
      BY <1>3, <2>2 DEF JobsInv
    <3> QED BY <1>5, <3>1 DEF Kept, Terminal, Stands
  <2> QED BY <2>1, <2>2
<1>9. ASSUME NEW q \in Reader PROVE Follows(q)'
  <2>1. Follows(q) /\ reader[q].job \in Job \cup {NoJob}
    BY <1>1 DEF JobsInv, ReaderRecord
  <2>2. reader[q].job \in Job =>
          /\ job'[reader[q].job].output = job[reader[q].job].output
          /\ Terminal(reader[q].job) => job'[reader[q].job] = job[reader[q].job]
    BY <1>3
  <2> QED BY <2>1, <2>2 DEF Follows, Terminal
<1> QED BY <1>4, <1>6, <1>7, <1>8, <1>9 DEF JobsInv

\* A job is created and started.
LEMMA StartKeeps ==
  ASSUME JobsInv, NEW p \in Pipeline, CreateJob(p) \/ StartJob(p)
  PROVE  JobsInv'
<1>1. /\ JobsTypeOK /\ HasJob(p) /\ HasRow(p)
      /\ job \in [Job -> JobRecord] /\ chain \in [Job -> ChainRecord]
      /\ pipe \in [Pipeline -> PipeRecord]
  BY TypesByName DEF JobsInv
<1>2. pipe[p] \in PipeRecord
  BY <1>1
<1>3. ASSUME CreateJob(p) PROVE JobsInv'
  <2>1. PICK j \in Job :
          /\ job[j].status = "absent"
          /\ job' = [job EXCEPT ![j].status = "pending"]
          /\ pipe' = [pipe EXCEPT ![p].at = "starting", ![p].job = j]
    BY <1>3 DEF CreateJob
  <2> DEFINE r == [pipe[p] EXCEPT !.at = "starting", !.job = j]
  <2>2. /\ r \in PipeRecord /\ r.at = "starting" /\ r.job = j
        /\ r.kind = pipe[p].kind /\ r.row = pipe[p].row
    BY <1>2 DEF PipeRecord, Stage
  <2>3. pipe' = [pipe EXCEPT ![p] = r]
    BY <2>1
  <2> HIDE DEF r
  <2>4. pipe'[p] = r
    BY <1>1, <2>3
  <2>5. \A q \in Pipeline : q # p => pipe[q].job # j
    <3>1. ASSUME NEW q \in Pipeline PROVE pipe[q].job # j
      <4>1. HasJob(q) /\ pipe[q] \in PipeRecord
        BY <1>1 DEF JobsInv
      <4> QED BY <2>1, <4>1, DeployJobsAssumption DEF HasJob, Working, PipeRecord
    <3> QED BY <3>1
  <2>6. chain[j] = NoChain /\ job[j].output = <<>> /\ row[j].status = "absent"
    BY <2>1 DEF JobsInv, Kept
  <2>7. UNCHANGED <<chain, row, tunnel, reader, failures, orderly>>
    BY <1>3 DEF CreateJob, rowVars
  <2>8. job'[j].status = "pending" /\ job'[j].output = <<>>
    BY <1>1, <2>1, <2>6, JobStatusMoves
  <2>9. HasJob(p)'
    BY <2>2, <2>4, <2>8 DEF HasJob, Working
  <2>10. HasRow(p)'
    <3>1. pipe[p].at = "creating" /\ pipe[p].kind \in {"deploy", "build", "rollback"}
      BY <1>1, <1>3 DEF CreateJob, HasRow
    <3>2. pipe[p].kind = "rollback" => pipe[p].row \in Job /\ row[pipe[p].row].status # "absent"
      BY <1>1 DEF HasRow
    <3> QED BY <2>2, <2>4, <2>6, <2>7, <3>1, <3>2 DEF HasRow, NoRollback, WithRow, InTry
  <2>11. Kept(j)'
    <3>1. row'[j] = row[j] /\ Kept(j)
      BY <2>7 DEF JobsInv
    <3> QED BY <2>6, <2>7, <2>8, <3>1 DEF Kept, Terminal
  <2> QED BY <2>1, <2>2, <2>3, <2>5, <2>7, <2>9, <2>10, <2>11, StatusKeeps DEF Terminal
<1>4. ASSUME StartJob(p) PROVE JobsInv'
  <2>1. PICK j \in Job : j = pipe[p].job /\ job[j].status = "pending"
    BY <1>1, <1>4 DEF StartJob, HasJob
  <2>2. UNCHANGED <<chain, row, tunnel, reader>> /\ pipe[p].at = "starting"
    BY <1>4 DEF StartJob, rowVars
  <2>3. ASSUME Fails, pipe' = [pipe EXCEPT ![p] = Resting], UNCHANGED job PROVE JobsInv'
    BY <2>2, <2>3, RestKeeps
  <2>4. ASSUME NEW stage \in {"preparing", "recording"}, Go(p, stage), Works,
               (stage = "preparing") <=> (pipe[p].kind = "rollback"),
               job' = [job EXCEPT ![j].status = "running"]
        PROVE  JobsInv'
    <3> DEFINE r == [pipe[p] EXCEPT !.at = stage]
    <3>1. /\ r \in PipeRecord /\ r.at = stage /\ r.job = j
          /\ r.kind = pipe[p].kind /\ r.row = pipe[p].row
      BY <1>2, <2>1, <2>4 DEF PipeRecord, Stage, InTry
    <3>2. pipe' = [pipe EXCEPT ![p] = r]
      BY <2>4 DEF Go
    <3> HIDE DEF r
    <3>3. pipe'[p] = r
      BY <1>1, <3>2
    <3>4. \A q \in Pipeline : q # p => pipe[q].job # j
      BY <2>1 DEF JobsInv, OwnJobs
    <3>5. chain[j] = NoChain /\ job[j].output = <<>> /\ row[j].status = "absent"
      BY <2>1 DEF JobsInv, Kept
    <3>6. job'[j].status = "running" /\ job'[j].output = <<>>
      BY <1>1, <2>4, <3>5, JobStatusMoves
    <3>7. chain'[j] = NoChain
      BY <2>2, <3>5
    <3>10. Chunks(j)'
      BY <3>6, <3>7 DEF Chunks, InOrder, NoChain
    <3>11. HasJob(p)'
      BY <2>4, <3>1, <3>3, <3>6, <3>10 DEF HasJob
    <3>12. HasRow(p)'
      <4>1. pipe[p].kind \in {"deploy", "build", "rollback"}
        BY <1>1, <2>2 DEF HasRow
      <4>2. pipe[p].kind = "rollback" =>
              pipe[p].row \in Job /\ row[pipe[p].row].status # "absent"
        BY <1>1 DEF HasRow
      <4> QED BY <2>2, <2>4, <3>1, <3>3, <3>5, <4>1, <4>2 DEF HasRow, NoRollback, WithRow, InTry
    <3>13. Kept(j)'
      <4>1. row'[j] = row[j] /\ Kept(j)
        BY <2>2 DEF JobsInv
      <4> QED BY <3>6, <4>1 DEF Kept, Terminal
    <3> QED BY <2>1, <2>2, <2>4, <3>1, <3>2, <3>4, <3>11, <3>12, <3>13, StatusKeeps DEF Terminal
  <2> QED BY <1>4, <2>1, <2>3, <2>4 DEF StartJob
<1> QED BY <1>3, <1>4

\* A job is ended, when the chain has nothing left to write.
LEMMA SettleKeeps ==
  ASSUME JobsInv, NEW p \in Pipeline, NEW status \in {"success", "failed"},
         pipe[p].at \in Working, Settle(p, status), chain[pipe[p].job].queue = <<>>,
         UNCHANGED <<chain, row, tunnel, reader>>,
         status = "success" => pipe[p].at = "saving" /\ ~chain[pipe[p].job].lost
  PROVE  JobsInv'
<1>1. /\ JobsTypeOK /\ HasJob(p) /\ HasRow(p)
      /\ job \in [Job -> JobRecord] /\ pipe \in [Pipeline -> PipeRecord]
      /\ row \in [Job -> RowRecord] /\ chain \in [Job -> ChainRecord]
  BY TypesByName DEF JobsInv
<1>2. PICK j \in Job : /\ j = pipe[p].job /\ job[j].status = "running"
                       /\ chain[j].lost \/ Chunks(j)
  BY <1>1 DEF HasJob
<1>3. /\ job' = [job EXCEPT ![j].status = status]
      /\ pipe' = [pipe EXCEPT ![p] = Resting] /\ Works
  BY <1>2 DEF Settle
<1>4. /\ Resting \in PipeRecord /\ Resting.job = NoJob /\ Resting.at = "idle"
      /\ Resting.kind = "none"
  BY DEF Resting, PipeRecord, Stage
<1>5. pipe'[p] = Resting
  BY <1>1, <1>3
<1>6. \A q \in Pipeline : q # p => pipe[q].job # j
  BY <1>2 DEF JobsInv, OwnJobs
<1>7. job'[j].status = status /\ job'[j].output = job[j].output
  BY <1>1, <1>3, JobStatusMoves
<1>8. HasJob(p)' /\ HasRow(p)'
  BY <1>4, <1>5, DeployJobsAssumption DEF HasJob, HasRow, Working, NoRollback, WithRow, InTry
<1>9. Kept(j)'
  <2>1. chain'[j] = chain[j] /\ row'[j] = row[j] /\ chain[j].queue = <<>>
    BY <1>2
  <2>2. ASSUME status = "success"
        PROVE  Chunks(j)' /\ (row[j].status = "absent" \/ Stands(j))
    <3>1. Chunks(j)
      BY <1>2, <2>2
    <3>2. Chunks(j)'
      BY <1>7, <2>1, <3>1 DEF Chunks
    <3>3. row[j].status = "absent" \/ Stands(j)
      BY <1>1, <1>2, <2>2 DEF HasRow
    <3> QED BY <3>2, <3>3
  <2>3. Kept(j)
    BY DEF JobsInv
  <2> QED BY <1>7, <2>1, <2>2, <2>3 DEF Kept, Terminal, Stands
<1> QED BY <1>2, <1>3, <1>4, <1>6, <1>8, <1>9, StatusKeeps DEF Terminal

\* The updates that end a job.
LEMMA EndKeeps ==
  ASSUME JobsInv, NEW p \in Pipeline, Save(p) \/ SaveError(p)
  PROVE  JobsInv'
<1>1. /\ HasJob(p) /\ HasRow(p) /\ row \in [Job -> RowRecord]
      /\ tunnel \in [Job -> {"none", "up"}]
  BY TypesByName DEF JobsInv
<1>2. UNCHANGED row => row' \in [Job -> RowRecord] /\ RowStep(p)
  BY <1>1 DEF RowStep, SameRow
<1>3. CASE Save(p)
  <2>1. /\ pipe[p].at = "saving" /\ chain[pipe[p].job].queue = <<>>
        /\ UNCHANGED <<chain, row, tunnel, reader>>
    BY <1>3 DEF Save, rowVars
  <2>2. CASE Go(p, "erring") /\ (Fails \/ Works) /\ UNCHANGED job
    BY <1>1, <1>2, <2>1, <2>2, LocalGo DEF Working, Stage, NoRollback, WithRow, InTry
  <2>3. CASE ~chain[pipe[p].job].lost /\ Settle(p, "success")
    BY <2>1, <2>3, SettleKeeps DEF Working, Stage
  <2> QED BY <1>3, <2>2, <2>3 DEF Save
<1>4. CASE SaveError(p)
  <2>1. /\ pipe[p].at = "savingError" /\ chain[pipe[p].job].queue = <<>>
        /\ UNCHANGED <<chain, row, tunnel, reader>>
    BY <1>4 DEF SaveError, rowVars
  <2>2. CASE Settle(p, "failed")
    BY <2>1, <2>2, SettleKeeps DEF Working, Stage
  <2>3. CASE Fails /\ pipe' = [pipe EXCEPT ![p] = Resting] /\ UNCHANGED job
    BY <2>1, <2>3, RestKeeps
  <2> QED BY <1>4, <2>2, <2>3 DEF SaveError
<1> QED BY <1>3, <1>4

-----------------------------------------------------------------------------
(* The chain of writes.                                                    *)

\* The first of what waits is the next of what is stored.
LEMMA WriteNext ==
  ASSUME NEW o \in Seq(Nat), NEW q \in Seq(Nat), NEW n \in Nat, q # <<>>, InOrder(o, q, n)
  PROVE  InOrder(Append(o, Head(q)), Tail(q), n)
<1>1. /\ Len(q) \in Nat /\ Len(q) > 0 /\ Len(o) \in Nat
      /\ Head(q) \in Nat /\ Head(q) = q[1]
      /\ Tail(q) \in Seq(Nat) /\ Len(Tail(q)) = Len(q) - 1
      /\ \A i \in 1..Len(Tail(q)) : Tail(q)[i] = q[i + 1]
  <2>1. Len(q) \in Nat /\ Len(q) > 0 /\ Len(o) \in Nat
    BY EmptySeq
  <2>2. /\ Head(q) \in Nat /\ Tail(q) \in Seq(Nat) /\ Len(Tail(q)) = Len(q) - 1
        /\ \A i \in 1..Len(Tail(q)) : Tail(q)[i] = q[i + 1]
    BY HeadTailProperties
  <2>3. Head(q) = q[1]
    OBVIOUS
  <2> QED BY <2>1, <2>2, <2>3
<1>2. Head(q) = Len(o) + 1
  <2>1. 1 \in 1..Len(q)
    BY <1>1
  <2> QED BY <1>1, <2>1 DEF InOrder
<1>3. /\ Len(Append(o, Head(q))) = Len(o) + 1
      /\ \A i \in 1..Len(o) : Append(o, Head(q))[i] = o[i]
      /\ Append(o, Head(q))[Len(o) + 1] = Head(q)
  <2> DEFINE h == Head(q)
  <2>1. h \in Nat
    BY <1>1
  <2> HIDE DEF h
  <2>2. /\ Len(Append(o, h)) = Len(o) + 1
        /\ \A i \in 1..Len(o) : Append(o, h)[i] = o[i]
        /\ Append(o, h)[Len(o) + 1] = h
    BY <2>1, AppendProperties
  <2> QED BY <2>2 DEF h
<1>4. \A i \in 1..Len(Tail(q)) : Tail(q)[i] = Len(o) + 1 + i
  <2>1. ASSUME NEW i \in 1..Len(Tail(q)) PROVE Tail(q)[i] = Len(o) + 1 + i
    <3>1. i + 1 \in 1..Len(q) /\ Tail(q)[i] = q[i + 1] /\ i \in Nat
      BY <1>1
    <3>2. q[i + 1] = Len(o) + (i + 1)
      BY <3>1 DEF InOrder
    <3> QED BY <1>1, <3>1, <3>2
  <2> QED BY <2>1
<1>5. Len(o) + 1 + (Len(q) - 1) = n
  <2>1. \A x, y \in Nat : x + 1 + (y - 1) = x + y
    OBVIOUS
  <2> QED BY <1>1, <2>1 DEF InOrder
<1>6. ASSUME NEW i \in 1..(Len(o) + 1) PROVE Append(o, Head(q))[i] = i
  <2>1. CASE i = Len(o) + 1
    BY <1>2, <1>3, <2>1
  <2>2. CASE i \in 1..Len(o)
    BY <1>3, <2>2 DEF InOrder
  <2> QED BY <1>1, <2>1, <2>2
<1> QED BY <1>1, <1>3, <1>4, <1>5, <1>6 DEF InOrder

\* A prefix stays a prefix of what grows.
LEMMA PrefixGrows ==
  ASSUME NEW o \in Seq(Nat), NEW x \in Nat, NEW n \in Nat, n <= Len(o)
  PROVE  SubSeq(Append(o, x), 1, n) = SubSeq(o, 1, n) /\ n <= Len(Append(o, x))
<1>1. Append(o, x) = o \o <<x>> /\ <<x>> \in Seq(Nat)
  BY AppendIsConcat
<1>2. Len(o) \in Nat /\ Len(Append(o, x)) = Len(o) + 1
  BY AppendProperties
<1>3. CASE n = 0
  BY <1>2, <1>3, SubSeqEmpty
<1>4. CASE n # 0
  <2>1. 1 \in 1..Len(o) /\ n \in 1..Len(o)
    BY <1>2, <1>4
  <2>2. SubSeq(o \o <<x>>, 1, n) = SubSeq(o, 1, n)
    BY <1>1, <2>1, SubSeqOfConcat1
  <2> QED BY <1>1, <1>2, <2>2
<1> QED BY <1>3, <1>4

\* A chunk is stored, or lost.
LEMMA WriteKeeps ==
  ASSUME JobsInv, NEW j \in Job, WriteChunk(j)
  PROVE  JobsInv'
<1>1. /\ JobsTypeOK /\ Kept(j) /\ chain[j].queue # <<>>
      /\ UNCHANGED <<pipe, row, tunnel, reader>>
      /\ job \in [Job -> JobRecord] /\ chain \in [Job -> ChainRecord]
      /\ pipe \in [Pipeline -> PipeRecord] /\ row \in [Job -> RowRecord]
      /\ reader \in [Reader -> ReaderRecord] /\ tunnel \in [Job -> {"none", "up"}]
  BY TypesByName DEF JobsInv, WriteChunk, rowVars
<1>2. /\ chain[j] \in ChainRecord /\ job[j] \in JobRecord
      /\ job[j].output \in Seq(Nat) /\ chain[j].queue \in Seq(Nat) /\ chain[j].logged \in Nat
  BY <1>1 DEF JobRecord, ChainRecord
<1>3. job[j].status \notin {"absent", "pending", "success", "failed"}
  BY <1>1 DEF Kept, Terminal, NoChain
<1>4. Tail(chain[j].queue) \in Seq(Nat) /\ Head(chain[j].queue) \in Nat
  BY <1>1, <1>2, HeadTailProperties
<1>5. failures' \in 0..MaxFailures /\ orderly' \in BOOLEAN
  BY <1>1, FailsOrWorks DEF WriteChunk
<1>6. ASSUME /\ job' \in [Job -> JobRecord] /\ chain' \in [Job -> ChainRecord]
             /\ \A i \in Job : i # j => job'[i] = job[i] /\ chain'[i] = chain[i]
             /\ job'[j].status = job[j].status
             /\ chain'[j].lost \/ (chain'[j].lost = chain[j].lost /\ (Chunks(j) => Chunks(j)'))
             /\ \A n \in Nat : n <= Len(job[j].output) =>
                   /\ n <= Len(job'[j].output)
                   /\ SubSeq(job'[j].output, 1, n) = SubSeq(job[j].output, 1, n)
      PROVE  JobsInv'
  <2>1. JobsTypeOK'
    <3>1. /\ pipe' \in [Pipeline -> PipeRecord] /\ row' \in [Job -> RowRecord]
          /\ reader' \in [Reader -> ReaderRecord] /\ tunnel' \in [Job -> {"none", "up"}]
      BY <1>1
    <3> QED BY <1>5, <1>6, <3>1
            DEF JobsTypeOK, JobRecord, ChainRecord, PipeRecord, RowRecord, ReaderRecord
  <2>2. ASSUME NEW i \in Job
        PROVE  chain[i].lost \/ Chunks(i) => chain'[i].lost \/ Chunks(i)'
    <3>1. CASE i = j
      BY <1>6, <3>1
    <3>2. CASE i # j
      <4>1. job'[i] = job[i] /\ chain'[i] = chain[i]
        BY <1>6, <3>2
      <4> QED BY <4>1 DEF Chunks
    <3> QED BY <3>1, <3>2
  <2>3. ASSUME NEW q \in Pipeline PROVE HasJob(q)' /\ HasRow(q)'
    <3>1. HasJob(q) /\ HasRow(q) /\ pipe' = pipe /\ row' = row
      BY <1>1 DEF JobsInv
    <3>2. \A i \in Job : job'[i].status = job[i].status
      BY <1>6
    <3>3. HasJob(q)'
      BY <2>2, <3>1, <3>2 DEF HasJob
    <3>4. HasRow(q)'
      BY <3>1 DEF HasRow, Stands
    <3> QED BY <3>3, <3>4
  <2>4. OwnJobs'
    BY <1>1 DEF JobsInv, OwnJobs
  <2>5. ASSUME NEW i \in Job PROVE Kept(i)'
    <3>1. CASE i = j
      <4>1. Kept(j) /\ row' = row
        BY <1>1 DEF JobsInv
      <4> QED BY <1>3, <1>6, <3>1, <4>1 DEF Kept, Terminal
    <3>2. CASE i # j
      <4>1. Kept(i) /\ job'[i] = job[i] /\ chain'[i] = chain[i] /\ row' = row
        BY <1>1, <1>6, <3>2 DEF JobsInv
      <4> QED BY <4>1 DEF Kept, Terminal, Chunks, Stands
    <3> QED BY <3>1, <3>2
  <2>6. ASSUME NEW q \in Reader PROVE Follows(q)'
    <3>1. /\ Follows(q) /\ reader' = reader /\ reader[q].job \in Job \cup {NoJob}
          /\ reader[q].cursor \in Nat
      BY <1>1 DEF JobsInv, ReaderRecord
    <3>2. CASE reader[q].job = j
      <4>1. ~reader[q].done
        BY <1>3, <3>1, <3>2, DeployJobsAssumption DEF Follows, Terminal
      <4> QED BY <1>6, <3>1, <3>2, <4>1 DEF Follows
    <3>3. CASE reader[q].job # j
      BY <1>6, <3>1, <3>3 DEF Follows, Terminal
    <3> QED BY <3>2, <3>3
  <2> QED BY <2>1, <2>3, <2>4, <2>5, <2>6 DEF JobsInv
<1>7. CASE /\ job' = [job EXCEPT ![j].output = Append(@, Head(chain[j].queue))]
           /\ chain' = [chain EXCEPT ![j].queue = Tail(@)]
  <2> DEFINE o == Append(job[j].output, Head(chain[j].queue))
             s == Tail(chain[j].queue)
             b == [job[j] EXCEPT !.output = o]
             c == [chain[j] EXCEPT !.queue = s]
  <2>1. job' = [job EXCEPT ![j] = b] /\ chain' = [chain EXCEPT ![j] = c]
    BY <1>7
  <2>2. o \in Seq(Nat) /\ s \in Seq(Nat)
    BY <1>2, <1>4
  <2>3. /\ b \in JobRecord /\ b.status = job[j].status /\ b.output = o
        /\ c \in ChainRecord /\ c.lost = chain[j].lost /\ c.queue = s
        /\ c.logged = chain[j].logged
    <3> HIDE DEF o, s
    <3> QED BY <1>2, <2>2 DEF JobRecord, ChainRecord
  <2>4. /\ job' \in [Job -> JobRecord] /\ chain' \in [Job -> ChainRecord]
        /\ \A i \in Job : i # j => job'[i] = job[i] /\ chain'[i] = chain[i]
        /\ job'[j] = b /\ chain'[j] = c
    <3> HIDE DEF b, c
    <3> QED BY <1>1, <2>1, <2>3
  <2>5. /\ job'[j].output = o /\ chain'[j].queue = s /\ chain'[j].logged = chain[j].logged
        /\ job'[j].status = job[j].status /\ chain'[j].lost = chain[j].lost
    <3> HIDE DEF b, c
    <3> QED BY <2>3, <2>4
  <2>6. ASSUME Chunks(j) PROVE Chunks(j)'
    <3>1. InOrder(o, s, chain[j].logged)
      BY <1>1, <1>2, <2>6, WriteNext DEF Chunks
    <3> HIDE DEF o, s
    <3> QED BY <2>5, <3>1 DEF Chunks
  <2>7. \A n \in Nat : n <= Len(job[j].output) =>
          n <= Len(o) /\ SubSeq(o, 1, n) = SubSeq(job[j].output, 1, n)
    BY <1>2, <1>4, PrefixGrows
  <2> HIDE DEF o, s, b, c
  <2> QED BY <1>6, <2>4, <2>5, <2>6, <2>7
<1>8. CASE chain' = [chain EXCEPT ![j].queue = Tail(@), ![j].lost = TRUE] /\ UNCHANGED job
  <2> DEFINE s == Tail(chain[j].queue)
             c == [chain[j] EXCEPT !.queue = s, !.lost = TRUE]
  <2>1. chain' = [chain EXCEPT ![j] = c]
    BY <1>8
  <2>2. c \in ChainRecord /\ c.lost = TRUE
    <3>1. s \in Seq(Nat)
      BY <1>4
    <3> HIDE DEF s
    <3> QED BY <1>2, <3>1 DEF ChainRecord
  <2> HIDE DEF c
  <2>3. /\ chain' \in [Job -> ChainRecord] /\ chain'[j] = c
        /\ \A i \in Job : i # j => chain'[i] = chain[i]
    BY <1>1, <2>1, <2>2
  <2> QED BY <1>1, <1>6, <1>8, <2>2, <2>3
<1> QED BY <1>7, <1>8 DEF WriteChunk

-----------------------------------------------------------------------------
(* The streams, and time.                                                  *)

\* What a browser has is exact after any step of its stream.
LEMMA ReaderKeeps ==
  ASSUME JobsInv, NEW r \in Reader, NEW s \in ReaderRecord,
         UNCHANGED <<job, chain, pipe, rowVars, failures, orderly>>,
         reader' = [reader EXCEPT ![r] = s],
         s.job = reader[r].job, s.job \in Job,
         s.cursor <= Len(job[s.job].output),
         s.got = SubSeq(job[s.job].output, 1, s.cursor),
         s.open => s.sent = s.cursor,
         s.done => Terminal(s.job) /\ s.cursor = Len(job[s.job].output)
  PROVE  JobsInv'
<1>1. /\ JobsTypeOK /\ UNCHANGED <<job, chain, pipe, row, tunnel, failures, orderly>>
      /\ job \in [Job -> JobRecord] /\ chain \in [Job -> ChainRecord]
      /\ pipe \in [Pipeline -> PipeRecord] /\ row \in [Job -> RowRecord]
      /\ reader \in [Reader -> ReaderRecord] /\ tunnel \in [Job -> {"none", "up"}]
      /\ failures \in 0..MaxFailures /\ orderly \in BOOLEAN
  BY TypesByName DEF JobsInv, rowVars
<1>2. /\ reader' \in [Reader -> ReaderRecord] /\ reader'[r] = s
      /\ \A q \in Reader : q # r => reader'[q] = reader[q]
  BY <1>1
<1>3. JobsTypeOK'
  <2>1. /\ job' \in [Job -> JobRecord] /\ chain' \in [Job -> ChainRecord]
        /\ pipe' \in [Pipeline -> PipeRecord] /\ row' \in [Job -> RowRecord]
        /\ tunnel' \in [Job -> {"none", "up"}]
        /\ failures' \in 0..MaxFailures /\ orderly' \in BOOLEAN
    BY <1>1
  <2> QED BY <1>2, <2>1
           DEF JobsTypeOK, JobRecord, ChainRecord, PipeRecord, RowRecord, ReaderRecord
<1>4. ASSUME NEW p \in Pipeline PROVE HasJob(p)' /\ HasRow(p)'
  <2>1. HasJob(p)'
    BY <1>1 DEF JobsInv, HasJob, Chunks
  <2>2. HasRow(p)'
    BY <1>1 DEF JobsInv, HasRow, Stands
  <2> QED BY <2>1, <2>2
<1>5. OwnJobs'
  BY <1>1 DEF JobsInv, OwnJobs
<1>6. ASSUME NEW j \in Job PROVE Kept(j)'
  <2>1. Kept(j) /\ (Chunks(j) => Chunks(j)')
    BY <1>1 DEF JobsInv, Chunks
  <2> QED BY <1>1, <2>1 DEF Kept, Terminal, Stands
<1>7. ASSUME NEW q \in Reader PROVE Follows(q)'
  <2>1. CASE q = r
    BY <1>1, <1>2, <2>1, DeployJobsAssumption DEF Follows, Terminal
  <2>2. CASE q # r
    BY <1>1, <1>2, <2>2 DEF JobsInv, Follows, Terminal
  <2> QED BY <2>1, <2>2
<1> QED BY <1>3, <1>4, <1>5, <1>6, <1>7 DEF JobsInv

\* What was received and what is new are together the whole output.
LEMMA Resumes ==
  ASSUME NEW o \in Seq(Nat), NEW n \in Nat, n <= Len(o)
  PROVE  SubSeq(o, 1, n) \o SubSeq(o, n + 1, Len(o)) = SubSeq(o, 1, Len(o))
<1>1. Len(o) \in Nat
  OBVIOUS
<1>2. 1 \in 1..Len(o) + 1 /\ n \in 0..Len(o) /\ Len(o) \in n..Len(o)
  BY <1>1
<1>3. n \in (1 - 1)..Len(o)
  BY <1>2
<1> QED BY <1>2, <1>3, ConcatAdjacentSubSeq

\* Every step of a stream.
LEMMA StreamKeeps ==
  ASSUME JobsInv, NEW r \in Reader, Connect(r) \/ PollStream(r) \/ BreakStream(r),
         reader[r].job \in Job
  PROVE  JobsInv'
<1> DEFINE s == reader[r]
           o == job[reader[r].job].output
<1>1. /\ s \in ReaderRecord /\ Follows(r) /\ o \in Seq(Nat)
      /\ job \in [Job -> JobRecord]
  BY TypesByName DEF JobsInv, JobRecord
<1>2. /\ s.cursor \in Nat /\ s.sent \in Nat /\ Len(o) \in Nat /\ s.got \in Seq(Nat)
  BY <1>1 DEF ReaderRecord
<1>3. /\ s.cursor <= Len(o) /\ s.got = SubSeq(o, 1, s.cursor)
      /\ s.open => s.sent = s.cursor
      /\ s.done => Terminal(s.job) /\ s.cursor = Len(o)
  BY <1>1, DeployJobsAssumption DEF Follows
<1>4. s.got \o SubSeq(o, s.cursor + 1, Len(o)) = SubSeq(o, 1, Len(o))
  BY <1>1, <1>2, <1>3, Resumes
<1>5. SubSeq(o, 1, Len(o)) = o
  BY <1>1, SubSeqFull
<1>6. UNCHANGED <<job, chain, pipe, rowVars, failures, orderly>>
  BY DEF Connect, PollStream, BreakStream
<1>7. CASE Connect(r)
  <2> DEFINE n == [s EXCEPT !.open = TRUE, !.sent = s.cursor]
  <2>1. /\ n \in ReaderRecord /\ n.job = s.job /\ n.cursor = s.cursor /\ n.got = s.got
        /\ n.sent = s.cursor /\ n.done = s.done
    BY <1>1, <1>2 DEF ReaderRecord
  <2>2. reader' = [reader EXCEPT ![r] = n]
    BY <1>7 DEF Connect
  <2> HIDE DEF n
  <2>3. n.cursor <= Len(o) /\ n.got = SubSeq(o, 1, n.cursor) /\ n.sent = n.cursor
    BY <1>3, <2>1
  <2>4. n.done => Terminal(n.job) /\ n.cursor = Len(o)
    BY <1>3, <2>1
  <2>5. n.job = reader[r].job /\ n.job \in Job /\ job[n.job].output = o
    BY <2>1
  <2> HIDE DEF o, s
  <2> QED BY <1>6, <2>1, <2>2, <2>3, <2>4, <2>5, ReaderKeeps
<1>8. CASE PollStream(r)
  <2> DEFINE ended == Terminal(reader[r].job)
             n == [s EXCEPT !.got = @ \o SubSeq(o, s.sent + 1, Len(o)), !.sent = Len(o),
                            !.cursor = Len(o), !.done = ended, !.open = ~ended]
  <2>1. s.open /\ s.got \o SubSeq(o, s.sent + 1, Len(o)) = o
    BY <1>3, <1>4, <1>5, <1>8 DEF PollStream
  <2>2. n = [s EXCEPT !.got = o, !.sent = Len(o), !.cursor = Len(o), !.done = ended,
                      !.open = ~ended]
    BY <2>1
  <2>3. reader' = [reader EXCEPT ![r] = n]
    BY <1>8 DEF PollStream
  <2>4. ended \in BOOLEAN
    BY DEF Terminal
  <2>5. /\ n \in ReaderRecord /\ n.job = s.job /\ n.cursor = Len(o) /\ n.got = o
        /\ n.sent = Len(o) /\ n.done = ended
    <3> HIDE DEF ended, o
    <3> QED BY <1>1, <1>2, <2>2, <2>4 DEF ReaderRecord
  <2>6. /\ n.job = reader[r].job /\ n.job \in Job /\ job[n.job].output = o
        /\ Terminal(n.job) = ended
    BY <2>5
  <2> HIDE DEF n, o, ended, s
  <2>7. n.done => Terminal(n.job) /\ n.cursor = Len(o)
    BY <2>5, <2>6
  <2>8. n.cursor <= Len(o) /\ n.got = SubSeq(o, 1, n.cursor) /\ n.sent = n.cursor
    BY <1>2, <1>5, <2>5
  <2> QED BY <1>6, <2>3, <2>5, <2>6, <2>7, <2>8, ReaderKeeps
<1>9. CASE BreakStream(r)
  <2>1. ASSUME reader' = [reader EXCEPT ![r].open = FALSE] PROVE JobsInv'
    <3> DEFINE n == [s EXCEPT !.open = FALSE]
    <3>1. /\ n \in ReaderRecord /\ n.job = s.job /\ n.cursor = s.cursor /\ n.got = s.got
          /\ n.open = FALSE /\ n.done = s.done
      BY <1>1 DEF ReaderRecord
    <3>2. reader' = [reader EXCEPT ![r] = n]
      BY <2>1
    <3> HIDE DEF n
    <3>3. n.cursor <= Len(o) /\ n.got = SubSeq(o, 1, n.cursor)
      BY <1>3, <3>1
    <3>4. n.done => Terminal(n.job) /\ n.cursor = Len(o)
      BY <1>3, <3>1
    <3>5. n.job = reader[r].job /\ n.job \in Job /\ job[n.job].output = o
      BY <3>1
    <3> HIDE DEF o, s
    <3> QED BY <1>6, <3>1, <3>2, <3>3, <3>4, <3>5, ReaderKeeps
  <2>2. ASSUME Terminal(s.job),
               reader' = [reader EXCEPT ![r] =
                 [s EXCEPT !.open = FALSE, !.cursor = Len(o),
                           !.got = @ \o SubSeq(o, s.sent + 1, Len(o))]]
        PROVE  JobsInv'
    <3> DEFINE n == [s EXCEPT !.open = FALSE, !.cursor = Len(o), !.got = o]
    <3>1. s.open /\ s.got \o SubSeq(o, s.sent + 1, Len(o)) = o
      BY <1>3, <1>4, <1>5, <1>9 DEF BreakStream
    <3>2. /\ n \in ReaderRecord /\ n.job = s.job /\ n.cursor = Len(o) /\ n.got = o
          /\ n.open = FALSE /\ n.done = s.done
      <4> HIDE DEF o
      <4> QED BY <1>1, <1>2 DEF ReaderRecord
    <3>3. reader' = [reader EXCEPT ![r] = n]
      BY <2>2, <3>1
    <3>4. /\ n.job = reader[r].job /\ n.job \in Job /\ job[n.job].output = o
          /\ Terminal(n.job)
      BY <2>2, <3>2
    <3> HIDE DEF n, o, s
    <3>5. n.cursor <= Len(o) /\ n.got = SubSeq(o, 1, n.cursor)
      BY <1>2, <1>5, <3>2
    <3> QED BY <1>6, <3>2, <3>3, <3>4, <3>5, ReaderKeeps
  <2> QED BY <1>9, <2>1, <2>2 DEF BreakStream
<1> QED BY <1>7, <1>8, <1>9

\* A row that is touched from outside of its pipeline stands as it did, or was
\* deploying, or is overtaken.
LEMMA TouchKeeps ==
  ASSUME JobsInv, UNCHANGED <<job, chain, pipe, tunnel, reader, failures>>,
         row' \in [Job -> RowRecord], orderly' \in BOOLEAN,
         \A d \in Job :
           /\ row'[d].status = "absent" <=> row[d].status = "absent"
           /\ row'[d].status = "absent" => row'[d].due = {}
           /\ row[d].overtaken => row'[d].overtaken
           /\ \/ row'[d].status = row[d].status
              \/ row[d].status = "deploying" \/ row'[d].overtaken
  PROVE  JobsInv'
<1>1. /\ JobsTypeOK
      /\ job \in [Job -> JobRecord] /\ chain \in [Job -> ChainRecord]
      /\ pipe \in [Pipeline -> PipeRecord] /\ reader \in [Reader -> ReaderRecord]
      /\ tunnel \in [Job -> {"none", "up"}] /\ failures \in 0..MaxFailures
  BY TypesByName DEF JobsInv
<1>2. JobsTypeOK'
  <2>1. /\ job' \in [Job -> JobRecord] /\ chain' \in [Job -> ChainRecord]
        /\ pipe' \in [Pipeline -> PipeRecord] /\ reader' \in [Reader -> ReaderRecord]
        /\ tunnel' \in [Job -> {"none", "up"}] /\ failures' \in 0..MaxFailures
    BY <1>1
  <2> QED BY <2>1
          DEF JobsTypeOK, JobRecord, ChainRecord, PipeRecord, RowRecord, ReaderRecord
<1>3. ASSUME NEW d \in Job, Stands(d) PROVE Stands(d)'
  BY <1>3 DEF Stands
<1>4. ASSUME NEW p \in Pipeline PROVE HasJob(p)' /\ HasRow(p)'
  <2>1. HasJob(p) /\ HasRow(p) /\ pipe[p] \in PipeRecord
    BY <1>1 DEF JobsInv
  <2>2. HasJob(p)'
    BY <2>1 DEF HasJob, Chunks
  <2>3. pipe[p].at \in WithRow \cup {"starting", "recording", "saving"} => pipe[p].job \in Job
    BY <2>1 DEF HasJob, WithRow, InTry, Working, Stage
  <2>4. HasRow(p)'
    BY <1>3, <2>1, <2>3 DEF HasRow
  <2> QED BY <2>2, <2>4
<1>5. OwnJobs'
  BY DEF JobsInv, OwnJobs
<1>6. ASSUME NEW j \in Job PROVE Kept(j)'
  <2>1. Kept(j) /\ (Chunks(j) => Chunks(j)')
    BY DEF JobsInv, Chunks
  <2> QED BY <1>3, <2>1 DEF Kept, Terminal
<1>7. ASSUME NEW r \in Reader PROVE Follows(r)'
  BY DEF JobsInv, Follows, Terminal
<1> QED BY <1>2, <1>4, <1>5, <1>6, <1>7 DEF JobsInv

\* What a look at the Compose log does to a row.
LEMMA LookMoves ==
  ASSUME JobsTypeOK, NEW d \in Job, LogLook(d)
  PROVE  /\ UNCHANGED <<job, chain, pipe, tunnel, reader, failures>>
         /\ row' \in [Job -> RowRecord] /\ orderly' \in BOOLEAN
         /\ \A e \in Job : e # d => row'[e] = row[e]
         /\ row'[d].key = row[d].key /\ row'[d].recent = row[d].recent
         /\ row'[d].rank = row[d].rank /\ row'[d].noted = row[d].noted
         /\ \/ /\ row[d].status = "deploying"
               /\ row'[d].status = row[d].status /\ row'[d].overtaken = row[d].overtaken
               /\ orderly' = orderly
            \/ /\ row'[d].status \in Verdict /\ row[d].due # {}
               /\ row[d].overtaken => row'[d].overtaken
               /\ row[d].status = "deploying" \/ row'[d].overtaken
               /\ orderly' => orderly /\ row[d].status = "deploying"
<1>1. /\ row \in [Job -> RowRecord] /\ row[d] \in RowRecord /\ orderly \in BOOLEAN
  BY TypesByName
<1>2. PICK verdict \in Verdict : LookFinds(d, verdict) \/ LookSettles(d, verdict)
  BY DEF LogLook
<1>3. ASSUME NEW n \in RowRecord, row' = [row EXCEPT ![d] = n]
      PROVE  /\ row' \in [Job -> RowRecord] /\ row'[d] = n
             /\ \A e \in Job : e # d => row'[e] = row[e]
  BY <1>1, <1>3
<1>4. CASE LookFinds(d, verdict)
  <2> DEFINE n == [row[d] EXCEPT !.due = row[d].due \cup {verdict}]
  <2>1. /\ n \in RowRecord /\ n.status = row[d].status /\ n.overtaken = row[d].overtaken
        /\ n.key = row[d].key /\ n.recent = row[d].recent
        /\ n.rank = row[d].rank /\ n.noted = row[d].noted
    BY <1>1 DEF RowRecord
  <2>2. row' = [row EXCEPT ![d] = n]
    BY <1>1, <1>4 DEF LookFinds
  <2> HIDE DEF n
  <2> QED BY <1>1, <1>3, <1>4, <2>1, <2>2 DEF LookFinds
<1>5. CASE LookSettles(d, verdict)
  <2>1. PICK due \in {row[d].due, row[d].due \ {verdict}} :
          row' = [row EXCEPT ![d] =
                    [row[d] EXCEPT
                       !.status = verdict, !.due = due,
                       !.overtaken = row[d].overtaken \/ row[d].status # "deploying"]]
    BY <1>5 DEF LookSettles
  <2> DEFINE over == row[d].overtaken \/ row[d].status # "deploying"
             n == [row[d] EXCEPT !.status = verdict, !.due = due, !.overtaken = over]
  <2>2. over \in BOOLEAN /\ due \in SUBSET Verdict
    BY <1>1 DEF RowRecord
  <2>3. row' = [row EXCEPT ![d] = n]
    BY <2>1
  <2>4. /\ row[d].overtaken => over
        /\ row[d].status = "deploying" \/ over
    OBVIOUS
  <2> HIDE DEF over
  <2>5. /\ n \in RowRecord /\ n.status = verdict /\ n.overtaken = over
        /\ n.key = row[d].key /\ n.recent = row[d].recent
        /\ n.rank = row[d].rank /\ n.noted = row[d].noted
    BY <1>1, <2>2 DEF RowRecord, Verdict
  <2> HIDE DEF n
  <2>6. /\ row' \in [Job -> RowRecord] /\ row'[d] = n
        /\ \A e \in Job : e # d => row'[e] = row[e]
    BY <1>3, <2>3, <2>5
  <2>7. /\ UNCHANGED <<job, chain, pipe, tunnel, reader, failures>>
        /\ orderly' = (orderly /\ row[d].status = "deploying")
        /\ row[d].due # {}
    BY <1>5 DEF LookSettles
  <2> QED BY <1>1, <2>4, <2>5, <2>6, <2>7
<1> QED BY <1>2, <1>4, <1>5

\* Five minutes pass, somebody looks at the Compose log, or the process dies.
LEMMA OutsideKeeps ==
  ASSUME JobsInv, (\E d \in Job : Ages(d) \/ LogLook(d)) \/ ProcessDies
  PROVE  JobsInv'
<1>1. /\ JobsTypeOK
      /\ job \in [Job -> JobRecord] /\ chain \in [Job -> ChainRecord]
      /\ pipe \in [Pipeline -> PipeRecord] /\ row \in [Job -> RowRecord]
      /\ reader \in [Reader -> ReaderRecord] /\ tunnel \in [Job -> {"none", "up"}]
      /\ failures \in 0..MaxFailures /\ orderly \in BOOLEAN
  BY TypesByName DEF JobsInv
<1>2. \A d \in Job : row[d].status = "absent" => row[d].due = {}
  BY DEF JobsInv, Kept
<1>3. ASSUME NEW d \in Job, Ages(d) PROVE JobsInv'
  <2> DEFINE n == [row[d] EXCEPT !.recent = FALSE]
  <2>1. /\ n \in RowRecord /\ n.status = row[d].status
        /\ n.overtaken = row[d].overtaken /\ n.due = row[d].due
    <3>1. row[d] \in RowRecord
      BY <1>1
    <3> QED BY <3>1 DEF RowRecord
  <2>2. row' = [row EXCEPT ![d] = n]
    BY <1>3 DEF Ages
  <2> HIDE DEF n
  <2>3. /\ row' \in [Job -> RowRecord]
        /\ \A e \in Job : SameRow(e)
    BY <1>1, <2>1, <2>2 DEF SameRow
  <2>4. UNCHANGED <<job, chain, pipe, tunnel, reader, failures>> /\ orderly' \in BOOLEAN
    BY <1>1, <1>3 DEF Ages
  <2> QED BY <1>2, <2>3, <2>4, TouchKeeps DEF SameRow
<1>4. ASSUME NEW d \in Job, LogLook(d) PROVE JobsInv'
  <2>1. /\ UNCHANGED <<job, chain, pipe, tunnel, reader, failures>>
        /\ row' \in [Job -> RowRecord] /\ orderly' \in BOOLEAN
        /\ \A e \in Job : e # d => row'[e] = row[e]
        /\ row[d].overtaken => row'[d].overtaken
        /\ \/ row'[d].status = row[d].status /\ row[d].status = "deploying"
           \/ /\ row'[d].status \in Verdict /\ row[d].due # {}
              /\ row[d].status = "deploying" \/ row'[d].overtaken
    BY <1>1, <1>4, LookMoves
  <2>2. row'[d].status = "absent" <=> row[d].status = "absent"
    BY <1>2, <2>1 DEF Verdict
  <2> QED BY <1>2, <2>1, <2>2, TouchKeeps DEF Verdict
<1>5. ASSUME ProcessDies PROVE JobsInv'
  <2>1. /\ UNCHANGED <<job, tunnel>> /\ failures' \in 0..MaxFailures /\ orderly' \in BOOLEAN
        /\ row' \in [Job -> RowRecord]
        /\ \A d \in Job : /\ row'[d].status = row[d].status /\ row'[d].due = {}
                           /\ row'[d].overtaken = row[d].overtaken
    <3>1. row' = [d \in Job |-> [row[d] EXCEPT !.due = {}]]
      BY <1>5 DEF ProcessDies
    <3>2. ASSUME NEW d \in Job
          PROVE  LET n == [row[d] EXCEPT !.due = {}]
                 IN /\ n \in RowRecord /\ n.status = row[d].status /\ n.due = {}
                    /\ n.overtaken = row[d].overtaken
      <4>1. row[d] \in RowRecord
        BY <1>1
      <4> QED BY <4>1 DEF RowRecord
    <3>3. UNCHANGED <<job, tunnel>> /\ failures' \in 0..MaxFailures /\ orderly' \in BOOLEAN
      BY <1>1, <1>5, FailsOrWorks DEF ProcessDies
    <3> QED BY <3>1, <3>2, <3>3
  <2>2. /\ chain' \in [Job -> ChainRecord]
        /\ \A j \in Job : chain[j].queue = <<>> => chain'[j] = chain[j]
        /\ \A j \in Job : chain'[j].queue = <<>>
    <3>1. chain' = [j \in Job |-> [chain[j] EXCEPT !.queue = <<>>]]
      BY <1>5 DEF ProcessDies
    <3>2. ASSUME NEW j \in Job
          PROVE  /\ [chain[j] EXCEPT !.queue = <<>>] \in ChainRecord
                 /\ [chain[j] EXCEPT !.queue = <<>>].queue = <<>>
                 /\ chain[j].queue = <<>> => [chain[j] EXCEPT !.queue = <<>>] = chain[j]
      <4>1. chain[j] \in ChainRecord
        BY <1>1
      <4>2. <<>> \in Seq(Nat)
        OBVIOUS
      <4>3. /\ [chain[j] EXCEPT !.queue = <<>>] \in ChainRecord
            /\ [chain[j] EXCEPT !.queue = <<>>].queue = <<>>
        BY <4>1, <4>2 DEF ChainRecord
      <4>4. ASSUME chain[j].queue = <<>> PROVE [chain[j] EXCEPT !.queue = <<>>] = chain[j]
        <5>1. [chain[j] EXCEPT !.queue = chain[j].queue] = chain[j]
          BY <4>1 DEF ChainRecord
        <5> QED BY <4>4, <5>1
      <4> QED BY <4>3, <4>4
    <3> QED BY <3>1, <3>2
  <2>3. pipe' \in [Pipeline -> PipeRecord] /\ \A p \in Pipeline : pipe'[p] = Resting
    <3>1. Resting \in PipeRecord
      BY DEF Resting, PipeRecord, Stage
    <3> QED BY <1>5, <3>1 DEF ProcessDies
  <2>4. /\ reader' \in [Reader -> ReaderRecord]
        /\ \A r \in Reader :
              /\ reader'[r].open = FALSE /\ reader'[r].job = reader[r].job
              /\ reader'[r].cursor = reader[r].cursor /\ reader'[r].got = reader[r].got
              /\ reader'[r].done = reader[r].done
    <3>1. reader' = [r \in Reader |-> [reader[r] EXCEPT !.open = FALSE]]
      BY <1>5 DEF ProcessDies
    <3>2. ASSUME NEW r \in Reader
          PROVE  LET n == [reader[r] EXCEPT !.open = FALSE]
                 IN /\ n \in ReaderRecord /\ n.open = FALSE /\ n.job = reader[r].job
                    /\ n.cursor = reader[r].cursor /\ n.got = reader[r].got
                    /\ n.done = reader[r].done
      <4>1. reader[r] \in ReaderRecord
        BY <1>1
      <4> QED BY <4>1 DEF ReaderRecord
    <3> QED BY <3>1, <3>2
  <2>5. JobsTypeOK'
    <3>1. job' \in [Job -> JobRecord] /\ tunnel' \in [Job -> {"none", "up"}]
      BY <1>1, <2>1
    <3> QED BY <2>1, <2>2, <2>3, <2>4, <3>1
            DEF JobsTypeOK, JobRecord, ChainRecord, PipeRecord, RowRecord, ReaderRecord
  <2>6. ASSUME NEW p \in Pipeline PROVE HasJob(p)' /\ HasRow(p)'
    <3>1. /\ Resting.at = "idle" /\ Resting.kind = "none" /\ Resting.job = NoJob
      BY DEF Resting
    <3>2. pipe'[p].at = "idle" /\ pipe'[p].kind = "none" /\ pipe'[p].job = NoJob
      BY <2>3, <3>1
    <3> QED BY <3>2, DeployJobsAssumption DEF HasJob, HasRow, Working, NoRollback, WithRow, InTry
  <2>7. OwnJobs'
    <3>1. \A p \in Pipeline : pipe'[p].job = NoJob
      BY <2>3 DEF Resting
    <3> QED BY <3>1, DeployJobsAssumption DEF OwnJobs
  <2>8. ASSUME NEW j \in Job PROVE Kept(j)'
    <3>1. Kept(j) /\ job' = job
      BY <2>1 DEF JobsInv
    <3>2. chain[j].queue = <<>> /\ Chunks(j) => Chunks(j)'
      BY <2>1, <2>2 DEF Chunks
    <3> QED BY <2>1, <2>2, <3>1, <3>2 DEF Kept, Terminal, NoChain, Stands
  <2>9. ASSUME NEW r \in Reader PROVE Follows(r)'
    BY <2>1, <2>4 DEF JobsInv, Follows, Terminal
  <2> QED BY <2>5, <2>6, <2>7, <2>8, <2>9 DEF JobsInv
<1> QED BY <1>3, <1>4, <1>5

-----------------------------------------------------------------------------

\* Every step keeps the invariant.
LEMMA InvNext == JobsInv /\ [JobsNext]_jobsVars => JobsInv'
<1> SUFFICES ASSUME JobsInv, [JobsNext]_jobsVars PROVE JobsInv'
  OBVIOUS
<1>1. CASE UNCHANGED jobsVars
  BY <1>1 DEF jobsVars, JobsInv, JobsTypeOK, HasJob, OwnJobs, HasRow, Kept, Follows, Chunks,
              Terminal, Stands
<1>2. ASSUME NEW p \in Pipeline, PipelineStep(p) PROVE JobsInv'
  BY <1>2, StartKeeps, RecordRowKeeps, TryKeeps, ErringKeeps, EndKeeps DEF PipelineStep
<1>3. ASSUME NEW p \in Pipeline,
             \/ BeginBuild(p)
             \/ \E k \in DeployKey, preview \in BOOLEAN : BeginDeploy(p, k, preview)
             \/ \E d \in Job : BeginRollback(p, d)
      PROVE  JobsInv'
  BY <1>3, BeginKeeps
<1>4. ASSUME NEW j \in Job, WriteChunk(j) \/ Ages(j) \/ LogLook(j) PROVE JobsInv'
  BY <1>4, WriteKeeps, OutsideKeeps
<1>5. ASSUME NEW r \in Reader, Connect(r) \/ PollStream(r) \/ BreakStream(r) PROVE JobsInv'
  <2>1. reader[r].job # NoJob
    <3>1. CASE Connect(r)
      BY <3>1 DEF Connect
    <3>2. CASE PollStream(r) \/ BreakStream(r)
      BY <3>2 DEF JobsInv, Follows, PollStream, BreakStream
    <3> QED BY <1>5, <3>1, <3>2
  <2>2. reader[r].job \in Job
    BY <2>1, TypesByName DEF JobsInv, ReaderRecord
  <2> QED BY <1>5, <2>2, StreamKeeps
<1>6. CASE ProcessDies
  BY <1>6, OutsideKeeps
<1> QED BY <1>1, <1>2, <1>3, <1>4, <1>5, <1>6 DEF JobsNext

\* The invariant holds of every job, request, row and stream at any time.
THEOREM JobsInvariant == JobsSpec => []JobsInv
BY InvInit, InvNext, PTL DEF JobsSpec

\* Every variable has its type, whatever overlaps, throws or dies.
THEOREM JobsTypesHold == JobsSpec => []JobsTypeOK
<1>1. JobsInv => JobsTypeOK
  BY DEF JobsInv
<1> QED BY <1>1, JobsInvariant, PTL

\* A job that says success has stored all that was logged, in order.
THEOREM SuccessIsCompleteHolds == JobsSpec => []SuccessIsComplete
BY InvSuffices, JobsInvariant, PTL

\* Streams deliver a prefix, and the whole with "done".
THEOREM StreamIsExactHolds == JobsSpec => []StreamIsExact
BY InvSuffices, JobsInvariant, PTL

\* A job of a deploy or a build that succeeded is a deployment that succeeded,
\* unless a look at the Compose log overtook its row.
THEOREM JobSuccessIsDeployedHolds == JobsSpec => []JobSuccessIsDeployed
BY InvSuffices, JobsInvariant, PTL

-----------------------------------------------------------------------------
(* Deploys that come one at a time while nothing breaks.                   *)

\* The stages of a deploy or a build in which it has no tunnel yet.
NoTunnelYet ==
  {"provisioning", "preparing", "building", "deploying", "clearing", "tunnelling"}

\* The stages of a deploy whose row may be deploying.
Late == {"clearing", "tunnelling", "noting", "concluding", "failing"}

OneDeploy ==
  \A p, q \in Pipeline : pipe[p].kind = "deploy" /\ pipe[q].kind = "deploy" => p = q

Existing == {d \in Job : row[d].status # "absent"}

\* No later deployment recorded a tunnel.
Newest(d) == \A e \in Job : row[e].noted => row[e].rank <= row[d].rank

\* A row is ranked when it is created, behind all that exist.
Ranked ==
  \A d \in Job :
    /\ row[d].status = "absent" => ~row[d].noted /\ tunnel[d] = "none"
    /\ row[d].status # "absent" => row[d].rank <= Cardinality(Existing)

\* What a deploy or a build knows of its row and of the tunnels on the host.
RowOfOwn(p) ==
  pipe[p].kind \in {"deploy", "build"} /\ pipe[p].at \in WithRow =>
    /\ row[pipe[p].job].key = pipe[p].key
    /\ pipe[p].at \in NoTunnelYet \/ pipe[p].kind = "build" =>
         ~row[pipe[p].job].noted /\ tunnel[pipe[p].job] = "none"
    /\ pipe[p].at = "failing" => tunnel[pipe[p].job] = "none"
    /\ pipe[p].at \in {"deploying", "clearing", "tunnelling", "noting"} => pipe[p].kind = "deploy"
    /\ pipe[p].at = "tunnelling" => \A e \in Job : tunnel[e] = "none"
    /\ pipe[p].at = "noting" => \A e \in Job : tunnel[e] = "up" => e = pipe[p].job
    /\ pipe[p].kind = "deploy" => Newest(pipe[p].job)

\* Beside its own row, a deploy finds none of its key that is recent and good.
Keyed(p) ==
  /\ pipe[p].at = "idle" => pipe[p].kind = "none"
  /\ pipe[p].kind = "build" => pipe[p].key = NoJob
  /\ pipe[p].kind = "deploy" =>
       /\ pipe[p].key \in DeployKey
       /\ \A e \in RecentOf(pipe[p].key) : e = pipe[p].job \/ row[e].status = "rolled_back"

\* Whatever deploys has a request that will write the row once more.
DeployingIsOpen ==
  \A d \in Job :
    row[d].status = "deploying" =>
      \E p \in Pipeline : pipe[p].job = d /\ pipe[p].kind = "deploy" /\ pipe[p].at \in Late

\* The next deploy will find a tunnel: it is the newest one recorded, by a
\* deployment that has not failed, or is about to say that it succeeded although
\* a look at the Compose log said otherwise.
Found(d) ==
  /\ row[d].noted /\ Newest(d)
  /\ \/ row[d].status # "failed"
     \/ \E p \in Pipeline : pipe[p].at = "concluding" /\ pipe[p].job = d

\* A tunnel is about to be recorded, or will be found.
TunnelsAreFound ==
  \A d \in Job :
    tunnel[d] = "up" =>
      (\E p \in Pipeline : pipe[p].at = "noting" /\ pipe[p].job = d) \/ Found(d)

OneTunnel == \A d, e \in Job : tunnel[d] = "up" /\ tunnel[e] = "up" => d = e
OneOfKey ==
  \A k \in DeployKey : \A d, e \in RecentOf(k) :
    row[d].status # "rolled_back" /\ row[e].status # "rolled_back" => d = e

OrderPart ==
  /\ OneDeploy
  /\ Ranked
  /\ \A p \in Pipeline : RowOfOwn(p) /\ Keyed(p)
  /\ DeployingIsOpen
  /\ TunnelsAreFound
  /\ OneTunnel
  /\ OneOfKey

OrderInv == JobsInv /\ (orderly => OrderPart)

LEMMA OrderInit == JobsInit => OrderPart
<1> SUFFICES ASSUME JobsInit PROVE OrderPart
  OBVIOUS
<1>1. /\ \A p \in Pipeline : pipe[p].at = "idle" /\ pipe[p].kind = "none"
      /\ \A d \in Job : row[d].status = "absent" /\ ~row[d].noted /\ tunnel[d] = "none"
  BY DEF JobsInit, Resting
<1>2. OneDeploy /\ Ranked /\ DeployingIsOpen /\ TunnelsAreFound /\ OneTunnel
  BY <1>1 DEF OneDeploy, Ranked, DeployingIsOpen, TunnelsAreFound, OneTunnel
<1>3. OneOfKey
  BY <1>1 DEF OneOfKey, RecentOf
<1>4. ASSUME NEW p \in Pipeline PROVE RowOfOwn(p) /\ Keyed(p)
  BY <1>1 DEF RowOfOwn, Keyed
<1> QED
  BY <1>2, <1>3, <1>4 DEF OrderPart

\* The types, and what the invariant says of a request.
LEMMA OrderTypes ==
  ASSUME JobsInv
  PROVE  /\ pipe \in [Pipeline -> PipeRecord]
         /\ row \in [Job -> RowRecord]
         /\ tunnel \in [Job -> {"none", "up"}]
         /\ \A p \in Pipeline : HasJob(p) /\ HasRow(p)
         /\ OwnJobs
BY TypesByName DEF JobsInv

\* The fields of a row.
LEMMA RowFields ==
  ASSUME JobsInv, NEW d \in Job
  PROVE  /\ row[d].rank \in Nat
         /\ row[d].noted \in BOOLEAN
         /\ row[d].recent \in BOOLEAN
BY OrderTypes DEF RowRecord

\* A request with a row has a job; one about to record its tunnel is a deploy.
LEMMA WithJob ==
  ASSUME JobsInv, NEW p \in Pipeline
  PROVE  /\ pipe[p].at \in WithRow \cup {"recording"} => pipe[p].job \in Job
         /\ pipe[p].at \in WithRow /\ pipe[p].kind # "rollback" =>
              /\ pipe[p].kind \in {"deploy", "build"}
              /\ pipe[p].row = pipe[p].job
              /\ row[pipe[p].job].status # "absent"
         /\ pipe[p].at = "noting" /\ RowOfOwn(p) => pipe[p].kind = "deploy"
<1>1. HasJob(p) /\ HasRow(p)
  BY DEF JobsInv
<1>2. pipe[p].at \in WithRow \cup {"recording"} => pipe[p].job \in Job
  BY <1>1 DEF HasJob, WithRow, InTry, Working, Stage
<1>3. pipe[p].at \in WithRow /\ pipe[p].kind # "rollback" =>
        /\ pipe[p].kind \in {"deploy", "build"}
        /\ pipe[p].row = pipe[p].job
        /\ row[pipe[p].job].status # "absent"
  BY <1>1 DEF HasRow, WithRow, InTry
<1>4. pipe[p].at = "noting" /\ RowOfOwn(p) => pipe[p].kind = "deploy"
  BY <1>1, <1>3 DEF RowOfOwn, HasRow, NoRollback, WithRow, InTry
<1> QED
  BY <1>2, <1>3, <1>4

\* A step of a request that writes no row and opens no tunnel.
LEMMA OrderGo ==
  ASSUME JobsInv, OrderPart, NEW p \in Pipeline,
         \A q \in Pipeline : q # p => pipe'[q] = pipe[q],
         row' = row,
         \A d \in Job : tunnel'[d] = "none" \/ tunnel'[d] = tunnel[d],
         pipe'[p].kind = "deploy" => \A q \in Pipeline : q # p => pipe[q].kind # "deploy",
         pipe[p].at \in {"noting", "concluding"} => tunnel[pipe[p].job] = "none",
         pipe[p].kind = "deploy" /\ pipe[p].at \in Late =>
           /\ pipe'[p].kind = "deploy" /\ pipe'[p].job = pipe[p].job
           /\ pipe'[p].at \in Late,
         RowOfOwn(p)', Keyed(p)'
  PROVE  OrderPart'
<1>1. /\ OneDeploy /\ Ranked /\ DeployingIsOpen /\ TunnelsAreFound /\ OneTunnel /\ OneOfKey
      /\ \A q \in Pipeline : RowOfOwn(q) /\ Keyed(q)
  BY DEF OrderPart
<1>2. \A d \in Job : Newest(d)' <=> Newest(d)
  BY DEF Newest
<1>3. \A d \in Job : tunnel'[d] = "up" => tunnel[d] = "up"
  OBVIOUS
<1>4. OneDeploy'
  BY <1>1 DEF OneDeploy
<1>5. Ranked'
  BY <1>1 DEF Ranked, Existing
<1>6. ASSUME NEW q \in Pipeline, q # p PROVE RowOfOwn(q)' /\ Keyed(q)'
  <2>1. pipe'[q] = pipe[q] /\ RowOfOwn(q) /\ Keyed(q)
    BY <1>1, <1>6
  <2>2. pipe[q].at \in WithRow => pipe[q].job \in Job
    BY WithJob
  <2>3. RowOfOwn(q)'
    BY <1>2, <1>3, <2>1, <2>2 DEF RowOfOwn
  <2>4. Keyed(q)'
    BY <2>1 DEF Keyed, RecentOf
  <2> QED
    BY <2>3, <2>4
<1>7. TunnelsAreFound'
  <2> SUFFICES ASSUME NEW d \in Job, tunnel'[d] = "up"
               PROVE  \/ \E q \in Pipeline : pipe'[q].at = "noting" /\ pipe'[q].job = d
                      \/ Found(d)'
    BY DEF TunnelsAreFound
  <2>1. tunnel[d] = "up"
    BY <1>3
  <2>2. ASSUME NEW q \in Pipeline, pipe[q].at \in {"noting", "concluding"}, pipe[q].job = d
        PROVE  pipe'[q] = pipe[q]
    BY <2>1, <2>2
  <2>3. CASE \E q \in Pipeline : pipe[q].at = "noting" /\ pipe[q].job = d
    BY <2>2, <2>3
  <2>4. CASE Found(d)
    BY <1>2, <2>2, <2>4 DEF Found
  <2> QED
    BY <1>1, <2>1, <2>3, <2>4 DEF TunnelsAreFound
<1>8. OneTunnel'
  BY <1>1, <1>3 DEF OneTunnel
<1>9. OneOfKey'
  BY <1>1 DEF OneOfKey, RecentOf
<1>10. DeployingIsOpen'
  BY <1>1 DEF DeployingIsOpen
<1> QED
  BY <1>4, <1>5, <1>6, <1>7, <1>8, <1>9, <1>10 DEF OrderPart

\* A step of a request that writes the status of a row: its own, or, in a
\* rollback, any.
LEMMA OrderStatus ==
  ASSUME JobsInv, OrderPart, NEW p \in Pipeline, NEW d \in Job,
         NEW status \in {"building", "deploying", "success", "failed", "rolled_back"},
         SetRow(d, status), tunnel' = tunnel,
         \A q \in Pipeline : q # p => pipe'[q] = pipe[q],
         pipe'[p].kind = pipe[p].kind, pipe'[p].key = pipe[p].key,
         pipe'[p].job = pipe[p].job, pipe'[p].at # "idle",
         pipe[p].at # "noting",
         row[d].status # "absent",
         status # "rolled_back" =>
           /\ pipe[p].at \in WithRow /\ pipe[p].kind \in {"deploy", "build"}
           /\ d = pipe[p].job,
         status = "rolled_back" => pipe[p].kind = "rollback",
         status = "deploying" => pipe[p].kind = "deploy" /\ pipe'[p].at \in Late,
         pipe[p].at = "concluding" => status = "success",
         status = "failed" => tunnel[d] = "none",
         pipe[p].kind \in {"deploy", "build"} /\ pipe'[p].at \in WithRow =>
           /\ RowOfOwn(p) /\ pipe[p].at \in NoTunnelYet /\ status # "failed"
           /\ pipe'[p].at \notin {"tunnelling", "noting", "failing"}
           /\ pipe'[p].at \in {"deploying", "clearing"} => pipe[p].kind = "deploy"
  PROVE  OrderPart'
<1>1. /\ OneDeploy /\ Ranked /\ DeployingIsOpen /\ TunnelsAreFound /\ OneTunnel /\ OneOfKey
      /\ \A q \in Pipeline : RowOfOwn(q) /\ Keyed(q)
  BY DEF OrderPart
<1>2. /\ row \in [Job -> RowRecord] /\ OwnJobs
      /\ \A e \in Job : row[e] \in RowRecord
  BY OrderTypes
<1>3. /\ row'[d].status = status /\ row'[d].key = row[d].key /\ row'[d].recent = row[d].recent
      /\ row'[d].rank = row[d].rank /\ row'[d].noted = row[d].noted
      /\ \A e \in Job : e # d => row'[e] = row[e]
  <2> DEFINE r == [row[d] EXCEPT !.status = status]
  <2>1. /\ r.status = status /\ r.key = row[d].key /\ r.recent = row[d].recent
        /\ r.rank = row[d].rank /\ r.noted = row[d].noted
    BY <1>2 DEF RowRecord
  <2>2. row' = [row EXCEPT ![d] = r]
    BY DEF SetRow
  <2> HIDE DEF r
  <2> QED
    BY <1>2, <2>1, <2>2
<1>4. \A e \in Job : /\ row'[e].rank = row[e].rank /\ row'[e].noted = row[e].noted
                     /\ row'[e].key = row[e].key /\ row'[e].recent = row[e].recent
                     /\ row'[e].status = "absent" <=> row[e].status = "absent"
  BY <1>3
<1>5. \A e \in Job : Newest(e)' <=> Newest(e)
  BY <1>4 DEF Newest
<1>6. OneDeploy'
  BY <1>1 DEF OneDeploy
<1>7. Ranked'
  <2>1. Existing' = Existing
    BY <1>4 DEF Existing
  <2> QED
    BY <1>1, <1>4, <2>1 DEF Ranked
<1>8. DeployingIsOpen'
  <2> SUFFICES ASSUME NEW e \in Job, row'[e].status = "deploying"
               PROVE  \E q \in Pipeline : /\ pipe'[q].job = e /\ pipe'[q].kind = "deploy"
                                         /\ pipe'[q].at \in Late
    BY DEF DeployingIsOpen
  <2>1. CASE e = d
    BY <1>3, <2>1
  <2>2. CASE e # d
    <3>1. PICK q \in Pipeline : pipe[q].job = e /\ pipe[q].kind = "deploy" /\ pipe[q].at \in Late
      BY <1>1, <1>3, <2>2 DEF DeployingIsOpen
    <3>2. q # p
      BY <2>2, <3>1
    <3> QED
      BY <3>1, <3>2
  <2> QED
    BY <2>1, <2>2
<1>9. ASSUME NEW q \in Pipeline PROVE RowOfOwn(q)'
  <2>1. CASE q # p
    <3>1. pipe'[q] = pipe[q] /\ RowOfOwn(q)
      BY <1>1, <2>1
    <3>2. pipe[q].at \in WithRow => pipe[q].job \in Job
      BY WithJob
    <3> QED
      BY <1>4, <1>5, <2>1, <3>1, <3>2 DEF RowOfOwn
  <2>2. CASE q = p
    <3> SUFFICES ASSUME pipe[p].kind \in {"deploy", "build"}, pipe'[p].at \in WithRow
                 PROVE  RowOfOwn(p)'
      BY <2>2 DEF RowOfOwn
    <3>1. pipe[p].at \in WithRow
      BY DEF NoTunnelYet, WithRow, InTry
    <3>2. pipe[p].job \in Job /\ RowOfOwn(p)
      BY <3>1, WithJob
    <3> QED
      BY <1>4, <1>5, <3>1, <3>2 DEF RowOfOwn
  <2> QED
    BY <2>1, <2>2
<1>10. ASSUME NEW q \in Pipeline, NEW e \in Job, pipe[q].kind = "deploy",
              e \in RecentOf(pipe[q].key)'
       PROVE  e = pipe[q].job \/ row'[e].status = "rolled_back"
  <2> SUFFICES ASSUME row'[e].status # "rolled_back" PROVE e = pipe[q].job
    OBVIOUS
  <2>1. pipe'[q].key = pipe[q].key
    BY <1>10
  <2>2. row'[e].key = pipe[q].key /\ row'[e].recent /\ row'[e].status \notin {"absent", "failed"}
    BY <1>10, <2>1 DEF RecentOf
  <2>3. CASE e = d
    <3>1. pipe[p].at \in WithRow /\ pipe[p].kind \in {"deploy", "build"} /\ d = pipe[p].job
      BY <1>3, <2>3
    <3>2. row[d].key = pipe[p].key
      BY <1>1, <3>1 DEF RowOfOwn
    <3>3. pipe[p].key \in DeployKey
      BY <1>1, <1>3, <1>10, <2>2, <2>3, <3>2 DEF Keyed
    <3>4. pipe[p].kind = "deploy"
      BY <1>1, <3>1, <3>3, DeployJobsAssumption DEF Keyed
    <3> QED
      BY <1>1, <1>10, <2>3, <3>1, <3>4 DEF OneDeploy
  <2>4. CASE e # d
    <3>1. e \in RecentOf(pipe[q].key) /\ row[e].status # "rolled_back"
      BY <1>3, <2>2, <2>4 DEF RecentOf
    <3> QED
      BY <1>1, <1>10, <3>1 DEF Keyed
  <2> QED
    BY <2>3, <2>4
<1>11. ASSUME NEW q \in Pipeline PROVE Keyed(q)'
  <2>1. /\ Keyed(q) /\ pipe'[q].kind = pipe[q].kind /\ pipe'[q].key = pipe[q].key
        /\ pipe'[q].job = pipe[q].job /\ (pipe'[q].at = "idle" => pipe[q].at = "idle")
    BY <1>1
  <2>2. RecentOf(pipe[q].key)' \subseteq Job
    BY DEF RecentOf
  <2> QED
    BY <1>10, <2>1, <2>2 DEF Keyed
<1>12. TunnelsAreFound'
  <2> SUFFICES ASSUME NEW e \in Job, tunnel[e] = "up"
               PROVE  \/ \E q \in Pipeline : pipe'[q].at = "noting" /\ pipe'[q].job = e
                      \/ Found(e)'
    BY DEF TunnelsAreFound
  <2>1. CASE \E q \in Pipeline : pipe[q].at = "noting" /\ pipe[q].job = e
    BY <2>1
  <2>2. CASE Found(e)
    <3>1. row'[e].noted /\ Newest(e)'
      BY <1>4, <1>5, <2>2 DEF Found
    <3>2. CASE e = d
      BY <1>3, <3>1, <3>2 DEF Found
    <3>3. CASE e # d
      <4>1. ASSUME NEW q \in Pipeline, pipe[q].at = "concluding", pipe[q].job = e PROVE q # p
        BY <3>3, <4>1
      <4> QED
        BY <1>3, <2>2, <3>1, <3>3, <4>1 DEF Found
    <3> QED
      BY <3>2, <3>3
  <2> QED
    BY <1>1, <2>1, <2>2 DEF TunnelsAreFound
<1>13. OneTunnel'
  BY <1>1 DEF OneTunnel
<1>14. OneOfKey'
  <2> SUFFICES ASSUME NEW k \in DeployKey, NEW e \in RecentOf(k)', NEW f \in RecentOf(k)',
                      row'[e].status # "rolled_back", row'[f].status # "rolled_back", e # f
               PROVE  FALSE
    BY DEF OneOfKey
  <2>1. /\ e \in Job /\ row'[e].key = k /\ row'[e].recent
        /\ row'[e].status \notin {"absent", "failed"}
        /\ f \in Job /\ row'[f].key = k /\ row'[f].recent
        /\ row'[f].status \notin {"absent", "failed"}
    BY DEF RecentOf
  <2>2. ASSUME NEW x \in Job, x # d, row'[x].key = k, row'[x].recent,
               row'[x].status \notin {"absent", "failed"}, row'[x].status # "rolled_back"
        PROVE  x \in RecentOf(k) /\ row[x].status # "rolled_back"
    BY <1>3, <2>2 DEF RecentOf
  <2>3. ASSUME NEW x \in Job, x # d, x \in RecentOf(k), row[x].status # "rolled_back",
               row[d].key = k, status # "rolled_back"
        PROVE  FALSE
    <3>1. row[d].key = pipe[p].key
      BY <1>1, <2>3 DEF RowOfOwn
    <3>2. pipe[p].kind = "deploy"
      BY <1>1, <2>3, <3>1, DeployJobsAssumption DEF Keyed
    <3> QED
      BY <1>1, <2>3, <3>1, <3>2 DEF Keyed
  <2>4. CASE e = d
    BY <1>3, <2>1, <2>2, <2>3, <2>4
  <2>5. CASE f = d
    BY <1>3, <2>1, <2>2, <2>3, <2>5
  <2>6. CASE e # d /\ f # d
    BY <1>1, <2>1, <2>2, <2>6 DEF OneOfKey
  <2> QED
    BY <2>4, <2>5, <2>6
<1> QED
  BY <1>6, <1>7, <1>8, <1>9, <1>11, <1>12, <1>13, <1>14 DEF OrderPart

\* What a request that goes to a stage leaves alone.
LEMMA GoKeeps ==
  ASSUME JobsInv, NEW p \in Pipeline, NEW stage \in Stage, Go(p, stage)
  PROVE  /\ pipe'[p].at = stage
         /\ pipe'[p].kind = pipe[p].kind
         /\ pipe'[p].job = pipe[p].job
         /\ pipe'[p].row = pipe[p].row
         /\ pipe'[p].key = pipe[p].key
         /\ \A q \in Pipeline : q # p => pipe'[q] = pipe[q]
<1>1. pipe \in [Pipeline -> PipeRecord] /\ pipe[p] \in PipeRecord
  BY OrderTypes
<1> DEFINE r == [pipe[p] EXCEPT !.at = stage]
<1>2. /\ r.at = stage /\ r.kind = pipe[p].kind /\ r.job = pipe[p].job /\ r.row = pipe[p].row
      /\ r.key = pipe[p].key
  BY <1>1 DEF PipeRecord
<1>3. pipe' = [pipe EXCEPT ![p] = r]
  BY DEF Go
<1> HIDE DEF r
<1> QED
  BY <1>1, <1>2, <1>3

\* A request that only goes to another stage.
LEMMA OrderStage ==
  ASSUME JobsInv, OrderPart, NEW p \in Pipeline, NEW stage \in Stage \ {"idle"}, Go(p, stage),
         UNCHANGED rowVars,
         pipe[p].at # "idle",
         pipe[p].at \in {"noting", "concluding"} => tunnel[pipe[p].job] = "none",
         pipe[p].kind = "deploy" /\ pipe[p].at \in Late => stage \in Late,
         RowOfOwn(p)'
  PROVE  OrderPart'
<1>1. /\ pipe'[p].at = stage /\ pipe'[p].kind = pipe[p].kind
      /\ pipe'[p].job = pipe[p].job /\ pipe'[p].key = pipe[p].key
      /\ \A q \in Pipeline : q # p => pipe'[q] = pipe[q]
  BY GoKeeps
<1>2. OneDeploy /\ Keyed(p) /\ row' = row /\ tunnel' = tunnel
  BY DEF OrderPart, rowVars
<1>3. Keyed(p)'
  BY <1>1, <1>2 DEF Keyed, RecentOf
<1>4. pipe'[p].kind = "deploy" => \A q \in Pipeline : q # p => pipe[q].kind # "deploy"
  BY <1>1, <1>2 DEF OneDeploy
<1> QED
  BY <1>1, <1>2, <1>3, <1>4, OrderGo

\* A request that comes to rest.
LEMMA OrderRest ==
  ASSUME JobsInv, OrderPart, NEW p \in Pipeline, pipe' = [pipe EXCEPT ![p] = Resting],
         UNCHANGED rowVars, pipe[p].at \notin Late
  PROVE  OrderPart'
<1>1. /\ pipe'[p] = Resting
      /\ \A q \in Pipeline : q # p => pipe'[q] = pipe[q]
  BY OrderTypes
<1>2. Resting.at = "idle" /\ Resting.kind = "none"
  BY DEF Resting
<1>3. RowOfOwn(p)' /\ Keyed(p)'
  BY <1>1, <1>2 DEF RowOfOwn, Keyed
<1>4. row' = row /\ tunnel' = tunnel
  BY DEF rowVars
<1>5. pipe[p].at \notin {"noting", "concluding"}
  BY DEF Late
<1> QED
  BY <1>1, <1>2, <1>3, <1>4, <1>5, OrderGo

\* Nothing that this is about changes.
LEMMA OrderQuiet ==
  ASSUME OrderPart, UNCHANGED <<pipe, rowVars>>
  PROVE  OrderPart'
<1>1. pipe' = pipe /\ row' = row /\ tunnel' = tunnel
  BY DEF rowVars
<1>2. OneDeploy' /\ Ranked' /\ DeployingIsOpen' /\ OneTunnel'
  BY <1>1 DEF OrderPart, OneDeploy, Ranked, Existing, DeployingIsOpen, OneTunnel
<1>3. OneOfKey'
  BY <1>1 DEF OrderPart, OneOfKey, RecentOf
<1>4. TunnelsAreFound'
  BY <1>1 DEF OrderPart, TunnelsAreFound, Found, Newest
<1>5. ASSUME NEW p \in Pipeline PROVE RowOfOwn(p)' /\ Keyed(p)'
  <2>1. RowOfOwn(p) /\ Keyed(p)
    BY DEF OrderPart
  <2> QED
    BY <1>1, <2>1 DEF RowOfOwn, Newest, Keyed, RecentOf
<1> QED
  BY <1>2, <1>3, <1>4, <1>5 DEF OrderPart

-----------------------------------------------------------------------------
(* One lemma per action, or a few.  Since a failure ends the order, what   *)
(* follows says nothing of the ways in which a step fails.                 *)

\* Once something failed, overlapped or died it stays so.
LEMMA OrderEnds == JobsTypeOK /\ [JobsNext]_jobsVars /\ orderly' => orderly
<1> SUFFICES ASSUME JobsTypeOK, [JobsNext]_jobsVars, orderly' PROVE orderly
  OBVIOUS
<1>1. Works => orderly
  BY DEF Works
<1>2. ~Fails
  BY DEF Fails
<1>3. CASE UNCHANGED jobsVars
  BY <1>3 DEF jobsVars
<1>4. ASSUME NEW p \in Pipeline, PipelineStep(p) PROVE orderly
  BY <1>1, <1>2, <1>4 DEF PipelineStep, CreateJob, StartJob, RecordRow, Provision, Prepare, Build,
     Deploy, Throws, ThrowsLate, ClearTunnel, OpenTunnel, SkipTunnel, NoteTunnel, Conclude,
     Rollback, FailRow, Save, LogError, SaveError, Settle
<1>5. ASSUME NEW p \in Pipeline,
             \/ BeginBuild(p)
             \/ \E k \in DeployKey, preview \in BOOLEAN : BeginDeploy(p, k, preview)
             \/ \E d \in Job : BeginRollback(p, d)
      PROVE  orderly
  BY <1>1, <1>2, <1>5 DEF BeginBuild, BeginDeploy, BeginRollback
<1>6. ASSUME NEW j \in Job, WriteChunk(j) \/ Ages(j) \/ LogLook(j) PROVE orderly
  BY <1>1, <1>2, <1>6 DEF WriteChunk, Ages, LogLook, LookFinds, LookSettles
<1>7. ASSUME NEW r \in Reader, Connect(r) \/ PollStream(r) \/ BreakStream(r) PROVE orderly
  BY <1>7 DEF Connect, PollStream, BreakStream
<1>8. ~ProcessDies
  BY <1>2 DEF ProcessDies
<1> QED
  BY <1>3, <1>4, <1>5, <1>6, <1>7, <1>8 DEF JobsNext

\* A deploy begins when nobody else is at work.
LEMMA BeginOrder ==
  ASSUME JobsInv, OrderPart, orderly', NEW p \in Pipeline,
         \/ BeginBuild(p)
         \/ \E k \in DeployKey, preview \in BOOLEAN : BeginDeploy(p, k, preview)
         \/ \E d \in Job : BeginRollback(p, d)
  PROVE  OrderPart'
<1>1. /\ pipe \in [Pipeline -> PipeRecord] /\ tunnel \in [Job -> {"none", "up"}]
      /\ \A q \in Pipeline : Keyed(q)
  BY OrderTypes DEF OrderPart
<1>2. ASSUME NEW r, pipe' = [pipe EXCEPT ![p] = r], pipe[p].at = "idle", row' = row,
             r.at = "creating",
             \A d \in Job : tunnel'[d] = "none" \/ tunnel'[d] = tunnel[d],
             r.kind = "deploy" =>
               /\ \A q \in Pipeline : pipe[q].at = "idle"
               /\ r.key \in DeployKey /\ RecentOf(r.key) = {},
             r.kind = "build" => r.key = NoJob
      PROVE  OrderPart'
  <2>1. /\ pipe'[p] = r
        /\ \A q \in Pipeline : q # p => pipe'[q] = pipe[q]
    BY <1>1, <1>2
  <2>2. RowOfOwn(p)'
    BY <1>2, <2>1 DEF RowOfOwn, WithRow, InTry
  <2>3. Keyed(p)'
    BY <1>2, <2>1 DEF Keyed, RecentOf
  <2>4. pipe'[p].kind = "deploy" => \A q \in Pipeline : q # p => pipe[q].kind # "deploy"
    BY <1>1, <1>2, <2>1 DEF Keyed
  <2> QED
    BY <1>2, <2>1, <2>2, <2>3, <2>4, OrderGo DEF Late
<1>3. CASE BeginBuild(p)
  <2> DEFINE r == [Resting EXCEPT !.at = "creating", !.kind = "build"]
  <2>1. r.at = "creating" /\ r.kind = "build" /\ r.key = NoJob
    BY DEF Resting
  <2>2. /\ pipe' = [pipe EXCEPT ![p] = r] /\ pipe[p].at = "idle" /\ row' = row /\ tunnel' = tunnel
    BY <1>3 DEF BeginBuild, rowVars
  <2> HIDE DEF r
  <2> QED
    BY <1>2, <2>1, <2>2
<1>4. ASSUME NEW k \in DeployKey, NEW preview \in BOOLEAN, BeginDeploy(p, k, preview)
      PROVE  OrderPart'
  <2> DEFINE r == [Resting EXCEPT !.at = "creating", !.kind = "deploy", !.key = k,
                                  !.preview = preview]
  <2>1. r.at = "creating" /\ r.kind = "deploy" /\ r.key = k
    BY DEF Resting
  <2>2. /\ pipe' = [pipe EXCEPT ![p] = r] /\ pipe[p].at = "idle" /\ row' = row /\ tunnel' = tunnel
        /\ RecentOf(k) = {} /\ \A q \in Pipeline : pipe[q].at = "idle"
    BY <1>4 DEF BeginDeploy, rowVars
  <2> HIDE DEF r
  <2> QED
    BY <1>2, <2>1, <2>2
<1>5. ASSUME NEW d \in Job, BeginRollback(p, d)
      PROVE  OrderPart'
  <2> DEFINE r == [Resting EXCEPT !.at = "creating", !.kind = "rollback", !.row = d]
  <2>1. r.at = "creating" /\ r.kind = "rollback"
    BY DEF Resting
  <2>2. pipe' = [pipe EXCEPT ![p] = r] /\ pipe[p].at = "idle" /\ row' = row
    BY <1>5 DEF BeginRollback
  <2>3. \A e \in Job : tunnel'[e] = "none" \/ tunnel'[e] = tunnel[e]
    BY <1>1, <1>5 DEF BeginRollback
  <2> HIDE DEF r
  <2> QED
    BY <1>2, <2>1, <2>2, <2>3
<1> QED
  BY <1>3, <1>4, <1>5

\* The job is created and started.
LEMMA StartOrder ==
  ASSUME JobsInv, OrderPart, orderly', NEW p \in Pipeline, CreateJob(p) \/ StartJob(p)
  PROVE  OrderPart'
<1>1. /\ pipe \in [Pipeline -> PipeRecord] /\ pipe[p] \in PipeRecord
      /\ HasJob(p) /\ OneDeploy /\ Keyed(p)
  BY OrderTypes DEF OrderPart
<1>2. CASE CreateJob(p)
  <2>1. PICK j \in Job : pipe' = [pipe EXCEPT ![p].at = "starting", ![p].job = j]
    BY <1>2 DEF CreateJob
  <2> DEFINE r == [pipe[p] EXCEPT !.at = "starting", !.job = j]
  <2>2. r.at = "starting" /\ r.kind = pipe[p].kind /\ r.key = pipe[p].key
    BY <1>1 DEF PipeRecord
  <2>3. pipe' = [pipe EXCEPT ![p] = r]
    BY <2>1
  <2> HIDE DEF r
  <2>4. pipe'[p] = r /\ \A q \in Pipeline : q # p => pipe'[q] = pipe[q]
    BY <1>1, <2>3
  <2>5. pipe[p].at = "creating" /\ pipe[p].job = NoJob /\ row' = row /\ tunnel' = tunnel
    BY <1>1, <1>2 DEF CreateJob, HasJob, rowVars
  <2>6. RowOfOwn(p)'
    BY <2>2, <2>4 DEF RowOfOwn, WithRow, InTry
  <2>7. Keyed(p)'
    BY <1>1, <2>2, <2>4, <2>5, DeployJobsAssumption DEF Keyed, RecentOf
  <2>8. pipe'[p].kind = "deploy" => \A q \in Pipeline : q # p => pipe[q].kind # "deploy"
    BY <1>1, <2>2, <2>4 DEF OneDeploy
  <2> QED
    BY <2>4, <2>5, <2>6, <2>7, <2>8, OrderGo DEF Late
<1>3. CASE StartJob(p)
  <2>1. PICK stage \in {"preparing", "recording"} :
          Go(p, stage) /\ (stage = "preparing" => pipe[p].kind = "rollback")
    BY <1>3 DEF StartJob, Fails
  <2>2. pipe[p].at = "starting" /\ UNCHANGED rowVars
    BY <1>3 DEF StartJob
  <2>3. stage \in Stage \ {"idle"}
    BY DEF Stage, InTry
  <2>4. RowOfOwn(p)'
    BY <2>1, <2>3, GoKeeps DEF RowOfOwn, WithRow, InTry
  <2> QED
    BY <2>1, <2>2, <2>3, <2>4, OrderStage DEF Late
<1> QED
  BY <1>2, <1>3

\* Stages that change neither a row nor a tunnel.
LEMMA StageOrder ==
  ASSUME JobsInv, OrderPart, orderly', NEW p \in Pipeline,
         Provision(p) \/ Prepare(p) \/ Throws(p) \/ SkipTunnel(p)
  PROVE  OrderPart'
<1>1. /\ RowOfOwn(p) /\ HasRow(p) /\ pipe[p].at \in WithRow
      /\ UNCHANGED rowVars
  BY OrderTypes DEF OrderPart, Provision, Prepare, Throws, SkipTunnel, WithRow, InTry
<1>2. /\ pipe[p].job \in Job
      /\ pipe[p].kind \in {"deploy", "build"} => pipe[p].row = pipe[p].job
  BY <1>1, WithJob
<1>3. ASSUME NEW stage \in {"preparing", "building", "unrolling", "concluding", "failing", "erring"},
             Go(p, stage),
             pipe[p].kind \in {"deploy", "build"} /\ stage # "erring" =>
               /\ stage = "failing" => tunnel[pipe[p].job] = "none"
               /\ stage \in NoTunnelYet => pipe[p].at \in NoTunnelYet,
             pipe[p].at \in {"noting", "concluding"} => tunnel[pipe[p].job] = "none",
             pipe[p].at \in Late => stage \in Late
      PROVE  OrderPart'
  <2>1. stage \in Stage \ {"idle"} /\ pipe[p].at # "idle"
    BY <1>1 DEF Stage, InTry, WithRow
  <2>2. /\ pipe'[p].at = stage /\ pipe'[p].kind = pipe[p].kind
        /\ pipe'[p].job = pipe[p].job /\ pipe'[p].key = pipe[p].key
    BY <1>3, <2>1, GoKeeps
  <2>3. row' = row /\ tunnel' = tunnel
    BY <1>1 DEF rowVars
  <2>4. Newest(pipe[p].job)' <=> Newest(pipe[p].job)
    BY <2>2, <2>3 DEF Newest
  <2>5. RowOfOwn(p)'
    BY <1>1, <1>3, <2>2, <2>3, <2>4 DEF RowOfOwn, WithRow, InTry
  <2> QED
    BY <1>1, <1>3, <2>1, <2>5, OrderStage
<1>4. CASE Provision(p)
  BY <1>3, <1>4 DEF Provision, NoTunnelYet, Late
<1>5. CASE Prepare(p)
  BY <1>3, <1>5 DEF Prepare, NoTunnelYet, Late
<1>6. CASE Throws(p)
  <2>1. /\ pipe[p].at \in InTry /\ Go(p, "failing")
        /\ pipe[p].at \in {"noting", "concluding"} => tunnel[pipe[p].row] = "none"
    BY <1>6 DEF Throws
  <2>2. pipe[p].kind \in {"deploy", "build"} => tunnel[pipe[p].job] = "none"
    <3>1. pipe[p].kind \in {"deploy", "build"} => pipe[p].at # "unrolling"
      BY <1>1 DEF HasRow
    <3> QED
      BY <1>1, <1>2, <2>1, <3>1 DEF RowOfOwn, NoTunnelYet, InTry
  <2>3. pipe[p].at \in {"noting", "concluding"} => pipe[p].kind \in {"deploy", "build"}
    BY <1>1 DEF HasRow, NoRollback
  <2> QED
    BY <1>3, <2>1, <2>2, <2>3 DEF NoTunnelYet, Late
<1>7. CASE SkipTunnel(p)
  BY <1>3, <1>7 DEF SkipTunnel, NoTunnelYet, Late
<1> QED
  BY <1>4, <1>5, <1>6, <1>7

\* Stages that write the status of a row.
LEMMA StatusOrder ==
  ASSUME JobsInv, OrderPart, orderly', NEW p \in Pipeline,
         Build(p) \/ Deploy(p) \/ Conclude(p) \/ Rollback(p) \/ FailRow(p)
  PROVE  OrderPart'
<1>1. RowOfOwn(p) /\ HasRow(p) /\ HasJob(p) /\ pipe[p].at \in WithRow
  BY OrderTypes DEF OrderPart, Build, Deploy, Conclude, Rollback, FailRow, WithRow, InTry
<1>2. /\ pipe[p].job \in Job
      /\ pipe[p].kind # "rollback" =>
           /\ pipe[p].kind \in {"deploy", "build"} /\ pipe[p].row = pipe[p].job
           /\ row[pipe[p].job].status # "absent"
  BY <1>1, WithJob
<1>3. ASSUME NEW stage \in Stage \ {"idle"}, Go(p, stage)
      PROVE  /\ pipe'[p].at = stage /\ pipe'[p].kind = pipe[p].kind
             /\ pipe'[p].job = pipe[p].job /\ pipe'[p].key = pipe[p].key
             /\ \A q \in Pipeline : q # p => pipe'[q] = pipe[q]
  BY <1>3, GoKeeps
<1>4. /\ {"deploying", "concluding", "clearing", "saving", "erring"} \subseteq Stage \ {"idle"}
      /\ "saving" \notin WithRow /\ "erring" \notin WithRow
      /\ "clearing" \in Late /\ "concluding" \in Late
  BY DEF Stage, InTry, WithRow, Late
<1>5. CASE Build(p)
  <2>1. /\ pipe[p].at = "building" /\ SetRow(pipe[p].row, "building") /\ tunnel' = tunnel
        /\ Go(p, IF pipe[p].kind = "deploy" THEN "deploying" ELSE "concluding")
    BY <1>5 DEF Build
  <2>2. pipe[p].kind # "rollback" /\ pipe[p].at \in NoTunnelYet
    BY <1>1, <2>1 DEF HasRow, NoRollback, NoTunnelYet
  <2>3. CASE pipe[p].kind = "deploy"
    <3>1. Go(p, "deploying")
      BY <2>1, <2>3
    <3> QED
      BY <1>1, <1>2, <1>3, <1>4, <2>1, <2>2, <2>3, <3>1, OrderStatus
  <2>4. CASE pipe[p].kind # "deploy"
    <3>1. Go(p, "concluding")
      BY <2>1, <2>4
    <3> QED
      BY <1>1, <1>2, <1>3, <1>4, <2>1, <2>2, <3>1, OrderStatus
  <2> QED
    BY <2>3, <2>4
<1>6. CASE Deploy(p)
  <2>1. /\ pipe[p].at = "deploying" /\ SetRow(pipe[p].row, "deploying") /\ tunnel' = tunnel
        /\ Go(p, IF pipe[p].preview THEN "clearing" ELSE "concluding")
    BY <1>6 DEF Deploy
  <2>2. pipe[p].kind # "rollback" /\ pipe[p].at \in NoTunnelYet
    BY <1>1, <2>1 DEF HasRow, NoRollback, NoTunnelYet
  <2>3. pipe[p].kind = "deploy"
    BY <1>1, <1>2, <2>1, <2>2 DEF RowOfOwn
  <2>4. CASE Go(p, "clearing")
    BY <1>1, <1>2, <1>3, <1>4, <2>1, <2>2, <2>3, <2>4, OrderStatus
  <2>5. CASE Go(p, "concluding")
    BY <1>1, <1>2, <1>3, <1>4, <2>1, <2>2, <2>3, <2>5, OrderStatus
  <2> QED
    BY <2>1, <2>4, <2>5
<1>7. CASE Conclude(p)
  <2>1. /\ pipe[p].at = "concluding" /\ SetRow(pipe[p].row, "success") /\ tunnel' = tunnel
        /\ Go(p, "saving")
    BY <1>7 DEF Conclude
  <2>2. pipe[p].kind # "rollback"
    BY <1>1, <2>1 DEF HasRow, NoRollback
  <2> QED
    BY <1>1, <1>2, <1>3, <1>4, <2>1, <2>2, OrderStatus
<1>8. CASE Rollback(p)
  <2>1. /\ pipe[p].at = "unrolling" /\ SetRow(pipe[p].row, "rolled_back") /\ tunnel' = tunnel
        /\ Go(p, "saving")
    BY <1>8 DEF Rollback
  <2>2. pipe[p].kind = "rollback" /\ pipe[p].row \in Job /\ row[pipe[p].row].status # "absent"
    BY <1>1, <2>1 DEF HasRow
  <2> QED
    BY <1>3, <1>4, <2>1, <2>2, OrderStatus
<1>9. CASE FailRow(p)
  <2>1. /\ pipe[p].at = "failing" /\ Go(p, "erring") /\ tunnel' = tunnel
        /\ IF pipe[p].kind = "rollback" THEN UNCHANGED row ELSE SetRow(pipe[p].row, "failed")
    BY <1>9 DEF FailRow, Fails
  <2>2. CASE pipe[p].kind = "rollback"
    <3>1. RowOfOwn(p)'
      BY <1>3, <1>4, <2>1 DEF RowOfOwn
    <3>2. UNCHANGED rowVars
      BY <2>1, <2>2 DEF rowVars
    <3> QED
      BY <1>4, <2>1, <2>2, <3>1, <3>2, OrderStage
  <2>3. CASE pipe[p].kind # "rollback"
    <3>1. tunnel[pipe[p].job] = "none" /\ SetRow(pipe[p].row, "failed")
      BY <1>1, <1>2, <2>1, <2>3 DEF RowOfOwn
    <3> QED
      BY <1>1, <1>2, <1>3, <1>4, <2>1, <2>3, <3>1, OrderStatus
  <2> QED
    BY <2>2, <2>3
<1> QED
  BY <1>5, <1>6, <1>7, <1>8, <1>9

\* The end of a job.
LEMMA EndOrder ==
  ASSUME JobsInv, OrderPart, orderly', NEW p \in Pipeline,
         Save(p) \/ LogError(p) \/ SaveError(p)
  PROVE  OrderPart'
<1>1. /\ pipe[p].at \in {"saving", "erring", "savingError"} /\ UNCHANGED rowVars
  BY DEF Save, LogError, SaveError
<1>2. ~Fails
  BY DEF Fails
<1>3. \/ Go(p, "erring")
      \/ Go(p, "savingError")
      \/ pipe' = [pipe EXCEPT ![p] = Resting]
  BY <1>2 DEF Save, LogError, SaveError, Settle
<1>4. ASSUME NEW stage \in {"erring", "savingError"}, Go(p, stage) PROVE OrderPart'
  <2>1. stage \in Stage \ {"idle"}
    BY DEF Stage
  <2>2. RowOfOwn(p)'
    BY <1>4, <2>1, GoKeeps DEF RowOfOwn, WithRow, InTry
  <2> QED
    BY <1>1, <1>4, <2>1, <2>2, OrderStage DEF Late
<1> QED
  BY <1>1, <1>3, <1>4, OrderRest DEF Late

\* destroyPreviousQuickTunnel finds whatever tunnel is still up.
LEMMA ClearOrder ==
  ASSUME JobsInv, OrderPart, orderly', NEW p \in Pipeline, ClearTunnel(p)
  PROVE  OrderPart'
<1>1. /\ pipe[p].at = "clearing" /\ Go(p, "tunnelling") /\ row' = row
      /\ tunnel' = [d \in Job |-> IF d \in Previous THEN "none" ELSE tunnel[d]]
  BY DEF ClearTunnel, Fails
<1>2. /\ tunnel \in [Job -> {"none", "up"}]
      /\ OneDeploy /\ TunnelsAreFound /\ HasRow(p)
      /\ \A q \in Pipeline : RowOfOwn(q) /\ Keyed(q)
  BY OrderTypes DEF OrderPart
<1>3. pipe[p].kind = "deploy" /\ pipe[p].at \in WithRow /\ pipe[p].job \in Job
  BY <1>1, <1>2, WithJob DEF HasRow, NoRollback, RowOfOwn, WithRow, InTry
<1>4. ASSUME NEW d \in Job PROVE tunnel'[d] = "none"
  <2> SUFFICES ASSUME tunnel[d] = "up" PROVE d \in Previous
    BY <1>1, <1>2
  <2>1. ASSUME NEW q \in Pipeline, pipe[q].at = "noting" PROVE FALSE
    <3>1. pipe[q].kind = "deploy"
      BY <1>2, <2>1, WithJob
    <3> QED
      BY <1>1, <1>2, <1>3, <2>1, <3>1 DEF OneDeploy
  <2>2. ASSUME NEW q \in Pipeline, pipe[q].at = "concluding", pipe[q].job = d PROVE FALSE
    <3>1. pipe[q].at \in WithRow /\ pipe[q].kind \in {"deploy", "build"}
      BY <2>2, OrderTypes DEF HasRow, NoRollback, WithRow, InTry
    <3>2. pipe[q].kind = "build" => tunnel[d] = "none"
      BY <1>2, <2>2, <3>1 DEF RowOfOwn
    <3> QED
      BY <1>1, <1>2, <1>3, <2>2, <3>1, <3>2 DEF OneDeploy
  <2>3. row[d].noted /\ row[d].status # "failed" /\ Newest(d)
    BY <1>2, <2>1, <2>2 DEF TunnelsAreFound, Found
  <2> QED
    BY <2>3 DEF Previous, Newest
<1>5. "tunnelling" \in Stage
  BY DEF Stage, InTry
<1>6. /\ pipe'[p].at = "tunnelling" /\ pipe'[p].kind = pipe[p].kind
      /\ pipe'[p].job = pipe[p].job /\ pipe'[p].key = pipe[p].key
      /\ \A q \in Pipeline : q # p => pipe'[q] = pipe[q]
  BY <1>1, <1>5, GoKeeps
<1>7. Newest(pipe[p].job)' <=> Newest(pipe[p].job)
  BY <1>1, <1>6 DEF Newest
<1>8. RowOfOwn(p)'
  BY <1>1, <1>2, <1>3, <1>4, <1>6, <1>7 DEF RowOfOwn, NoTunnelYet
<1>9. Keyed(p)'
  BY <1>1, <1>2, <1>6 DEF Keyed, RecentOf
<1>10. pipe'[p].kind = "deploy" => \A q \in Pipeline : q # p => pipe[q].kind # "deploy"
  BY <1>2, <1>3 DEF OneDeploy
<1> QED
  BY <1>1, <1>3, <1>4, <1>6, <1>8, <1>9, <1>10, OrderGo DEF Late

\* The tunnel that is opened is the only one.
LEMMA OpenOrder ==
  ASSUME JobsInv, OrderPart, orderly', NEW p \in Pipeline, OpenTunnel(p)
  PROVE  OrderPart'
<1> DEFINE own == pipe[p].job
<1>1. /\ pipe[p].at = "tunnelling" /\ Go(p, "noting") /\ row' = row
      /\ tunnel' = [tunnel EXCEPT ![pipe[p].row] = "up"]
  BY DEF OpenTunnel, Fails
<1>2. /\ tunnel \in [Job -> {"none", "up"}]
      /\ OneDeploy /\ Ranked /\ OneOfKey /\ HasRow(p) /\ OwnJobs
      /\ \A q \in Pipeline : RowOfOwn(q) /\ Keyed(q)
  BY OrderTypes DEF OrderPart
<1>3. /\ pipe[p].kind = "deploy" /\ pipe[p].at \in WithRow /\ own \in Job
      /\ pipe[p].row = own /\ row[own].status # "absent"
  BY <1>1, <1>2, WithJob DEF HasRow, NoRollback, RowOfOwn, WithRow, InTry
<1>4. \A e \in Job : tunnel[e] = "none"
  BY <1>1, <1>2, <1>3 DEF RowOfOwn
<1>5. tunnel'[own] = "up" /\ \A e \in Job : e # own => tunnel'[e] = "none"
  BY <1>1, <1>2, <1>3, <1>4
<1>6. "noting" \in Stage
  BY DEF Stage, InTry
<1>7. /\ pipe'[p].at = "noting" /\ pipe'[p].kind = pipe[p].kind
      /\ pipe'[p].job = own /\ pipe'[p].key = pipe[p].key
      /\ \A q \in Pipeline : q # p => pipe'[q] = pipe[q]
  BY <1>1, <1>6, GoKeeps
<1> HIDE DEF own
<1>8. \A d \in Job : Newest(d)' <=> Newest(d)
  BY <1>1 DEF Newest
<1>9. OneDeploy'
  <2>1. \A q \in Pipeline : pipe'[q].kind = pipe[q].kind
    BY <1>7
  <2> QED
    BY <1>2, <2>1 DEF OneDeploy
<1>10. Ranked'
  <2>1. Existing' = Existing
    BY <1>1 DEF Existing
  <2> QED
    BY <1>1, <1>2, <1>3, <1>5, <2>1 DEF Ranked
<1>11. RowOfOwn(p)'
  <2>1. RowOfOwn(p) /\ row'[own] = row[own] /\ own = pipe[p].job
    BY <1>1, <1>2 DEF own
  <2> QED
    BY <1>3, <1>5, <1>7, <1>8, <2>1 DEF RowOfOwn, NoTunnelYet
<1>12. ASSUME NEW q \in Pipeline, q # p PROVE RowOfOwn(q)'
  <2>1. RowOfOwn(q) /\ pipe'[q] = pipe[q]
    BY <1>2, <1>7, <1>12
  <2>2. pipe[q].at \in WithRow => pipe[q].job \in Job
    BY WithJob
  <2>3. pipe[q].at \in WithRow => pipe[q].job # own
    BY <1>2, <1>3, <1>12, <2>2 DEF OwnJobs, own
  <2>4. pipe[q].kind # "deploy"
    BY <1>2, <1>3, <1>12 DEF OneDeploy
  <2> QED
    BY <1>1, <1>5, <1>8, <2>1, <2>2, <2>3, <2>4 DEF RowOfOwn
<1>13. ASSUME NEW q \in Pipeline PROVE Keyed(q)'
  <2>1. /\ Keyed(q) /\ pipe'[q].kind = pipe[q].kind /\ pipe'[q].key = pipe[q].key
        /\ pipe'[q].job = pipe[q].job /\ (pipe'[q].at = "idle" => pipe[q].at = "idle")
    BY <1>2, <1>7 DEF own
  <2> QED
    BY <1>1, <2>1 DEF Keyed, RecentOf
<1>14. TunnelsAreFound' /\ OneTunnel'
  BY <1>5, <1>7 DEF TunnelsAreFound, OneTunnel
<1>15. OneOfKey'
  BY <1>1, <1>2 DEF OneOfKey, RecentOf
<1>16. DeployingIsOpen'
  <2>1. DeployingIsOpen
    BY DEF OrderPart
  <2>2. /\ pipe'[p].job = pipe[p].job /\ pipe'[p].kind = pipe[p].kind
        /\ pipe'[p].at \in Late
    BY <1>7 DEF own, Late
  <2> QED
    BY <1>1, <1>7, <2>1, <2>2 DEF DeployingIsOpen
<1> QED
  BY <1>9, <1>10, <1>11, <1>12, <1>13, <1>14, <1>15, <1>16 DEF OrderPart

\* Recorded, it is the newest that is.
LEMMA NoteOrder ==
  ASSUME JobsInv, OrderPart, orderly', NEW p \in Pipeline, NoteTunnel(p)
  PROVE  OrderPart'
<1>1. /\ pipe[p].at = "noting" /\ Go(p, "concluding") /\ tunnel' = tunnel
      /\ row' = [row EXCEPT ![pipe[p].row].noted = TRUE]
  BY DEF NoteTunnel
<1>2. /\ row \in [Job -> RowRecord]
      /\ OneDeploy /\ Ranked /\ OneOfKey /\ OneTunnel /\ TunnelsAreFound /\ HasRow(p) /\ OwnJobs
      /\ \A q \in Pipeline : RowOfOwn(q) /\ Keyed(q)
  BY OrderTypes DEF OrderPart
<1>0. /\ pipe[p].kind = "deploy" /\ pipe[p].at \in WithRow /\ pipe[p].job \in Job
      /\ pipe[p].row = pipe[p].job /\ row[pipe[p].job].status # "absent"
  BY <1>1, <1>2, WithJob DEF HasRow, NoRollback, WithRow, InTry
<1>8. PICK own \in Job : own = pipe[p].job
  BY <1>0
<1>3. /\ pipe[p].kind = "deploy" /\ pipe[p].at \in WithRow
      /\ pipe[p].row = own /\ row[own].status # "absent"
  BY <1>0, <1>8
<1>4. /\ Newest(own)
      /\ \A e \in Job : tunnel[e] = "up" => e = own
  BY <1>1, <1>2, <1>3, <1>8 DEF RowOfOwn
<1>5. /\ row'[own].status = row[own].status /\ row'[own].key = row[own].key
      /\ row'[own].recent = row[own].recent /\ row'[own].rank = row[own].rank
      /\ row'[own].noted = TRUE
      /\ \A e \in Job : e # own => row'[e] = row[e]
  <2> DEFINE r == [row[own] EXCEPT !.noted = TRUE]
  <2>1. row[own] \in RowRecord
    BY <1>2, <1>3
  <2>2. /\ r.status = row[own].status /\ r.key = row[own].key /\ r.recent = row[own].recent
        /\ r.rank = row[own].rank /\ r.noted = TRUE
    BY <2>1 DEF RowRecord
  <2>3. row' = [row EXCEPT ![own] = r]
    BY <1>1, <1>3
  <2> HIDE DEF r
  <2> QED
    BY <1>2, <1>3, <2>2, <2>3
<1>6. "concluding" \in Stage
  BY DEF Stage, InTry
<1>7. /\ pipe'[p].at = "concluding" /\ pipe'[p].kind = pipe[p].kind
      /\ pipe'[p].job = own /\ pipe'[p].key = pipe[p].key
      /\ \A q \in Pipeline : q # p => pipe'[q] = pipe[q]
  BY <1>1, <1>6, <1>8, GoKeeps
<1>9. \A e \in Job : row'[e].status = row[e].status /\ row'[e].key = row[e].key
                     /\ row'[e].recent = row[e].recent /\ row'[e].rank = row[e].rank
  BY <1>5
<1>10. Newest(own)'
  <2>1. row[own].rank \in Nat
    BY <1>3, RowFields
  <2> QED
    BY <1>4, <1>5, <2>1 DEF Newest
<1>11. OneDeploy'
  <2>1. \A q \in Pipeline : pipe'[q].kind = pipe[q].kind
    BY <1>7
  <2> QED
    BY <1>2, <2>1 DEF OneDeploy
<1>12. Ranked'
  <2>1. Existing' = Existing
    BY <1>9 DEF Existing
  <2> QED
    BY <1>1, <1>2, <1>3, <1>5, <2>1 DEF Ranked
<1>13. \A k : RecentOf(k)' = RecentOf(k)
  BY <1>9 DEF RecentOf
<1>14. RowOfOwn(p)'
  BY <1>2, <1>3, <1>5, <1>7, <1>8, <1>10 DEF RowOfOwn, NoTunnelYet
<1>15. ASSUME NEW q \in Pipeline, q # p PROVE RowOfOwn(q)'
  <2>1. RowOfOwn(q) /\ pipe'[q] = pipe[q]
    BY <1>2, <1>7, <1>15
  <2>2. pipe[q].at \in WithRow => pipe[q].job \in Job
    BY WithJob
  <2>3. pipe[q].at \in WithRow => pipe[q].job # own
    BY <1>2, <1>3, <1>8, <1>15, <2>2 DEF OwnJobs
  <2>4. pipe[q].kind # "deploy"
    BY <1>2, <1>3, <1>15 DEF OneDeploy
  <2>5. pipe[q].kind \in {"deploy", "build"} /\ pipe[q].at \in WithRow =>
          row'[pipe[q].job] = row[pipe[q].job] /\ tunnel' = tunnel
    BY <1>1, <1>5, <2>2, <2>3
  <2> QED
    BY <2>1, <2>4, <2>5 DEF RowOfOwn
<1>16. ASSUME NEW q \in Pipeline PROVE Keyed(q)'
  <2>1. /\ Keyed(q) /\ pipe'[q].kind = pipe[q].kind /\ pipe'[q].key = pipe[q].key
        /\ pipe'[q].job = pipe[q].job /\ (pipe'[q].at = "idle" => pipe[q].at = "idle")
    BY <1>2, <1>7, <1>8
  <2>2. RecentOf(pipe[q].key)' = RecentOf(pipe[q].key)
    BY <1>9, <2>1 DEF RecentOf
  <2>3. RecentOf(pipe[q].key) \subseteq Job
    BY DEF RecentOf
  <2> QED
    BY <1>9, <2>1, <2>2, <2>3 DEF Keyed
<1>17. TunnelsAreFound' /\ OneTunnel'
  <2>1. OneTunnel'
    BY <1>1, <1>2 DEF OneTunnel
  <2>2. ASSUME NEW d \in Job, tunnel'[d] = "up"
        PROVE  Found(d)'
    <3>1. d = own
      BY <1>1, <1>4, <2>2
    <3> QED
      BY <1>5, <1>7, <1>10, <3>1 DEF Found
  <2> QED
    BY <2>1, <2>2 DEF TunnelsAreFound
<1>18. OneOfKey'
  <2> SUFFICES ASSUME NEW k \in DeployKey, NEW d \in RecentOf(k)', NEW e \in RecentOf(k)',
                      row'[d].status # "rolled_back", row'[e].status # "rolled_back"
               PROVE  d = e
    BY DEF OneOfKey
  <2>1. d \in RecentOf(k) /\ e \in RecentOf(k) /\ d \in Job /\ e \in Job
    BY <1>9 DEF RecentOf
  <2> QED
    BY <1>2, <1>9, <2>1 DEF OneOfKey
<1>19. DeployingIsOpen'
  <2>1. DeployingIsOpen
    BY DEF OrderPart
  <2>2. /\ pipe'[p].job = pipe[p].job /\ pipe'[p].kind = pipe[p].kind
        /\ pipe'[p].at \in Late
    BY <1>7, <1>8 DEF Late
  <2> QED
    BY <1>7, <1>9, <2>1, <2>2 DEF DeployingIsOpen
<1> QED
  BY <1>11, <1>12, <1>14, <1>15, <1>16, <1>17, <1>18, <1>19 DEF OrderPart

\* A new row ranks behind all others, and for a deploy there is no other of
\* its key that is recent and good.
LEMMA RecordOrder ==
  ASSUME JobsInv, OrderPart, orderly', NEW p \in Pipeline, RecordRow(p)
  PROVE  OrderPart'
<1>0. pipe[p].at = "recording" /\ pipe[p].job \in Job
  BY WithJob DEF RecordRow, WithRow
<1>8. PICK own \in Job : own = pipe[p].job
  BY <1>0
<1> DEFINE rank == 1 + Cardinality(Existing)
           n == [status |-> "running", key |-> pipe[p].key, recent |-> TRUE,
                 noted |-> FALSE, due |-> {}, overtaken |-> FALSE, rank |-> rank]
<1>1. /\ pipe[p].at = "recording" /\ tunnel' = tunnel
      /\ row' = [row EXCEPT ![own] = n]
      /\ pipe' = [pipe EXCEPT ![p].row = own, ![p].at = "provisioning"]
  BY <1>8 DEF RecordRow, Fails, Existing
<1>2. /\ row \in [Job -> RowRecord] /\ pipe \in [Pipeline -> PipeRecord]
      /\ OneDeploy /\ Ranked /\ OneOfKey /\ OneTunnel /\ TunnelsAreFound /\ HasRow(p) /\ OwnJobs
      /\ \A q \in Pipeline : RowOfOwn(q) /\ Keyed(q)
  BY OrderTypes DEF OrderPart
<1>3. pipe[p].kind \in {"deploy", "build"} /\ row[own].status = "absent"
  BY <1>1, <1>2, <1>8 DEF HasRow, NoRollback
<1>4. ~row[own].noted /\ tunnel[own] = "none"
  BY <1>2, <1>3 DEF Ranked
<1>5. IsFiniteSet(Existing) /\ Cardinality(Existing) \in Nat
  <2>1. Existing \subseteq Job
    BY DEF Existing
  <2>2. IsFiniteSet(Existing)
    BY <2>1, DeployJobsAssumption, FS_Subset
  <2> QED
    BY <2>2, FS_CardinalityType
<1>6. /\ row'[own].status = "running" /\ row'[own].key = pipe[p].key /\ row'[own].recent
      /\ ~row'[own].noted /\ row'[own].rank = rank
      /\ \A e \in Job : e # own => row'[e] = row[e]
  <2>1. /\ n.status = "running" /\ n.key = pipe[p].key /\ n.recent
        /\ ~n.noted /\ n.rank = rank
    OBVIOUS
  <2> HIDE DEF n
  <2> QED
    BY <1>1, <1>2, <1>3, <2>1
<1>7. /\ pipe'[p].at = "provisioning" /\ pipe'[p].kind = pipe[p].kind
      /\ pipe'[p].job = own /\ pipe'[p].key = pipe[p].key
      /\ \A q \in Pipeline : q # p => pipe'[q] = pipe[q]
  <2> DEFINE r == [pipe[p] EXCEPT !.row = own, !.at = "provisioning"]
  <2>1. pipe[p] \in PipeRecord
    BY <1>2
  <2>2. r.at = "provisioning" /\ r.kind = pipe[p].kind /\ r.job = own /\ r.key = pipe[p].key
    BY <1>8, <2>1 DEF PipeRecord
  <2>3. pipe' = [pipe EXCEPT ![p] = r]
    BY <1>1
  <2> HIDE DEF r
  <2> QED
    BY <1>2, <2>2, <2>3
<1>a. rank = 1 + Cardinality(Existing)
  OBVIOUS
<1>9. Existing' = Existing \cup {own} /\ own \notin Existing
  <2> HIDE DEF n
  <2> QED
    BY <1>3, <1>6 DEF Existing
<1>10. Cardinality(Existing') = rank
  <2> HIDE DEF n
  <2> QED
    BY <1>5, <1>9, FS_AddElement
<1> HIDE DEF rank, n
<1>11. \A e \in Job : row[e].noted => row[e].status # "absent" /\ row[e].rank <= Cardinality(Existing)
  BY <1>2 DEF Ranked
<1>12. Newest(own)'
  <2> SUFFICES ASSUME NEW e \in Job, row'[e].noted PROVE row'[e].rank <= row'[own].rank
    BY DEF Newest
  <2>1. e # own
    BY <1>6
  <2>2. row[e].rank <= Cardinality(Existing) /\ row'[e].rank = row[e].rank /\ row[e].rank \in Nat
    BY <1>6, <1>11, <2>1, RowFields
  <2> QED
    BY <1>5, <1>6, <1>a, <2>2
<1>13. ASSUME NEW d \in Job, d # own, Newest(d) PROVE Newest(d)'
  <2>1. \A e \in Job : row'[e].noted => e # own
    BY <1>6
  <2> QED
    BY <1>6, <1>13, <2>1 DEF Newest
<1>14. OneDeploy'
  <2>1. \A q \in Pipeline : pipe'[q].kind = pipe[q].kind
    BY <1>7
  <2> QED
    BY <1>2, <2>1 DEF OneDeploy
<1>15. Ranked'
  <2> SUFFICES ASSUME NEW d \in Job
               PROVE  /\ row'[d].status = "absent" => ~row'[d].noted /\ tunnel'[d] = "none"
                      /\ row'[d].status # "absent" => row'[d].rank <= Cardinality(Existing')
    BY DEF Ranked
  <2>1. CASE d = own
    <3>1. rank <= rank
      BY <1>5, <1>a
    <3> QED
      BY <1>6, <1>10, <2>1, <3>1
  <2>2. CASE d # own
    <3>1. row'[d] = row[d] /\ tunnel'[d] = tunnel[d]
      BY <1>1, <1>6, <2>2
    <3>2. row[d].status # "absent" => row[d].rank <= rank
      BY <1>2, <1>5, <1>a, RowFields DEF Ranked
    <3> QED
      BY <1>2, <1>10, <3>1, <3>2 DEF Ranked
  <2> QED
    BY <2>1, <2>2
<1>16. RowOfOwn(p)'
  <2>1. "provisioning" \in NoTunnelYet
    BY DEF NoTunnelYet
  <2> QED
    BY <1>1, <1>4, <1>6, <1>7, <1>12 DEF RowOfOwn
<1>17. ASSUME NEW q \in Pipeline, q # p PROVE RowOfOwn(q)'
  <2>1. RowOfOwn(q) /\ pipe'[q] = pipe[q]
    BY <1>2, <1>7, <1>17
  <2>2. pipe[q].at \in WithRow => pipe[q].job \in Job
    BY WithJob
  <2>3. pipe[q].at \in WithRow => pipe[q].job # own
    BY <1>2, <1>3, <1>8, <1>17, <2>2 DEF OwnJobs
  <2> QED
    BY <1>1, <1>6, <1>13, <2>1, <2>2, <2>3 DEF RowOfOwn
<1>18. ASSUME NEW q \in Pipeline, NEW e \in Job, pipe[q].kind = "deploy",
              e \in RecentOf(pipe[q].key)'
       PROVE  e = pipe[q].job \/ row'[e].status = "rolled_back"
  <2>1. pipe'[q].key = pipe[q].key
    BY <1>7
  <2>2. row'[e].key = pipe[q].key /\ row'[e].recent /\ row'[e].status \notin {"absent", "failed"}
    BY <1>18, <2>1 DEF RecentOf
  <2>3. CASE e = own
    <3>1. pipe[p].key = pipe[q].key /\ pipe[q].key \in DeployKey
      BY <1>2, <1>6, <1>18, <2>2, <2>3 DEF Keyed
    <3>2. pipe[p].kind = "deploy"
      BY <1>2, <1>3, <3>1, DeployJobsAssumption DEF Keyed
    <3> QED
      BY <1>2, <1>8, <1>18, <2>3, <3>2 DEF OneDeploy
  <2>4. CASE e # own
    <3>1. row'[e] = row[e] /\ e \in RecentOf(pipe[q].key)
      BY <1>6, <2>2, <2>4 DEF RecentOf
    <3> QED
      BY <1>2, <1>18, <3>1 DEF Keyed
  <2> QED
    BY <2>3, <2>4
<1>19. ASSUME NEW q \in Pipeline PROVE Keyed(q)'
  <2>1. /\ Keyed(q) /\ pipe'[q].kind = pipe[q].kind /\ pipe'[q].key = pipe[q].key
        /\ pipe'[q].job = pipe[q].job /\ (pipe'[q].at = "idle" => pipe[q].at = "idle")
    BY <1>2, <1>7, <1>8
  <2>2. RecentOf(pipe[q].key)' \subseteq Job
    BY DEF RecentOf
  <2> QED
    BY <1>18, <2>1, <2>2 DEF Keyed
<1>20. TunnelsAreFound'
  <2> SUFFICES ASSUME NEW d \in Job, tunnel[d] = "up"
               PROVE  \/ \E q \in Pipeline : pipe'[q].at = "noting" /\ pipe'[q].job = d
                      \/ Found(d)'
    BY <1>1 DEF TunnelsAreFound
  <2>1. d # own
    BY <1>4
  <2>2. row'[d] = row[d]
    BY <1>6, <2>1
  <2>3. ASSUME NEW q \in Pipeline, pipe[q].at \in {"noting", "concluding"}
        PROVE  pipe'[q] = pipe[q]
    BY <1>1, <1>7, <2>3
  <2>4. Found(d) => Found(d)'
    BY <1>13, <2>1, <2>2, <2>3 DEF Found
  <2> QED
    BY <1>2, <2>3, <2>4 DEF TunnelsAreFound
<1>21. OneTunnel'
  BY <1>1, <1>2 DEF OneTunnel
<1>22. OneOfKey'
  <2> SUFFICES ASSUME NEW k \in DeployKey, NEW e \in RecentOf(k)', NEW f \in RecentOf(k)',
                      row'[e].status # "rolled_back", row'[f].status # "rolled_back", e # f
               PROVE  FALSE
    BY DEF OneOfKey
  <2>1. e \in Job /\ row'[e].key = k /\ f \in Job /\ row'[f].key = k
    BY DEF RecentOf
  <2>2. ASSUME NEW x \in Job, x # own, x \in RecentOf(k)', row'[x].status # "rolled_back"
        PROVE  x \in RecentOf(k) /\ row[x].status # "rolled_back"
    <3>1. row'[x] = row[x]
      BY <1>6, <2>2
    <3> QED
      BY <2>2, <3>1 DEF RecentOf
  <2>3. ASSUME NEW x \in Job, x # own, x \in RecentOf(k), row[x].status # "rolled_back",
               pipe[p].key = k
        PROVE  FALSE
    <3>1. pipe[p].kind = "deploy"
      BY <1>2, <1>3, <2>3, DeployJobsAssumption DEF Keyed
    <3> QED
      BY <1>2, <1>8, <2>3, <3>1 DEF Keyed
  <2>4. CASE e = own
    <3>1. pipe[p].key = k
      BY <1>6, <2>1, <2>4
    <3> QED
      BY <2>1, <2>2, <2>3, <2>4, <3>1
  <2>5. CASE f = own
    <3>1. pipe[p].key = k
      BY <1>6, <2>1, <2>5
    <3> QED
      BY <2>1, <2>2, <2>3, <2>5, <3>1
  <2>6. CASE e # own /\ f # own
    BY <1>2, <2>1, <2>2, <2>6 DEF OneOfKey
  <2> QED
    BY <2>4, <2>5, <2>6
<1>23. DeployingIsOpen'
  <2> SUFFICES ASSUME NEW d \in Job, row'[d].status = "deploying"
               PROVE  \E q \in Pipeline : /\ pipe'[q].job = d /\ pipe'[q].kind = "deploy"
                                         /\ pipe'[q].at \in Late
    BY DEF DeployingIsOpen
  <2>1. row[d].status = "deploying"
    BY <1>6
  <2>2. PICK q \in Pipeline : pipe[q].job = d /\ pipe[q].kind = "deploy" /\ pipe[q].at \in Late
    BY <2>1 DEF OrderPart, DeployingIsOpen
  <2>3. q # p
    BY <1>1, <2>2 DEF Late
  <2> QED
    BY <1>7, <2>2, <2>3
<1> QED
  BY <1>14, <1>15, <1>16, <1>17, <1>19, <1>20, <1>21, <1>22, <1>23 DEF OrderPart

\* A row that is touched from outside of its pipeline: it may no longer be
\* recent, and if it was deploying it may have been settled.
LEMMA TouchOrder ==
  ASSUME JobsInv, OrderPart, UNCHANGED <<pipe, tunnel>>,
         \A e \in Job :
           /\ row'[e].key = row[e].key /\ row'[e].rank = row[e].rank
           /\ row'[e].noted = row[e].noted /\ (row'[e].recent => row[e].recent)
           /\ \/ row'[e].status = row[e].status
              \/ row[e].status = "deploying" /\ row'[e].status \in Verdict
  PROVE  OrderPart'
<1>1. /\ OneDeploy /\ Ranked /\ DeployingIsOpen /\ TunnelsAreFound /\ OneTunnel /\ OneOfKey
      /\ \A q \in Pipeline : RowOfOwn(q) /\ Keyed(q)
  BY DEF OrderPart
<1>2. \A e \in Job : Newest(e)' <=> Newest(e)
  BY DEF Newest
<1>3. OneDeploy' /\ OneTunnel'
  BY <1>1 DEF OneDeploy, OneTunnel
<1>4. \A e \in Job : row'[e].status = "absent" <=> row[e].status = "absent"
  BY DEF Verdict
<1>5. Ranked'
  <2>1. Existing' = Existing
    BY <1>4 DEF Existing
  <2> QED
    BY <1>1, <1>4, <2>1 DEF Ranked
<1>6. ASSUME NEW k, NEW e \in RecentOf(k)'
      PROVE  /\ e \in Job /\ e \in RecentOf(k)
             /\ row[e].status = "rolled_back" <=> row'[e].status = "rolled_back"
  BY DEF RecentOf, Verdict
<1>7. ASSUME NEW q \in Pipeline PROVE RowOfOwn(q)' /\ Keyed(q)'
  <2>1. pipe'[q] = pipe[q] /\ RowOfOwn(q) /\ Keyed(q)
    BY <1>1
  <2>2. pipe[q].at \in WithRow => pipe[q].job \in Job
    BY WithJob
  <2>3. RowOfOwn(q)'
    BY <1>2, <2>1, <2>2 DEF RowOfOwn
  <2>4. ASSUME NEW e \in RecentOf(pipe[q].key)'
        PROVE  /\ e \in Job /\ e \in RecentOf(pipe[q].key)
               /\ row[e].status = "rolled_back" => row'[e].status = "rolled_back"
    BY <2>1 DEF RecentOf, Verdict
  <2>5. Keyed(q)'
    BY <2>1, <2>4 DEF Keyed
  <2> QED
    BY <2>3, <2>5
<1>8. DeployingIsOpen'
  <2>1. \A e \in Job : row'[e].status = "deploying" => row[e].status = "deploying"
    BY DEF Verdict
  <2> QED
    BY <1>1, <2>1 DEF DeployingIsOpen
<1>9. TunnelsAreFound'
  <2> SUFFICES ASSUME NEW d \in Job, tunnel[d] = "up",
                      ~\E q \in Pipeline : pipe[q].at = "noting" /\ pipe[q].job = d
               PROVE  Found(d)'
    BY DEF TunnelsAreFound
  <2>1. Found(d)
    BY <1>1 DEF TunnelsAreFound
  <2>2. row'[d].noted /\ Newest(d)'
    BY <1>2, <2>1 DEF Found
  <2>3. CASE row'[d].status = row[d].status
    BY <2>1, <2>2, <2>3 DEF Found
  <2>4. CASE row[d].status = "deploying"
    <3>1. PICK q \in Pipeline : pipe[q].job = d /\ pipe[q].kind = "deploy" /\ pipe[q].at \in Late
      BY <1>1, <2>4 DEF DeployingIsOpen
    <3>2. RowOfOwn(q) /\ pipe[q].at \in WithRow
      BY <1>1, <3>1 DEF Late, WithRow, InTry
    <3>3. pipe[q].at = "concluding"
      BY <2>1, <3>1, <3>2 DEF Late, Found, RowOfOwn, NoTunnelYet
    <3> QED
      BY <2>2, <3>1, <3>3 DEF Found
  <2> QED
    BY <2>3, <2>4
<1>10. OneOfKey'
  BY <1>1, <1>6 DEF OneOfKey
<1> QED
  BY <1>3, <1>5, <1>7, <1>8, <1>9, <1>10 DEF OrderPart

\* After five minutes a deployment no longer stands in the way of its key; a look
\* at the Compose log that overtakes no row may have said of one that deploys
\* that it succeeded or failed.
LEMMA OutsideOrder ==
  ASSUME JobsInv, OrderPart, orderly', NEW d \in Job, Ages(d) \/ LogLook(d)
  PROVE  OrderPart'
<1>1. row \in [Job -> RowRecord] /\ row[d] \in RowRecord
  BY OrderTypes
<1>2. CASE Ages(d)
  <2>1. pipe' = pipe /\ tunnel' = tunnel /\ row' = [row EXCEPT ![d].recent = FALSE]
    BY <1>2 DEF Ages
  <2> DEFINE r == [row[d] EXCEPT !.recent = FALSE]
  <2>2. /\ r.status = row[d].status /\ r.key = row[d].key /\ r.recent = FALSE
        /\ r.rank = row[d].rank /\ r.noted = row[d].noted
    BY <1>1 DEF RowRecord
  <2>3. row' = [row EXCEPT ![d] = r]
    BY <2>1
  <2> HIDE DEF r
  <2>4. \A e \in Job : /\ row'[e].status = row[e].status /\ row'[e].key = row[e].key
                       /\ row'[e].rank = row[e].rank /\ row'[e].noted = row[e].noted
                       /\ (row'[e].recent => row[e].recent)
    BY <1>1, <2>2, <2>3
  <2> QED
    BY <2>1, <2>4, TouchOrder
<1>3. CASE LogLook(d)
  <2>1. /\ UNCHANGED <<pipe, tunnel>>
        /\ \A e \in Job : e # d => row'[e] = row[e]
        /\ row'[d].key = row[d].key /\ row'[d].recent = row[d].recent
        /\ row'[d].rank = row[d].rank /\ row'[d].noted = row[d].noted
        /\ \/ row'[d].status = row[d].status
           \/ row[d].status = "deploying" /\ row'[d].status \in Verdict
    BY <1>3, LookMoves DEF JobsInv
  <2>2. \A e \in Job :
          /\ row'[e].key = row[e].key /\ row'[e].rank = row[e].rank
          /\ row'[e].noted = row[e].noted /\ (row'[e].recent => row[e].recent)
          /\ \/ row'[e].status = row[e].status
             \/ row[e].status = "deploying" /\ row'[e].status \in Verdict
    BY <2>1
  <2> QED
    BY <2>1, <2>2, TouchOrder
<1> QED
  BY <1>2, <1>3

LEMMA OrderNext == OrderInv /\ [JobsNext]_jobsVars => OrderInv'
<1> SUFFICES ASSUME OrderInv, [JobsNext]_jobsVars, orderly' PROVE OrderPart'
  BY InvNext DEF OrderInv
<1>1. JobsInv /\ OrderPart
  BY OrderEnds DEF OrderInv, JobsInv
<1>2. CASE UNCHANGED jobsVars
  BY <1>1, <1>2, OrderQuiet DEF jobsVars, rowVars
<1>3. ~Fails
  BY DEF Fails
<1>4. ASSUME NEW p \in Pipeline, PipelineStep(p) PROVE OrderPart'
  <2>1. ~ThrowsLate(p)
    BY <1>3 DEF ThrowsLate
  <2> QED
    BY <1>1, <1>4, <2>1, StartOrder, RecordOrder, StageOrder, StatusOrder, ClearOrder, OpenOrder,
       NoteOrder, EndOrder DEF PipelineStep
<1>5. ASSUME NEW j \in Job, WriteChunk(j) \/ Ages(j) \/ LogLook(j) PROVE OrderPart'
  BY <1>1, <1>5, OrderQuiet, OutsideOrder DEF WriteChunk
<1>6. ASSUME NEW r \in Reader, Connect(r) \/ PollStream(r) \/ BreakStream(r) PROVE OrderPart'
  BY <1>1, <1>6, OrderQuiet DEF Connect, PollStream, BreakStream
<1>7. ~ProcessDies
  BY <1>3 DEF ProcessDies
<1> QED
  BY <1>1, <1>2, <1>4, <1>5, <1>6, <1>7, BeginOrder DEF JobsNext

\* Deploys that come one at a time while nothing breaks and no look at the
\* Compose log overtakes a row leave one preview tunnel at most, and one good
\* deployment of a key within five minutes: destroyPreviousQuickTunnel and
\* findRecentIdempotentDeployment look at what the rows say, and the rows then
\* say what is on the host.
THEOREM OrderlyDeploysHold == JobsSpec => []OrderlyDeploysDoNotPileUp
<1>1. JobsInit => OrderInv
  BY InvInit, OrderInit DEF OrderInv
<1>2. OrderInv => OrderlyDeploysDoNotPileUp
  BY DEF OrderInv, OrderPart, OneTunnel, OneOfKey, OrderlyDeploysDoNotPileUp
<1> QED
  BY <1>1, <1>2, OrderNext, PTL DEF JobsSpec

-----------------------------------------------------------------------------
(* Jobs end and open streams say so.  ENABLED is written out: a request can *)
(* go on unless its job waits for its chain, a chain can while it has a     *)
(* chunk, a stream while it is open and has something to say.               *)

CanStep(p) ==
  /\ pipe[p].at # "idle"
  /\ pipe[p].at = "creating" => \E j \in Job : job[j].status = "absent"
  /\ pipe[p].at \in {"saving", "savingError"} => chain[pipe[p].job].queue = <<>>
CanWrite(j) == chain[j].queue # <<>>
CanDeliver(r) ==
  /\ reader[r].open
  /\ Terminal(reader[r].job) \/ reader[r].sent # Len(job[reader[r].job].output)

\* Weak fairness of requests, of chains and of the turns of a stream, as seen at
\* one moment.
RequestGoesOn(p) == <>~CanStep(p) \/ <><<PipelineStep(p)>>_jobsVars
ChainGoesOn(j) == <>~CanWrite(j) \/ <><<WriteChunk(j)>>_jobsVars
StreamDelivers(r) == <>~CanDeliver(r) \/ <><<PollStream(r)>>_jobsVars
AllGoOn ==
  /\ \A p \in Pipeline : RequestGoesOn(p)
  /\ \A j \in Job : ChainGoesOn(j)
  /\ \A r \in Reader : StreamDelivers(r)
JobsScheduling == []AllGoOn

\* While no update has failed and nothing died, a pending job is in the hands of
\* the request that created it.
PendingIsHeld ==
  failures = 0 =>
    \A j \in Job : job[j].status = "pending" =>
      \E p \in Pipeline : pipe[p].at = "starting" /\ pipe[p].job = j

JobsLiveInv == JobsInv /\ PendingIsHeld

\* How many stages a request has left at most, and with the writes of its chain
\* how many steps: a stage logs one chunk at most.
StagesLeft(at) ==
  CASE at = "starting" -> 14
    [] at = "recording" -> 13
    [] at = "provisioning" -> 12
    [] at = "preparing" -> 11
    [] at = "building" -> 10
    [] at = "deploying" -> 9
    [] at = "clearing" -> 8
    [] at = "tunnelling" -> 7
    [] at = "noting" -> 6
    [] at \in {"concluding", "unrolling"} -> 5
    [] at = "failing" -> 4
    [] at = "saving" -> 3
    [] at = "erring" -> 2
    [] at = "savingError" -> 1
    [] OTHER -> 0
StepsLeft(p, j) == 2 * StagesLeft(pipe[p].at) + Len(chain[j].queue)

Serves(p, j) == failures = 0 /\ pipe[p].job = j /\ pipe[p].at \notin {"idle", "creating"}
Over(j) == Terminal(j) \/ failures > 0

LEMMA StagesAreFew == ASSUME NEW at PROVE StagesLeft(at) \in 0..14
BY DEF StagesLeft

\* A request takes its job one stage on, or the job has ended, or something failed.
LEMMA RequestSteps ==
  ASSUME JobsInv, NEW p \in Pipeline, NEW j \in Job, Serves(p, j), PipelineStep(p)
  PROVE  Over(j)' \/ (Serves(p, j)' /\ StepsLeft(p, j)' < StepsLeft(p, j))
<1>1. /\ job \in [Job -> JobRecord] /\ chain \in [Job -> ChainRecord]
      /\ pipe \in [Pipeline -> PipeRecord] /\ failures = 0 /\ pipe[p].job = j
      /\ chain[j].queue \in Seq(Nat) /\ pipe[p].at # "creating"
  <2>1. /\ job \in [Job -> JobRecord] /\ chain \in [Job -> ChainRecord]
        /\ pipe \in [Pipeline -> PipeRecord]
    BY TypesByName DEF JobsInv
  <2> QED
    BY <2>1 DEF Serves, ChainRecord
<1>2. Len(chain[j].queue) \in Nat
  BY <1>1
<1>3. CASE Fails
  BY <1>1, <1>3 DEF Fails, Over
<1>4. CASE failures' = failures /\ \E status \in {"success", "failed"} : Settle(p, status)
  <2>1. PICK status \in {"success", "failed"} : job' = [job EXCEPT ![j].status = status]
    BY <1>1, <1>4 DEF Settle
  <2>2. job'[j].status = status
    BY <1>1, <2>1, JobStatusMoves
  <2> QED
    BY <2>2 DEF Over, Terminal
<1>5. ASSUME NEW stage \in Stage, Go(p, stage), stage \notin {"idle", "creating"},
             StagesLeft(stage) < StagesLeft(pipe[p].at),
             failures' = failures, chain' = chain \/ Log(j)
      PROVE  Over(j)' \/ (Serves(p, j)' /\ StepsLeft(p, j)' < StepsLeft(p, j))
  <2>2. pipe'[p].at = stage /\ pipe'[p].job = j
    BY <1>1, <1>5, GoMoves
  <2>3. Serves(p, j)'
    BY <1>1, <1>5, <2>2 DEF Serves
  <2>4. PICK n \in Nat : n = Len(chain'[j].queue) /\ n <= Len(chain[j].queue) + 1
    <3>1. CASE Log(j)
      <4>1. chain'[j].queue = Append(chain[j].queue, chain[j].logged + 1)
        BY <1>1, <3>1 DEF Log, ChainRecord
      <4>2. chain[j].logged + 1 \in Nat
        BY <1>1 DEF ChainRecord
      <4> QED
        BY <1>1, <4>1, <4>2
    <3> QED
      BY <1>2, <1>5, <3>1
  <2>5. PICK a \in Nat, b \in Nat : a = StagesLeft(stage) /\ b = StagesLeft(pipe[p].at)
    BY StagesAreFew
  <2>6. StepsLeft(p, j)' = 2 * a + n
    BY <2>2, <2>4, <2>5 DEF StepsLeft, StagesLeft
  <2>7. PICK m \in Nat : m = Len(chain[j].queue)
    BY <1>2
  <2>8. StepsLeft(p, j) = 2 * b + m
    BY <2>5, <2>7 DEF StepsLeft
  <2>9. a < b /\ n <= m + 1
    BY <1>5, <2>4, <2>5, <2>7
  <2>10. 2 * a + n < 2 * b + m
    BY <2>9
  <2> QED
    BY <2>3, <2>6, <2>8, <2>10
<1>s. /\ StagesLeft("provisioning") = 12 /\ StagesLeft("preparing") = 11
      /\ StagesLeft("building") = 10 /\ StagesLeft("deploying") = 9
      /\ StagesLeft("clearing") = 8 /\ StagesLeft("tunnelling") = 7 /\ StagesLeft("noting") = 6
      /\ StagesLeft("concluding") = 5 /\ StagesLeft("unrolling") = 5
      /\ StagesLeft("failing") = 4 /\ StagesLeft("saving") = 3 /\ StagesLeft("erring") = 2
      /\ StagesLeft("savingError") = 1
      /\ {"preparing", "building", "deploying", "clearing", "tunnelling", "noting", "concluding",
           "unrolling", "failing", "saving", "erring", "savingError"} \subseteq Stage
  BY DEF StagesLeft, Stage, InTry
<1>6. CASE StartJob(p) \/ RecordRow(p)
  <2>0. CASE Fails
    BY <2>0, <1>3
  <2>1. CASE StartJob(p) /\ ~Fails
    <3>1. \/ Go(p, "preparing") /\ StagesLeft("preparing") = 11
          \/ Go(p, "recording") /\ StagesLeft("recording") = 13
      BY <2>1 DEF StartJob, StagesLeft
    <3>2. StagesLeft(pipe[p].at) = 14 /\ failures' = failures /\ chain' = chain
      BY <2>1 DEF StartJob, Works, StagesLeft
    <3> QED
      BY <1>5, <3>1, <3>2 DEF Stage, InTry
  <2>2. CASE RecordRow(p) /\ ~Fails
    <3>1. PICK r : r = [pipe[p] EXCEPT !.row = pipe[p].job, !.at = "provisioning"]
      OBVIOUS
    <3>2. pipe' = [pipe EXCEPT ![p] = r] /\ failures' = failures /\ chain' = chain
      BY <2>2, <3>1 DEF RecordRow, Works
    <3>3. r.at = "provisioning" /\ r.job = j
      BY <1>1, <3>1 DEF PipeRecord
    <3>4. pipe'[p].at = "provisioning" /\ pipe'[p].job = j
      BY <1>1, <3>2, <3>3
    <3>5. StagesLeft(pipe'[p].at) = 12 /\ StagesLeft(pipe[p].at) = 13
      BY <2>2, <3>4 DEF StagesLeft, RecordRow
    <3> QED
      BY <1>1, <1>2, <3>2, <3>4, <3>5 DEF Serves, StepsLeft
  <2> QED
    BY <1>6, <2>0, <2>1, <2>2
<1>7. CASE Provision(p) \/ Prepare(p) \/ Build(p) \/ Deploy(p)
  <2>1. CASE Provision(p)
    BY <1>5, <1>s, <2>1 DEF Provision
  <2>2. CASE Prepare(p)
    <3>1. Log(j) /\ failures' = failures
      BY <1>1, <2>2 DEF Prepare, Log
    <3>2. Go(p, "unrolling") \/ Go(p, "building")
      BY <2>2 DEF Prepare
    <3>3. pipe[p].at = "preparing"
      BY <2>2 DEF Prepare
    <3> QED
      BY <1>5, <1>s, <3>1, <3>2, <3>3
  <2>3. CASE Build(p)
    BY <1>5, <1>s, <2>3 DEF Build
  <2>4. CASE Deploy(p)
    BY <1>5, <1>s, <2>4 DEF Deploy
  <2> QED
    BY <1>7, <2>1, <2>2, <2>3, <2>4
<1>8. CASE Throws(p) \/ ThrowsLate(p)
  <2>1. CASE Throws(p)
    <3>1. failures' = failures /\ Go(p, "failing") /\ chain' = chain /\ pipe[p].at \in InTry
      BY <2>1 DEF Throws
    <3>2. StagesLeft("failing") < StagesLeft(pipe[p].at)
      BY <3>1 DEF StagesLeft, InTry
    <3> QED
      BY <1>5, <1>s, <3>1, <3>2
  <2>2. CASE ThrowsLate(p)
    BY <1>3, <2>2 DEF ThrowsLate
  <2> QED
    BY <1>8, <2>1, <2>2
<1>9. CASE ClearTunnel(p) \/ OpenTunnel(p) \/ SkipTunnel(p) \/ NoteTunnel(p)
  <2>1. CASE ClearTunnel(p)
    BY <1>3, <1>5, <1>s, <2>1 DEF ClearTunnel, Works
  <2>2. CASE OpenTunnel(p)
    BY <1>3, <1>5, <1>s, <2>2 DEF OpenTunnel, Works
  <2>3. CASE SkipTunnel(p)
    BY <1>5, <1>s, <2>3 DEF SkipTunnel
  <2>4. CASE NoteTunnel(p)
    BY <1>5, <1>s, <2>4 DEF NoteTunnel
  <2> QED
    BY <1>9, <2>1, <2>2, <2>3, <2>4
<1>10. CASE Conclude(p) \/ Rollback(p) \/ FailRow(p)
  <2>1. CASE Conclude(p)
    <3>1. (chain' = chain \/ Log(j)) /\ failures' = failures
      BY <1>1, <2>1 DEF Conclude, Log
    <3>2. Go(p, "saving") /\ pipe[p].at = "concluding"
      BY <2>1 DEF Conclude
    <3> QED
      BY <1>5, <1>s, <3>1, <3>2
  <2>2. CASE Rollback(p)
    BY <1>5, <1>s, <2>2 DEF Rollback
  <2>3. CASE FailRow(p)
    BY <1>3, <1>5, <1>s, <2>3 DEF FailRow, Works
  <2> QED
    BY <1>10, <2>1, <2>2, <2>3
<1>11. CASE Save(p) \/ LogError(p) \/ SaveError(p)
  <2>1. CASE \E status \in {"success", "failed"} : Settle(p, status)
    BY <1>4, <2>1 DEF Settle, Works
  <2>2. CASE LogError(p)
    <3>1. Log(j) /\ failures' = failures
      BY <1>1, <2>2 DEF LogError, Log
    <3>2. Go(p, "savingError") /\ pipe[p].at = "erring"
      BY <2>2 DEF LogError
    <3> QED
      BY <1>5, <1>s, <3>1, <3>2
  <2>3. CASE Save(p) /\ ~Fails /\ ~Settle(p, "success")
    BY <1>5, <1>s, <2>3 DEF Save, Works
  <2>4. CASE SaveError(p) /\ ~Fails /\ ~Settle(p, "failed")
    BY <2>4 DEF SaveError
  <2> QED
    BY <1>3, <1>11, <2>1, <2>2, <2>3, <2>4
<1>12. ~CreateJob(p)
  BY <1>1 DEF CreateJob
<1> QED
  BY <1>6, <1>7, <1>8, <1>9, <1>10, <1>11, <1>12 DEF PipelineStep

\* A request that begins was idle, and touches nothing of the others.
Begins(q) ==
  /\ pipe[q].at = "idle" /\ chain' = chain /\ job' = job
  /\ \A p \in Pipeline : p # q => pipe'[p] = pipe[p]

LEMMA DeployBegins ==
  ASSUME JobsInv, NEW q \in Pipeline, NEW k \in DeployKey, NEW preview \in BOOLEAN,
         BeginDeploy(q, k, preview)
  PROVE  Begins(q) /\ failures' = failures
<1>1. pipe \in [Pipeline -> PipeRecord]
  BY TypesByName DEF JobsInv
<1>2. PICK r : r = [Resting EXCEPT !.at = "creating", !.kind = "deploy", !.key = k,
                                   !.preview = preview]
  OBVIOUS
<1>3. pipe' = [pipe EXCEPT ![q] = r]
  BY <1>2 DEF BeginDeploy
<1>4. pipe[q].at = "idle" /\ chain' = chain /\ job' = job /\ failures' = failures
  BY DEF BeginDeploy
<1> QED
  BY <1>1, <1>3, <1>4 DEF Begins

LEMMA RollbackBegins ==
  ASSUME JobsInv, NEW q \in Pipeline, NEW d \in Job, BeginRollback(q, d)
  PROVE  Begins(q) /\ (Fails \/ Works)
<1>1. pipe \in [Pipeline -> PipeRecord]
  BY TypesByName DEF JobsInv
<1>2. PICK r : r = [Resting EXCEPT !.at = "creating", !.kind = "rollback", !.row = d]
  OBVIOUS
<1>3. pipe' = [pipe EXCEPT ![q] = r]
  BY <1>2 DEF BeginRollback
<1>4. pipe[q].at = "idle" /\ chain' = chain /\ job' = job /\ (Fails \/ Works)
  BY DEF BeginRollback
<1> QED
  BY <1>1, <1>3, <1>4 DEF Begins

LEMMA BeginTouches ==
  ASSUME JobsInv, NEW q \in Pipeline,
         \/ BeginBuild(q)
         \/ \E k \in DeployKey, preview \in BOOLEAN : BeginDeploy(q, k, preview)
         \/ \E d \in Job : BeginRollback(q, d)
  PROVE  Begins(q) /\ (Fails \/ failures' = failures)
<1>1. pipe \in [Pipeline -> PipeRecord]
  BY TypesByName DEF JobsInv
<1>2. ASSUME BeginBuild(q) PROVE Begins(q) /\ failures' = failures
  BY <1>1, <1>2 DEF BeginBuild, Begins
<1>3. Works => failures' = failures
  BY DEF Works
<1> QED
  BY <1>2, <1>3, DeployBegins, RollbackBegins

\* What the steps of others leave alone.
LEMMA OthersLeave ==
  ASSUME JobsInv, [JobsNext]_jobsVars, NEW p \in Pipeline, NEW j \in Job, Serves(p, j),
         ~PipelineStep(p), ~WriteChunk(j)
  PROVE  failures' > 0 \/ (failures' = failures /\ pipe'[p] = pipe[p] /\ chain'[j] = chain[j])
<1>1. /\ chain \in [Job -> ChainRecord] /\ pipe \in [Pipeline -> PipeRecord]
      /\ failures = 0 /\ pipe[p].job = j /\ pipe[p].at \notin {"idle", "creating"}
      /\ OwnJobs /\ \A q \in Pipeline : HasJob(q)
  BY TypesByName DEF Serves, JobsInv
<1>2. CASE Fails
  BY <1>1, <1>2 DEF Fails
<1>3. CASE UNCHANGED jobsVars
  BY <1>3 DEF jobsVars
<1>4. ASSUME NEW q \in Pipeline, PipelineStep(q), ~Fails
      PROVE  failures' = failures /\ pipe'[p] = pipe[p] /\ chain'[j] = chain[j]
  <2>1. q # p /\ pipe[q].job # j
    BY <1>1, <1>4 DEF OwnJobs
  <2>2. chain' = chain \/ Log(pipe[q].job)
    BY <1>4 DEF PipelineStep, CreateJob, StartJob, RecordRow, Provision, Prepare, Build, Deploy,
                Throws, ThrowsLate, ClearTunnel, OpenTunnel, SkipTunnel, NoteTunnel, Conclude,
                Rollback, FailRow, Save, LogError, SaveError
  <2>3. chain'[j] = chain[j]
    <3>1. CASE Log(pipe[q].job)
      BY <1>1, <2>1, <3>1 DEF Log
    <3> QED
      BY <2>2, <3>1
  <2>4. failures' = failures
    BY <1>4 DEF PipelineStep, CreateJob, StartJob, RecordRow, Provision, Prepare, Build, Deploy,
                Throws, ThrowsLate, ClearTunnel, OpenTunnel, SkipTunnel, NoteTunnel, Conclude,
                Rollback, FailRow, Save, LogError, SaveError, Settle, Works
  <2>5. pipe'[p] = pipe[p]
    BY <1>1, <1>4, <2>1
       DEF PipelineStep, CreateJob, StartJob, RecordRow, Provision, Prepare, Build, Deploy,
           Throws, ThrowsLate, ClearTunnel, OpenTunnel, SkipTunnel, NoteTunnel, Conclude,
           Rollback, FailRow, Save, LogError, SaveError, Settle, Go
  <2> QED
    BY <2>3, <2>4, <2>5
<1>5. ASSUME NEW q \in Pipeline, ~Fails,
             \/ BeginBuild(q)
             \/ \E k \in DeployKey, preview \in BOOLEAN : BeginDeploy(q, k, preview)
             \/ \E d \in Job : BeginRollback(q, d)
      PROVE  failures' = failures /\ pipe'[p] = pipe[p] /\ chain'[j] = chain[j]
  BY <1>1, <1>5, BeginTouches DEF Begins
<1>6. ASSUME NEW i \in Job, WriteChunk(i) \/ Ages(i) \/ LogLook(i), ~Fails
      PROVE  failures' = failures /\ pipe'[p] = pipe[p] /\ chain'[j] = chain[j]
  BY <1>1, <1>6 DEF WriteChunk, Ages, LogLook, LookFinds, LookSettles, Works
<1>7. ASSUME NEW r \in Reader, Connect(r) \/ PollStream(r) \/ BreakStream(r)
      PROVE  failures' = failures /\ pipe'[p] = pipe[p] /\ chain'[j] = chain[j]
  BY <1>7 DEF Connect, PollStream, BreakStream
<1>8. CASE ProcessDies
  BY <1>2, <1>8 DEF ProcessDies
<1> QED
  BY <1>2, <1>3, <1>4, <1>5, <1>6, <1>7, <1>8 DEF JobsNext

\* A write shortens the chain of its job.
LEMMA WriteSteps ==
  ASSUME JobsInv, NEW p \in Pipeline, NEW j \in Job, Serves(p, j), WriteChunk(j)
  PROVE  Over(j)' \/ (Serves(p, j)' /\ StepsLeft(p, j)' < StepsLeft(p, j))
<1>1. /\ chain[j] \in ChainRecord /\ failures = 0 /\ pipe' = pipe
      /\ chain[j].queue \in Seq(Nat) /\ chain[j].queue # <<>>
      /\ chain \in [Job -> ChainRecord]
  <2>1. chain \in [Job -> ChainRecord]
    BY TypesByName DEF JobsInv
  <2> QED
    BY <2>1 DEF Serves, ChainRecord, WriteChunk
<1>2. CASE Fails
  BY <1>1, <1>2 DEF Fails, Over
<1>3. CASE ~Fails
  <2>1. chain'[j].queue = Tail(chain[j].queue) /\ failures' = failures
    BY <1>1, <1>3 DEF WriteChunk, Works, ChainRecord
  <2>2. PICK m \in Nat, n \in Nat :
          m = Len(chain[j].queue) /\ n = Len(chain'[j].queue) /\ n < m
    <3>1. Len(chain[j].queue) \in Nat /\ Len(chain[j].queue) > 0
      BY <1>1, EmptySeq
    <3>2. Len(Tail(chain[j].queue)) = Len(chain[j].queue) - 1
      BY <1>1, HeadTailProperties
    <3>3. Len(chain'[j].queue) = Len(chain[j].queue) - 1
      BY <2>1, <3>2
    <3> QED
      BY <3>1, <3>3
  <2>3. PICK a \in Nat : a = StagesLeft(pipe[p].at)
    BY StagesAreFew
  <2>4. StepsLeft(p, j) = 2 * a + m
    BY <2>2, <2>3 DEF StepsLeft
  <2>5. StepsLeft(p, j)' = 2 * a + n
    BY <1>1, <2>2, <2>3 DEF StepsLeft, StagesLeft
  <2>6. Serves(p, j)'
    BY <1>1, <2>1 DEF Serves
  <2>7. n < m
    BY <2>2
  <2>8. 2 * a + n < 2 * a + m
    BY <2>7
  <2> QED
    BY <2>4, <2>5, <2>6, <2>8
<1> QED
  BY <1>2, <1>3

\* All steps together: a job that is served is over, or its request has no more
\* steps left than before, and fewer when it or the chain has taken one.
LEMMA ServedSteps ==
  ASSUME JobsInv, [JobsNext]_jobsVars, NEW p \in Pipeline, NEW j \in Job, Serves(p, j)
  PROVE  /\ \/ Over(j)'
            \/ Serves(p, j)' /\ StepsLeft(p, j)' < StepsLeft(p, j)
            \/ /\ Serves(p, j)' /\ StepsLeft(p, j)' = StepsLeft(p, j)
               /\ pipe'[p] = pipe[p] /\ chain'[j] = chain[j]
         /\ PipelineStep(p) \/ WriteChunk(j) =>
              Over(j)' \/ (Serves(p, j)' /\ StepsLeft(p, j)' < StepsLeft(p, j))
<1>1. CASE PipelineStep(p)
  BY <1>1, RequestSteps
<1>2. CASE WriteChunk(j)
  BY <1>2, WriteSteps
<1>3. CASE ~PipelineStep(p) /\ ~WriteChunk(j)
  <2>1. CASE failures' > 0
    BY <1>3, <2>1 DEF Over
  <2>2. CASE failures' = failures /\ pipe'[p] = pipe[p] /\ chain'[j] = chain[j]
    BY <1>3, <2>2 DEF Serves, StepsLeft, StagesLeft
  <2> QED
    BY <1>3, <2>1, <2>2, OthersLeave
<1> QED
  BY <1>1, <1>2, <1>3

\* The steps that touch the table of jobs.
LEMMA WhoWrites ==
  ASSUME JobsInv, [JobsNext]_jobsVars
  PROVE  \/ job' = job
         \/ \E p \in Pipeline : CreateJob(p) \/ StartJob(p) \/ Save(p) \/ SaveError(p)
         \/ \E i \in Job : WriteChunk(i)
<1>1. ASSUME NEW p \in Pipeline, PipelineStep(p)
      PROVE  job' = job \/ CreateJob(p) \/ StartJob(p) \/ Save(p) \/ SaveError(p)
  BY <1>1 DEF PipelineStep, RecordRow, Provision, Prepare, Build, Deploy, Throws, ThrowsLate,
              ClearTunnel, OpenTunnel, SkipTunnel, NoteTunnel, Conclude, Rollback, FailRow,
              LogError
<1>2. ASSUME NEW p \in Pipeline,
             \/ BeginBuild(p)
             \/ \E k \in DeployKey, preview \in BOOLEAN : BeginDeploy(p, k, preview)
             \/ \E d \in Job : BeginRollback(p, d)
      PROVE  job' = job
  BY <1>2, BeginTouches DEF Begins
<1>3. ASSUME NEW i \in Job, Ages(i) \/ LogLook(i) PROVE job' = job
  BY <1>3 DEF Ages, LogLook, LookFinds, LookSettles
<1>4. ASSUME NEW r \in Reader, Connect(r) \/ PollStream(r) \/ BreakStream(r) PROVE job' = job
  BY <1>4 DEF Connect, PollStream, BreakStream
<1>5. CASE ProcessDies \/ UNCHANGED jobsVars
  BY <1>5 DEF ProcessDies, jobsVars
<1> QED
  BY <1>1, <1>2, <1>3, <1>4, <1>5 DEF JobsNext

\* The status of a job changes when it is created, started and ended.
LEMMA StatusMoves ==
  ASSUME JobsInv, [JobsNext]_jobsVars, NEW j \in Job
  PROVE  \/ job'[j].status = job[j].status
         \/ /\ job[j].status = "absent"
            /\ job'[j].status = "pending"
            /\ \E p \in Pipeline : pipe'[p].at = "starting" /\ pipe'[p].job = j
         \/ job[j].status = "pending" /\ job'[j].status = "running"
         \/ job[j].status = "running" /\ Terminal(j)'
<1>1. /\ job \in [Job -> JobRecord] /\ pipe \in [Pipeline -> PipeRecord]
      /\ \A q \in Pipeline : HasJob(q)
  BY TypesByName DEF JobsInv
<1>2. CASE job' = job
  BY <1>2
<1>3. ASSUME NEW p \in Pipeline, CreateJob(p), job'[j].status # job[j].status
      PROVE  /\ job[j].status = "absent" /\ job'[j].status = "pending"
             /\ pipe'[p].at = "starting" /\ pipe'[p].job = j
  <2>1. PICK i \in Job : /\ job[i].status = "absent"
                         /\ job' = [job EXCEPT ![i].status = "pending"]
                         /\ pipe' = [pipe EXCEPT ![p].at = "starting", ![p].job = i]
    BY <1>3 DEF CreateJob
  <2>2. i = j
    BY <1>1, <1>3, <2>1
  <2> QED
    BY <1>1, <2>1, <2>2 DEF PipeRecord, JobRecord
<1>4. ASSUME NEW p \in Pipeline, StartJob(p), job'[j].status # job[j].status
      PROVE  job[j].status = "pending" /\ job'[j].status = "running"
  <2>1. PICK i \in Job : i = pipe[p].job /\ job[i].status = "pending"
    BY <1>1, <1>4 DEF StartJob, HasJob
  <2>2. job' = [job EXCEPT ![i].status = "running"]
    BY <1>4, <2>1 DEF StartJob
  <2> QED
    BY <1>1, <1>4, <2>1, <2>2 DEF JobRecord
<1>5. ASSUME NEW p \in Pipeline, Save(p) \/ SaveError(p), job'[j].status # job[j].status
      PROVE  job[j].status = "running" /\ Terminal(j)'
  <2>1. PICK i \in Job : i = pipe[p].job /\ job[i].status = "running"
    BY <1>1, <1>5 DEF Save, SaveError, HasJob, Working, Stage
  <2>2. PICK status \in {"success", "failed"} : job' = [job EXCEPT ![i].status = status]
    BY <1>5, <2>1 DEF Save, SaveError, Settle
  <2> QED
    BY <1>1, <1>5, <2>1, <2>2 DEF JobRecord, Terminal
<1>6. ASSUME NEW i \in Job, WriteChunk(i) PROVE job'[j].status = job[j].status
  <2>1. job' = job \/ \E o : job' = [job EXCEPT ![i].output = o]
    <3>1. job' = job \/ job' = [job EXCEPT ![i].output = Append(@, Head(chain[i].queue))]
      BY <1>6 DEF WriteChunk
    <3>2. [job EXCEPT ![i].output = Append(@, Head(chain[i].queue))]
            = [job EXCEPT ![i].output = Append(job[i].output, Head(chain[i].queue))]
      BY <1>1 DEF JobRecord
    <3> QED
      BY <3>1, <3>2
  <2> QED
    BY <1>1, <2>1 DEF JobRecord
<1> QED
  BY <1>2, <1>3, <1>4, <1>5, <1>6, WhoWrites

\* The output of a job changes by one chunk at its end, while the job runs.
LEMMA OutputGrows ==
  ASSUME JobsInv, [JobsNext]_jobsVars, NEW j \in Job
  PROVE  \/ job'[j].output = job[j].output
         \/ /\ job[j].status = "running" /\ job'[j].status = "running"
            /\ \E chunk \in Nat : job'[j].output = Append(job[j].output, chunk)
<1>1. /\ job \in [Job -> JobRecord] /\ chain \in [Job -> ChainRecord] /\ Kept(j)
  BY TypesByName DEF JobsInv
<1>2. CASE job' = job
  BY <1>2
<1>3. ASSUME NEW i \in Job, WriteChunk(i), job'[j].output # job[j].output
      PROVE  /\ job[j].status = "running" /\ job'[j].status = "running"
             /\ \E chunk \in Nat : job'[j].output = Append(job[j].output, chunk)
  <2>1. chain[i].queue # <<>> /\ chain[i].queue \in Seq(Nat)
    BY <1>1, <1>3 DEF WriteChunk, ChainRecord
  <2>2. PICK chunk \in Nat : chunk = Head(chain[i].queue)
    BY <2>1, HeadTailProperties
  <2>3. job' = job \/ job' = [job EXCEPT ![i].output = Append(@, Head(chain[i].queue))]
    BY <1>3 DEF WriteChunk
  <2>4. job' = job \/ job' = [job EXCEPT ![i].output = Append(job[i].output, chunk)]
    BY <1>1, <2>2, <2>3 DEF JobRecord
  <2>5. i = j
    BY <1>1, <1>3, <2>4 DEF JobRecord
  <2>6. job[j].status = "running"
    <3>1. job[j].status \notin {"absent", "pending"}
      BY <1>1, <2>1, <2>5 DEF Kept, NoChain
    <3>2. ~Terminal(j)
      BY <1>1, <2>1, <2>5 DEF Kept
    <3> QED BY <1>1, <3>1, <3>2 DEF Terminal, JobRecord
  <2>7. job' = [job EXCEPT ![j].output = Append(job[j].output, chunk)]
    BY <1>3, <2>4, <2>5
  <2>8. job'[j].output = Append(job[j].output, chunk) /\ job'[j].status = job[j].status
    BY <1>1, <2>7 DEF JobRecord
  <2> QED BY <2>6, <2>8
<1>4. ASSUME NEW p \in Pipeline, CreateJob(p) \/ StartJob(p) \/ Save(p) \/ SaveError(p)
      PROVE  job'[j].output = job[j].output
  <2>1. \/ job' = job
        \/ \E i : \/ job' = [job EXCEPT ![i].status = "pending"]
                \/ job' = [job EXCEPT ![i].status = "running"]
                \/ job' = [job EXCEPT ![i].status = "success"]
                \/ job' = [job EXCEPT ![i].status = "failed"]
    BY <1>4 DEF CreateJob, StartJob, Save, SaveError, Settle
  <2> QED BY <1>1, <2>1 DEF JobRecord
<1> QED
  BY <1>2, <1>3, <1>4, WhoWrites

\* What a step may do to a job: its status goes forward, its output only grows
\* and only while it runs, and once it has ended nothing touches it, which is
\* why a stream may close behind "done".
JobGoesForward(j) ==
  /\ Terminal(j) => job'[j] = job[j]
  /\ job'[j].status # job[j].status =>
       <<job[j].status, job'[j].status>> \in
         {<<"absent", "pending">>, <<"pending", "running">>,
          <<"running", "success">>, <<"running", "failed">>}
  /\ job'[j].output # job[j].output =>
       /\ job[j].status = "running" /\ job'[j].status = "running"
       /\ \E chunk \in Nat : job'[j].output = Append(job[j].output, chunk)
JobsGoForward == \A j \in Job : JobGoesForward(j)

\* No overlap of requests, chains of writes, failures and deaths of the process
\* takes back the verdict of a job, rewrites its output or adds to it after the
\* end.
THEOREM JobsAdvance == JobsSpec => [][JobsGoForward]_jobsVars
<1>1. JobsInv /\ JobsInv' /\ [JobsNext]_jobsVars => JobsGoForward
  <2> SUFFICES ASSUME JobsInv, JobsInv', [JobsNext]_jobsVars, NEW j \in Job
               PROVE  JobGoesForward(j)
    BY DEF JobsGoForward
  <2>1. job[j] \in JobRecord /\ job'[j] \in JobRecord
    BY DEF JobsInv, JobsTypeOK, JobRecord
  <2>2. \/ job'[j].status = job[j].status
        \/ job[j].status = "absent" /\ job'[j].status = "pending"
        \/ job[j].status = "pending" /\ job'[j].status = "running"
        \/ job[j].status = "running" /\ job'[j].status \in {"success", "failed"}
    BY StatusMoves DEF Terminal
  <2>3. \/ job'[j].output = job[j].output
        \/ /\ job[j].status = "running" /\ job'[j].status = "running"
           /\ \E chunk \in Nat : job'[j].output = Append(job[j].output, chunk)
    BY OutputGrows
  <2>4. Terminal(j) => job'[j] = job[j]
    BY <2>1, <2>2, <2>3 DEF Terminal, JobRecord
  <2> QED BY <2>2, <2>3, <2>4 DEF JobGoesForward
<1> QED BY <1>1, JobsInvariant, PTL DEF JobsSpec

\* What has failed has failed.
LEMMA FailuresStay == ASSUME JobsInv, [JobsNext]_jobsVars PROVE failures' >= failures
<1>1. failures \in Nat
  <2>1. failures \in 0..MaxFailures
    BY DEF JobsInv, JobsTypeOK
  <2> QED
    BY <2>1
<1>2. ASSUME NEW p \in Pipeline, PipelineStep(p) PROVE Fails \/ failures' = failures
  BY <1>2 DEF PipelineStep, CreateJob, StartJob, RecordRow, Provision, Prepare, Build, Deploy,
              Throws, ThrowsLate, ClearTunnel, OpenTunnel, SkipTunnel, NoteTunnel, Conclude,
              Rollback, FailRow, Save, LogError, SaveError, Settle, Works
<1>3. ASSUME NEW p \in Pipeline,
             \/ BeginBuild(p)
             \/ \E k \in DeployKey, preview \in BOOLEAN : BeginDeploy(p, k, preview)
             \/ \E d \in Job : BeginRollback(p, d)
      PROVE  Fails \/ failures' = failures
  BY <1>3, BeginTouches
<1>4. ASSUME NEW j \in Job, WriteChunk(j) \/ Ages(j) \/ LogLook(j)
      PROVE  Fails \/ failures' = failures
  BY <1>4 DEF WriteChunk, Ages, LogLook, LookFinds, LookSettles, Works
<1>5. ASSUME NEW r \in Reader, Connect(r) \/ PollStream(r) \/ BreakStream(r)
      PROVE  failures' = failures
  BY <1>5 DEF Connect, PollStream, BreakStream
<1>6. ASSUME ProcessDies \/ UNCHANGED jobsVars PROVE Fails \/ failures' = failures
  BY <1>6 DEF ProcessDies, jobsVars
<1>7. Fails \/ failures' = failures
  BY <1>2, <1>3, <1>4, <1>5, <1>6 DEF JobsNext
<1> QED
  BY <1>1, <1>7 DEF Fails

\* A request keeps the job it is to start.
LEMMA PendingStaysHeld == JobsLiveInv /\ [JobsNext]_jobsVars => PendingIsHeld'
<1> SUFFICES ASSUME JobsLiveInv, [JobsNext]_jobsVars, failures' = 0, NEW j \in Job,
                    job'[j].status = "pending"
             PROVE  \E p \in Pipeline : pipe'[p].at = "starting" /\ pipe'[p].job = j
  BY DEF PendingIsHeld
<1>1. JobsInv /\ JobsInv' /\ failures \in Nat
  <2>1. JobsInv /\ JobsInv'
    BY InvNext DEF JobsLiveInv
  <2>2. failures \in 0..MaxFailures
    BY <2>1 DEF JobsInv, JobsTypeOK
  <2> QED
    BY <2>1, <2>2
<1>2. failures = 0
  <2>1. failures' >= failures
    BY <1>1, FailuresStay
  <2> QED
    BY <1>1, <2>1
<1>3. CASE job[j].status = "pending"
  <2>1. PICK p \in Pipeline : pipe[p].at = "starting" /\ pipe[p].job = j
    BY <1>2, <1>3 DEF JobsLiveInv, PendingIsHeld
  <2>2. Serves(p, j)
    BY <1>2, <2>1 DEF Serves
  <2>3. ~WriteChunk(j)
    BY <1>1, <1>3 DEF JobsInv, Kept, NoChain, WriteChunk
  <2>4. ~PipelineStep(p)
    <3> SUFFICES ASSUME PipelineStep(p) PROVE FALSE
      OBVIOUS
    <3>1. StartJob(p)
      BY <2>1 DEF PipelineStep, CreateJob, RecordRow, Provision, Prepare, Build,
           Deploy, Throws, ThrowsLate, ClearTunnel, OpenTunnel, SkipTunnel, NoteTunnel, Conclude,
           Rollback, FailRow, Save, LogError, SaveError, InTry
    <3>2. ~Fails
      BY <1>2 DEF Fails
    <3>3. job' = [job EXCEPT ![j].status = "running"]
      BY <2>1, <3>1, <3>2 DEF StartJob
    <3> QED
      BY <1>1, <3>3, JobStatusMoves, TypesByName DEF JobsInv
  <2>5. pipe'[p] = pipe[p]
    BY <1>1, <2>2, <2>3, <2>4, OthersLeave
  <2> QED
    BY <2>1, <2>5
<1>4. CASE job[j].status # "pending"
  BY <1>1, <1>4, StatusMoves DEF Terminal
<1> QED
  BY <1>3, <1>4

LEMMA JobsLive == JobsSpec => []JobsLiveInv
<1>1. JobsInit => PendingIsHeld
  BY DEF JobsInit, PendingIsHeld
<1> QED
  BY <1>1, JobsInvariant, PendingStaysHeld, PTL DEF JobsSpec, JobsLiveInv

\* The temporal facts that the rest of the argument is made of.
JobsRunning == [][JobsNext]_jobsVars /\ []JobsLiveInv /\ JobsScheduling

ServedAt(p, j, k) == Serves(p, j) /\ StepsLeft(p, j) = k
ServedBelow(p, j, k) == Serves(p, j) /\ StepsLeft(p, j) < k
\* A job with fewer than n steps left comes to have fewer than k.
ComesDown(p, j, n, k) == ServedBelow(p, j, n) ~> ServedBelow(p, j, k) \/ Over(j)

LEMMA StepsAreCounted ==
  ASSUME JobsInv, NEW p \in Pipeline, NEW j \in Job
  PROVE  StepsLeft(p, j) \in Nat
<1>1. chain[j].queue \in Seq(Nat)
  BY TypesByName DEF JobsInv, ChainRecord
<1>2. PICK a \in Nat : a = StagesLeft(pipe[p].at)
  BY StagesAreFew
<1>3. PICK m \in Nat : m = Len(chain[j].queue)
  BY <1>1
<1> QED
  BY <1>2, <1>3 DEF StepsLeft

\* Its chain is written first, when its request waits for that, and then the
\* request goes on.
LEMMA OneStepDown ==
  ASSUME NEW p \in Pipeline, NEW j \in Job, NEW k \in Nat, NEW n \in Nat, n = k + 1
  PROVE  JobsRunning => ComesDown(p, j, n, k)
<1>1. JobsLiveInv /\ ServedAt(p, j, k) /\ [JobsNext]_jobsVars =>
        \/ ServedAt(p, j, k)' /\ CanWrite(j)' = CanWrite(j)
        \/ ServedBelow(p, j, k)' \/ Over(j)'
  BY ServedSteps DEF JobsLiveInv, ServedAt, ServedBelow, CanWrite
<1>2. JobsLiveInv /\ ServedAt(p, j, k) /\ CanWrite(j) /\ [JobsNext]_jobsVars =>
        (ServedAt(p, j, k) /\ CanWrite(j))' \/ ServedBelow(p, j, k)' \/ Over(j)'
  BY <1>1
<1>3. JobsLiveInv /\ ServedAt(p, j, k) /\ ~CanWrite(j) /\ [JobsNext]_jobsVars =>
        (ServedAt(p, j, k) /\ ~CanWrite(j))' \/ ServedBelow(p, j, k)' \/ Over(j)'
  BY <1>1
<1>4. JobsLiveInv /\ ServedAt(p, j, k) /\ <<WriteChunk(j)>>_jobsVars =>
        ServedBelow(p, j, k)' \/ Over(j)'
  BY WriteSteps DEF JobsLiveInv, ServedAt, ServedBelow
<1>5. JobsLiveInv /\ ServedAt(p, j, k) /\ <<PipelineStep(p)>>_jobsVars =>
        ServedBelow(p, j, k)' \/ Over(j)'
  BY RequestSteps DEF JobsLiveInv, ServedAt, ServedBelow
<1>6. ServedAt(p, j, k) /\ ~CanWrite(j) => CanStep(p)
  BY DEF ServedAt, Serves, CanStep, CanWrite
<1>7. JobsLiveInv /\ ServedBelow(p, j, n) => ServedAt(p, j, k) \/ ServedBelow(p, j, k)
  BY StepsAreCounted DEF JobsLiveInv, ServedAt, ServedBelow
<1>8. AllGoOn => RequestGoesOn(p) /\ ChainGoesOn(j)
  BY DEF AllGoOn
<1> QED
  BY <1>2, <1>3, <1>4, <1>5, <1>6, <1>7, <1>8, PTL
     DEF JobsRunning, JobsScheduling, RequestGoesOn, ChainGoesOn, ComesDown

LEMMA TwoStepsDown ==
  ASSUME NEW p \in Pipeline, NEW j \in Job, NEW k \in Nat, NEW n \in Nat, n = k + 2
  PROVE  JobsRunning => ComesDown(p, j, n, k)
<1>1. k + 1 \in Nat /\ n = (k + 1) + 1
  OBVIOUS
<1>2. JobsRunning => ComesDown(p, j, k + 1, k)
  BY <1>1, OneStepDown
<1>3. JobsRunning => ComesDown(p, j, n, k + 1)
  BY <1>1, OneStepDown
<1> QED
  BY <1>2, <1>3, PTL DEF ComesDown

LEMMA FourStepsDown ==
  ASSUME NEW p \in Pipeline, NEW j \in Job, NEW k \in Nat, NEW n \in Nat, n = k + 4
  PROVE  JobsRunning => ComesDown(p, j, n, k)
<1>1. k + 2 \in Nat /\ n = (k + 2) + 2
  OBVIOUS
<1>2. JobsRunning => ComesDown(p, j, k + 2, k)
  BY <1>1, TwoStepsDown
<1>3. JobsRunning => ComesDown(p, j, n, k + 2)
  BY <1>1, TwoStepsDown
<1> QED
  BY <1>2, <1>3, PTL DEF ComesDown

LEMMA EightStepsDown ==
  ASSUME NEW p \in Pipeline, NEW j \in Job, NEW k \in Nat, NEW n \in Nat, n = k + 8
  PROVE  JobsRunning => ComesDown(p, j, n, k)
<1>1. k + 4 \in Nat /\ n = (k + 4) + 4
  OBVIOUS
<1>2. JobsRunning => ComesDown(p, j, k + 4, k)
  BY <1>1, FourStepsDown
<1>3. JobsRunning => ComesDown(p, j, n, k + 4)
  BY <1>1, FourStepsDown
<1> QED
  BY <1>2, <1>3, PTL DEF ComesDown

\* A pending job and the request that is to start it.
Awaits(p, j) == pipe[p].at = "starting" /\ pipe[p].job = j /\ job[j].status = "pending"
WillBeOver(j) == <>Over(j)

\* A request that is to start its job takes 28 steps at most to its end.
LEMMA ServedJobEnds ==
  ASSUME NEW p \in Pipeline, NEW j \in Job
  PROVE  JobsRunning => (Awaits(p, j) => WillBeOver(j))
<1>1. JobsRunning => ComesDown(p, j, 8, 0)
  BY EightStepsDown
<1>2. JobsRunning => ComesDown(p, j, 16, 8)
  BY EightStepsDown
<1>3. JobsRunning => ComesDown(p, j, 24, 16)
  BY EightStepsDown
<1>4. JobsRunning => ComesDown(p, j, 32, 24)
  BY EightStepsDown
<1>5. JobsLiveInv /\ Awaits(p, j) => Over(j) \/ ServedBelow(p, j, 32)
  <2> SUFFICES ASSUME JobsLiveInv, pipe[p].at = "starting", pipe[p].job = j,
                      job[j].status = "pending", ~Over(j)
               PROVE  ServedBelow(p, j, 32)
    BY DEF Awaits
  <2>1. failures \in Nat
    BY DeployJobsAssumption DEF JobsLiveInv, JobsInv, JobsTypeOK
  <2>2. Serves(p, j)
    BY <2>1 DEF Serves, Over
  <2>3. chain[j].queue = <<>>
    BY DEF JobsLiveInv, JobsInv, Kept, NoChain
  <2>4. StagesLeft(pipe[p].at) = 14
    BY DEF StagesLeft
  <2>5. StepsLeft(p, j) = 28
    BY <2>3, <2>4 DEF StepsLeft
  <2> QED
    BY <2>2, <2>5 DEF ServedBelow
<1>6. JobsLiveInv => ~ServedBelow(p, j, 0)
  BY StepsAreCounted DEF JobsLiveInv, ServedBelow
<1> QED
  BY <1>1, <1>2, <1>3, <1>4, <1>5, <1>6, PTL
     DEF JobsRunning, ComesDown, WillBeOver

\* A job that is pending comes to an end unless an update fails or the process
\* dies: the request that created it holds it, and takes it through its stages
\* and through the writes of its chain whatever throws on the way.
THEOREM JobsDoEnd == JobsSpec /\ JobsScheduling => JobsEnd
<1> SUFFICES ASSUME NEW j \in Job
             PROVE  JobsSpec /\ JobsScheduling =>
                      (job[j].status = "pending" ~> Terminal(j) \/ failures > 0)
  BY DEF JobsEnd
<1>1. ASSUME JobsRunning, JobsLiveInv, job[j].status = "pending"
      PROVE  Over(j) \/ WillBeOver(j)
  <2>1. failures \in Nat
    BY <1>1, DeployJobsAssumption DEF JobsLiveInv, JobsInv, JobsTypeOK
  <2>2. failures # 0 => Over(j)
    BY <2>1 DEF Over
  <2>3. ASSUME failures = 0
        PROVE  WillBeOver(j)
    <3>1. PICK p \in Pipeline : Awaits(p, j)
      BY <1>1, <2>3 DEF JobsLiveInv, PendingIsHeld, Awaits
    <3> QED
      BY <1>1, <3>1, ServedJobEnds
  <2> QED
    BY <2>2, <2>3
<1>2. JobsRunning => (JobsLiveInv /\ job[j].status = "pending" => Over(j) \/ WillBeOver(j))
  BY <1>1
<1>3. JobsSpec /\ JobsScheduling => JobsRunning
  BY JobsLive, PTL DEF JobsSpec, JobsRunning
<1>4. Over(j) => Terminal(j) \/ failures > 0
  BY DEF Over
<1>5. JobsRunning => []JobsRunning
  BY PTL DEF JobsRunning, JobsScheduling
<1>6. JobsRunning => []JobsLiveInv
  BY PTL DEF JobsRunning
<1> QED
  BY <1>2, <1>3, <1>4, <1>5, <1>6, PTL DEF WillBeOver

\* The stream of a job that has ended, as long as it is open.
Untold(r) == reader[r].open /\ Terminal(reader[r].job)

\* It stays so until it closes, and a turn of the loop closes it.
LEMMA UntoldSteps ==
  ASSUME JobsInv, [JobsNext]_jobsVars, NEW r \in Reader, Untold(r)
  PROVE  /\ Untold(r)' \/ ~reader'[r].open
         /\ PollStream(r) => ~reader'[r].open
<1>1. /\ reader \in [Reader -> ReaderRecord] /\ job \in [Job -> JobRecord]
  BY TypesByName DEF JobsInv
<1>2. PICK j \in Job : j = reader[r].job
  BY <1>1 DEF Untold, ReaderRecord, JobsInv, Follows
<1>3. Terminal(j)'
  BY <1>1, <1>2, StatusMoves DEF Untold, Terminal
<1>4. PollStream(r) => ~reader'[r].open
  BY <1>1 DEF PollStream, Untold, ReaderRecord
<1>5. reader'[r].job = reader[r].job
  <2>1. ASSUME NEW q \in Reader, Connect(q) PROVE reader'[r].job = reader[r].job
    BY <1>1, <2>1 DEF Connect, ReaderRecord
  <2>2. ASSUME NEW q \in Reader, PollStream(q) PROVE reader'[r].job = reader[r].job
    BY <1>1, <2>2 DEF PollStream, ReaderRecord
  <2>3. ASSUME NEW q \in Reader, BreakStream(q) PROVE reader'[r].job = reader[r].job
    <3>1. CASE reader' = [reader EXCEPT ![q].open = FALSE]
      BY <1>1, <3>1 DEF ReaderRecord
    <3> DEFINE out == job[reader[q].job].output
               v == [reader[q] EXCEPT !.open = FALSE, !.cursor = Len(out),
                                      !.got = @ \o SubSeq(out, reader[q].sent + 1, Len(out))]
    <3>2. reader' = [reader EXCEPT ![q].open = FALSE] \/ reader' = [reader EXCEPT ![q] = v]
      BY <2>3 DEF BreakStream
    <3>3. v.job = reader[q].job
      BY <1>1 DEF ReaderRecord
    <3>4. CASE reader' = [reader EXCEPT ![q] = v]
      <4> HIDE DEF v
      <4> QED
        BY <1>1, <3>3, <3>4
    <3> QED
      BY <3>1, <3>2, <3>4
  <2>4. CASE ProcessDies
    BY <1>1, <2>4 DEF ProcessDies, ReaderRecord
  <2>5. CASE reader' = reader
    BY <2>5
  <2>6. ASSUME NEW p \in Pipeline, PipelineStep(p) PROVE reader' = reader
    BY <2>6 DEF PipelineStep, CreateJob, StartJob, RecordRow, Provision, Prepare, Build, Deploy,
                Throws, ThrowsLate, ClearTunnel, OpenTunnel, SkipTunnel, NoteTunnel, Conclude,
                Rollback, FailRow, Save, LogError, SaveError
  <2>7. ASSUME NEW i \in Job, WriteChunk(i) \/ Ages(i) \/ LogLook(i) PROVE reader' = reader
    BY <2>7 DEF WriteChunk, Ages, LogLook, LookFinds, LookSettles
  <2>8. ASSUME NEW p \in Pipeline, BeginBuild(p) PROVE reader' = reader
    BY <2>8 DEF BeginBuild
  <2>9. ASSUME NEW p \in Pipeline, NEW k \in DeployKey, NEW preview \in BOOLEAN,
               BeginDeploy(p, k, preview)
        PROVE  reader' = reader
    BY <2>9 DEF BeginDeploy
  <2>10. ASSUME NEW p \in Pipeline, NEW d \in Job, BeginRollback(p, d) PROVE reader' = reader
    BY <2>10 DEF BeginRollback
  <2>11. UNCHANGED jobsVars => reader' = reader
    BY DEF jobsVars
  <2> QED
    BY <2>1, <2>2, <2>3, <2>4, <2>5, <2>6, <2>7, <2>8, <2>9, <2>10, <2>11 DEF JobsNext
<1>6. reader'[r].job = j
  BY <1>2, <1>5
<1>7. Terminal(reader[r].job)'
  BY <1>3, <1>6 DEF Terminal
<1> QED
  BY <1>4, <1>7 DEF Untold

\* The stream of a job that has ended says so and closes, unless its connection
\* breaks before: the loop on the server goes on while the connection is open.
\* Nothing is assumed of the browser; it need not come back.
THEOREM FollowersHear == JobsSpec /\ JobsScheduling => FollowersAreTold
<1> SUFFICES ASSUME NEW r \in Reader
             PROVE  JobsSpec /\ JobsScheduling =>
                      (Untold(r) ~> reader[r].done \/ ~reader[r].open)
  BY DEF FollowersAreTold, Untold
<1>1. JobsLiveInv /\ Untold(r) /\ [JobsNext]_jobsVars => Untold(r)' \/ (~reader[r].open)'
  BY UntoldSteps DEF JobsLiveInv
<1>2. JobsLiveInv /\ Untold(r) /\ <<PollStream(r)>>_jobsVars => (~reader[r].open)'
  <2>1. PollStream(r) => JobsNext
    BY DEF JobsNext
  <2> QED
    BY <2>1, UntoldSteps DEF JobsLiveInv
<1>3. AllGoOn => StreamDelivers(r)
  BY DEF AllGoOn
<1>4. JobsSpec /\ JobsScheduling => JobsRunning
  BY JobsLive, PTL DEF JobsSpec, JobsRunning
<1>5. Untold(r) => CanDeliver(r)
  BY DEF Untold, CanDeliver
<1> QED
  BY <1>1, <1>2, <1>3, <1>4, <1>5, PTL DEF JobsRunning, JobsScheduling, StreamDelivers
=============================================================================
