----------------------- MODULE AgentOperationsProofs -----------------------
(***************************************************************************)
(* The durable operations keep their promises for any number of            *)
(* operations, grants, deployments, clients, faults and crashes: what they *)
(* say is true, they go forward only, and what is claimed is decided.      *)
(***************************************************************************)
EXTENDS AgentOperations, ComposeRunsProofs

-----------------------------------------------------------------------------
(* The inductive invariant.  The properties of AgentOperations are not     *)
(* inductive: a row settles only as the worker's own control state allows, *)
(* and that the two agree is what these conjuncts add.                     *)

RowsConsistent ==
  \A o \in Op :
    /\ launches[o] \in {0, 1}
    /\ status[o] \in {"absent", "pending", "cancelled"} => launches[o] = 0
    /\ status[o] \in {"verifying", "success"} => launches[o] = 1
    /\ status[o] # "absent" => input[o] # None

WorkerConsistent ==
  /\ worker.pc = "claiming" => worker.op \in Op /\ status[worker.op] # "absent"
  /\ worker.pc = "observing" => worker.op \in Op /\ status[worker.op] = "verifying"
  /\ worker.pc \in {"pinning", "calling"} => worker.run \in WorkerRun
  /\ worker.pc = "pinning" => input[worker.op].kind = "release" /\ Releasable(worker.op)

Consistent ==
  /\ RowsConsistent
  /\ WorkerConsistent
  /\ WorkerHoldsItsRow
  /\ LeaseFollowsStatus
  /\ RunningIsHeld
  /\ KeyIsUnique
  /\ ReleasesComeFromBuilds

IInv == TypeOK /\ Consistent

-----------------------------------------------------------------------------
\* The worker's control state only ever names operations and runs.
LEMMA WorkerFields ==
  ASSUME TypeOK
  PROVE  /\ worker.op \in Op \cup {None}
         /\ worker.run \in Run \cup {None}
         /\ worker.queue \subseteq Op
         /\ \A pc \in {"down", "recovering", "polling", "reconciling"} :
              At(pc) \in WorkerRecord
BY DEF TypeOK, WorkerRecord, Executing, At

\* A row that exists carries the call it was created for.
LEMMA InputFields ==
  ASSUME IInv, NEW o \in Op, status[o] # "absent"
  PROVE  /\ input[o] \in AgentCall
         /\ SlugOf[input[o].dep] \in Slug
         /\ input[o].image \in Image
<1>1. input[o] \in AgentCall
  BY DEF IInv, Consistent, RowsConsistent, TypeOK
<1> QED BY <1>1, OperationAssumption DEF AgentCall, Image

-----------------------------------------------------------------------------
\* The initial states satisfy the invariant.
LEMMA InitInv == Init => IInv
<1> SUFFICES ASSUME Init PROVE IInv
  OBVIOUS
<1>1. TypeOK
  <2>1. ComposeTypeOK
    BY ComposeTypeCorrect DEF Init
  <2>2. worker \in WorkerRecord
    BY DEF Init, At, WorkerRecord, Executing
  <2>3. /\ status \in [Op -> Status]
        /\ launches \in [Op -> Nat]
        /\ attempts \in [Op -> Nat]
        /\ lease \in [Op -> {"none", "live", "expired"}]
        /\ input \in [Op -> AgentCall \cup {None}]
        /\ result \in [Op -> BuildResult]
        /\ mutation \in [Op -> Run \cup {None}]
    BY DEF Init, Status, Settled, BuildResult, Image
  <2>4. /\ revoked \in [Grant -> BOOLEAN]
        /\ resources \in [Grant -> SUBSET Deployment]
        /\ client \in [Client -> AgentCall \cup {None}]
    BY DEF Init
  <2> QED BY <2>1, <2>2, <2>3, <2>4 DEF TypeOK
<1>2. Consistent
  BY DEF Init, At, Consistent, RowsConsistent, WorkerConsistent, WorkerHoldsItsRow,
         LeaseFollowsStatus, RunningIsHeld, KeyIsUnique, ReleasesComeFromBuilds, Executing
<1> QED BY <1>1, <1>2 DEF IInv

-----------------------------------------------------------------------------
\* Steps that touch neither the rows nor the worker.
LEMMA ElsewhereInv ==
  ASSUME IInv, UNCHANGED <<opVars, worker>>, faults' = 0 => faults = 0
  PROVE  Consistent'
<1> USE DEF opVars, IInv, Consistent
<1>1. RowsConsistent'
  BY DEF RowsConsistent
<1>2. WorkerConsistent'
  BY DEF WorkerConsistent, Releasable
<1>3. WorkerHoldsItsRow'
  BY DEF WorkerHoldsItsRow
<1>4. LeaseFollowsStatus'
  BY DEF LeaseFollowsStatus
<1>5. RunningIsHeld'
  BY DEF RunningIsHeld
<1>6. KeyIsUnique'
  BY DEF KeyIsUnique
<1>7. ReleasesComeFromBuilds'
  BY DEF ReleasesComeFromBuilds, Releasable
<1> QED BY <1>1, <1>2, <1>3, <1>4, <1>5, <1>6, <1>7

\* Steps that leave the rows alone and keep the worker's control state honest.
LEMMA WorkerMovesInv ==
  ASSUME IInv, UNCHANGED opVars,
         faults' = 0 => faults = 0,
         WorkerConsistent', WorkerHoldsItsRow', RunningIsHeld'
  PROVE  Consistent'
<1> USE DEF opVars, IInv, Consistent
<1>1. RowsConsistent'
  BY DEF RowsConsistent
<1>2. LeaseFollowsStatus'
  BY DEF LeaseFollowsStatus
<1>3. KeyIsUnique'
  BY DEF KeyIsUnique
<1>4. ReleasesComeFromBuilds'
  BY DEF ReleasesComeFromBuilds, Releasable
<1> QED BY <1>1, <1>2, <1>3, <1>4

\* An open row is settled, or its mutation goes on detached.
LEMMA SettlingInv ==
  ASSUME IInv, NEW o \in Op, status[o] \in {"running", "verifying"},
         NEW v \in {"verifying", "success", "failed", "uncertain"},
         v \in {"verifying", "success"} => launches[o] = 1,
         status' = [status EXCEPT ![o] = v],
         lease' = [lease EXCEPT ![o] = IF v = "verifying" THEN "live" ELSE "none"],
         UNCHANGED <<launches, input>>,
         \A p \in Op : p # o => result'[p] = result[p],
         worker'.pc \notin Executing \cup {"claiming", "observing"},
         RunningIsHeld'
  PROVE  Consistent'
<1> USE DEF IInv, Consistent
<1>0. status \in [Op -> Status] /\ lease \in [Op -> {"none", "live", "expired"}]
  BY DEF TypeOK
<1>1. RowsConsistent'
  BY <1>0 DEF RowsConsistent
<1>2. WorkerConsistent' /\ WorkerHoldsItsRow'
  BY DEF WorkerConsistent, WorkerHoldsItsRow, Executing
<1>3. LeaseFollowsStatus'
  BY <1>0 DEF LeaseFollowsStatus
<1>4. KeyIsUnique'
  BY <1>0 DEF KeyIsUnique
<1>5. ReleasesComeFromBuilds'
  BY <1>0 DEF ReleasesComeFromBuilds, Releasable
<1> QED BY <1>1, <1>2, <1>3, <1>4, <1>5

\* Whichever way an update of the executing operation's row turns out.
LEMMA WriteInv ==
  ASSUME IInv, worker.pc \in Executing,
         NEW v \in {"verifying", "success", "failed"},
         v \in {"verifying", "success"} => launches[worker.op] = 1,
         Write(worker.op, v) \/ MarkUncertain(worker.op),
         UNCHANGED <<launches, input>>,
         IF status'[worker.op] = status[worker.op] THEN UNCHANGED result
         ELSE \A p \in Op : p # worker.op => result'[p] = result[p]
  PROVE  Consistent'
<1> USE DEF IInv, Consistent
<1>1. worker.op \in Op /\ status[worker.op] = "running"
  BY DEF WorkerHoldsItsRow
<1>2. worker' = At("polling") /\ At("polling").pc = "polling"
  BY DEF Write, MarkUncertain, At
<1>3. status \in [Op -> Status]
  BY DEF TypeOK
<1>4. RunningIsHeld'
  <2>1. CASE faults' # 0
    BY <2>1 DEF RunningIsHeld
  <2>2. CASE faults' = 0
    <3>1. faults \in Nat
      BY DEF TypeOK, ComposeTypeOK
    <3>2. faults = 0 /\ status' = [status EXCEPT ![worker.op] = v]
      BY <2>2, <3>1 DEF Write, MarkUncertain, Fault
    <3> QED BY <3>2, <1>1, <1>3 DEF RunningIsHeld, Executing
  <2> QED BY <2>1, <2>2
<1>5. CASE \E w \in {v, "uncertain"} :
             /\ status' = [status EXCEPT ![worker.op] = w]
             /\ lease' = [lease EXCEPT ![worker.op] =
                            IF w = "verifying" THEN "live" ELSE "none"]
  <2>1. PICK w \in {v, "uncertain"} :
             /\ status' = [status EXCEPT ![worker.op] = w]
             /\ lease' = [lease EXCEPT ![worker.op] =
                            IF w = "verifying" THEN "live" ELSE "none"]
    BY <1>5
  <2>2. \A p \in Op : p # worker.op => result'[p] = result[p]
    OBVIOUS
  <2> QED BY <2>1, <2>2, <1>1, <1>2, <1>4, SettlingInv DEF Executing
<1>6. CASE UNCHANGED <<status, lease>>
  <2>1. RowsConsistent'
    BY <1>6 DEF RowsConsistent
  <2>2. WorkerConsistent' /\ WorkerHoldsItsRow'
    BY <1>2 DEF WorkerConsistent, WorkerHoldsItsRow, Executing
  <2>3. LeaseFollowsStatus'
    BY <1>6 DEF LeaseFollowsStatus
  <2>4. KeyIsUnique'
    BY <1>6 DEF KeyIsUnique
  <2>5. ReleasesComeFromBuilds'
    BY <1>6 DEF ReleasesComeFromBuilds, Releasable
  <2> QED BY <2>1, <2>2, <2>3, <2>4, <2>5, <1>4
<1> QED BY <1>5, <1>6 DEF Write, MarkUncertain

\* A mutation is sent for the operation the worker holds.
LEMMA LaunchInv ==
  ASSUME IInv, NEW r \in WorkerRun,
         worker.pc \in {"authorized", "pinning"},
         input[worker.op].kind = "release" => Releasable(worker.op),
         Launched(worker.op, r),
         UNCHANGED <<status, lease, input, result>>,
         faults' = 0 => faults = 0
  PROVE  Consistent'
<1> USE DEF IInv, Consistent, Launched
<1>1. worker.op \in Op /\ status[worker.op] = "running" /\ launches[worker.op] = 0
  BY DEF WorkerHoldsItsRow, Executing
<1>2. launches \in [Op -> Nat]
  BY DEF TypeOK
<1>3. worker'.pc = "calling" /\ worker'.op = worker.op /\ worker'.run = r
  BY DEF TypeOK, WorkerRecord, Executing
<1>4. launches'[worker.op] = 1
  BY <1>1, <1>2
<1>5. RowsConsistent'
  BY <1>1, <1>2, <1>4 DEF RowsConsistent
<1>6. WorkerConsistent' /\ WorkerHoldsItsRow'
  BY <1>1, <1>3, <1>4 DEF WorkerConsistent, WorkerHoldsItsRow, Executing
<1>7. LeaseFollowsStatus'
  BY DEF LeaseFollowsStatus
<1>8. RunningIsHeld'
  BY <1>3 DEF RunningIsHeld, Executing
<1>9. KeyIsUnique'
  BY DEF KeyIsUnique
<1>10. ReleasesComeFromBuilds'
  BY <1>1, <1>2 DEF ReleasesComeFromBuilds, Releasable
<1> QED BY <1>5, <1>6, <1>7, <1>8, <1>9, <1>10

-----------------------------------------------------------------------------
(* Clients and administration.                                             *)

\* A step that leaves the Compose side alone keeps it well formed.
LEMMA ComposeUnchanged ==
  ASSUME ComposeTypeOK, UNCHANGED composeVars
  PROVE  ComposeTypeOK'
BY DEF composeVars, hostVars, ComposeTypeOK, RowHeld

\* Or with at most one more fault.
LEMMA ComposeKept ==
  ASSUME ComposeTypeOK, KeepHost, UNCHANGED faults \/ Fault
  PROVE  ComposeTypeOK' /\ (faults' = 0 => faults = 0)
<1>1. faults' \in 0..MaxFaults
  BY FaultType DEF ComposeTypeOK
<1>2. faults \in Nat
  BY DEF ComposeTypeOK
<1>3. \A p \in Reader : RowHeld(p)'
  BY RowsHeldStands DEF KeepHost, ComposeTypeOK
<1> QED BY <1>1, <1>2, <1>3 DEF KeepHost, hostVars, Fault, ComposeTypeOK

\* The worker takes its answer, or leaves its request to itself.
LEMMA ReaderLeft ==
  ASSUME ComposeTypeOK, UNCHANGED <<hostVars, rows>>, UNCHANGED faults \/ Fault,
         NEW dropped, dropped = [reader EXCEPT ![Own] = Idle],
         \/ reader' = dropped
         \/ \E p \in Reader : reader' = [dropped EXCEPT ![p] = reader[Own]]
  PROVE  ComposeTypeOK' /\ (faults' = 0 => faults = 0)
<1>1. faults' \in 0..MaxFaults /\ faults \in Nat
  BY FaultType DEF ComposeTypeOK
<1>2. Own \in Reader /\ reader \in [Reader -> ReaderRecord] /\ Idle \in ReaderRecord
  BY ComposeAssumption DEF ComposeTypeOK, ReaderRecord
<1>3. reader' \in [Reader -> ReaderRecord]
  BY <1>2
<1>4. \A p \in Reader : reader'[p] = Idle \/ \E q \in Reader : reader'[p] = reader[q]
  BY <1>2
<1>5. \A p \in Reader : RowHeld(p)'
  BY <1>4 DEF ComposeTypeOK, RowHeld, Idle
<1> QED BY <1>1, <1>3, <1>5 DEF hostVars, Fault, ComposeTypeOK

\* Asking for an operation.
LEMMA AskInv ==
  ASSUME IInv, NEW c \in Client, NEW call \in Call, Ask(c, call)
  PROVE  IInv'
<1>1. ComposeTypeOK'
  BY ComposeUnchanged DEF IInv, TypeOK, Ask
<1>2. call \in AgentCall
  BY OperationAssumption
<1>3. TypeOK'
  BY <1>1, <1>2 DEF IInv, TypeOK, Ask, opVars, grantVars
<1>4. Consistent'
  BY ElsewhereInv DEF Ask, composeVars
<1> QED BY <1>3, <1>4 DEF IInv

\* Two clients may reach the insert with one key; the second changes nothing.
LEMMA CreateInv ==
  ASSUME IInv, NEW c \in Client, Create(c)
  PROVE  IInv'
<1> USE DEF IInv
<1>1. ComposeTypeOK'
  BY ComposeUnchanged DEF TypeOK, Create
<1>2. client[c] \in AgentCall
  BY DEF TypeOK, Create
<1>3. PICK o \in Op :
        /\ status[o] = "absent"
        /\ IF \E p \in Op : SameKey(p, client[c])
           THEN UNCHANGED <<status, input>>
           ELSE /\ status' = [status EXCEPT ![o] = "pending"]
                /\ input' = [input EXCEPT ![o] = client[c]]
  BY DEF Create
<1>4. UNCHANGED <<launches, attempts, lease, result, mutation, grantVars, worker, faults>>
  BY DEF Create, composeVars
<1>5. client' \in [Client -> AgentCall \cup {None}]
  BY DEF TypeOK, Create
<1>6. CASE UNCHANGED <<status, input>>
  <2>1. TypeOK'
    BY <1>1, <1>4, <1>5, <1>6 DEF TypeOK, grantVars
  <2>2. Consistent'
    BY <1>4, <1>6, ElsewhereInv DEF opVars
  <2> QED BY <2>1, <2>2
<1>7. CASE /\ ~\E p \in Op : SameKey(p, client[c])
           /\ status' = [status EXCEPT ![o] = "pending"]
           /\ input' = [input EXCEPT ![o] = client[c]]
  <2>0. status \in [Op -> Status] /\ input \in [Op -> AgentCall \cup {None}]
    BY DEF TypeOK
  <2>1. TypeOK'
    BY <1>1, <1>2, <1>4, <1>5, <1>7, <2>0 DEF TypeOK, grantVars, Status
  <2> USE DEF Consistent
  <2>2. RowsConsistent'
    BY <1>2, <1>3, <1>4, <1>7, <2>0, OperationAssumption DEF RowsConsistent
  <2>3. \A p \in Op : Releasable(p) /\ p # o => Releasable(p)'
    BY <1>3, <1>4, <1>7, <2>0 DEF Releasable
  <2>4. WorkerHoldsItsRow'
    BY <1>3, <1>4, <1>7, <2>0 DEF WorkerHoldsItsRow
  <2>5. WorkerConsistent'
    <3>1. worker.pc = "pinning" => worker.op \in Op /\ worker.op # o
      BY <1>3 DEF WorkerHoldsItsRow, Executing
    <3> QED BY <3>1, <2>3, <1>3, <1>4, <1>7, <2>0 DEF WorkerConsistent
  <2>6. LeaseFollowsStatus'
    BY <1>3, <1>4, <1>7, <2>0 DEF LeaseFollowsStatus
  <2>7. RunningIsHeld'
    BY <1>3, <1>4, <1>7, <2>0 DEF RunningIsHeld
  <2>8. KeyIsUnique'
    BY <1>3, <1>7, <2>0 DEF KeyIsUnique, SameKey
  <2>9. ReleasesComeFromBuilds'
    BY <2>3, <1>3, <1>4, <1>7, <2>0 DEF ReleasesComeFromBuilds, RowsConsistent
  <2> QED BY <2>1, <2>2, <2>4, <2>5, <2>6, <2>7, <2>8, <2>9
<1> QED BY <1>3, <1>6, <1>7

\* Revocation cancels what has not started and nothing else.
LEMMA RevokeInv ==
  ASSUME IInv, NEW g \in Grant, Revoke(g)
  PROVE  IInv'
<1> USE DEF IInv
<1>1. ComposeTypeOK'
  BY ComposeUnchanged DEF TypeOK, Revoke
<1>2. UNCHANGED <<launches, attempts, input, result, mutation, resources,
                  client, worker, faults>>
  BY DEF Revoke, composeVars
<1>3. \A o \in Op : \/ status'[o] = status[o] /\ lease'[o] = lease[o]
                    \/ status[o] = "pending" /\ status'[o] = "cancelled" /\ lease'[o] = "none"
  BY DEF Revoke
<1>4. TypeOK'
  <2>1. status' \in [Op -> Status]
    BY DEF Revoke, TypeOK, Status, Settled
  <2>2. lease' \in [Op -> {"none", "live", "expired"}]
    BY DEF Revoke, TypeOK
  <2>3. revoked' \in [Grant -> BOOLEAN]
    BY DEF Revoke, TypeOK
  <2> QED BY <1>1, <1>2, <2>1, <2>2, <2>3 DEF TypeOK
<1> USE DEF Consistent
<1>5. RowsConsistent'
  BY <1>2, <1>3 DEF RowsConsistent
<1>6. \A p \in Op : Releasable(p) => Releasable(p)'
  BY <1>2, <1>3 DEF Releasable
<1>7. WorkerHoldsItsRow'
  BY <1>2, <1>3 DEF WorkerHoldsItsRow
<1>8. WorkerConsistent'
  <2>1. worker.pc = "pinning" => worker.op \in Op
    BY DEF WorkerHoldsItsRow, Executing
  <2> QED BY <2>1, <1>2, <1>3, <1>6 DEF WorkerConsistent
<1>9. LeaseFollowsStatus'
  BY <1>2, <1>3 DEF LeaseFollowsStatus
<1>10. RunningIsHeld'
  BY <1>2, <1>3 DEF RunningIsHeld
<1>11. KeyIsUnique'
  BY <1>2, <1>3 DEF KeyIsUnique
<1>12. ReleasesComeFromBuilds'
  BY <1>2, <1>6 DEF ReleasesComeFromBuilds
<1> QED BY <1>4, <1>5, <1>7, <1>8, <1>9, <1>10, <1>11, <1>12

\* Consent only changes who may start.
LEMMA GrantInv ==
  ASSUME IInv, NEW g \in Grant, NEW chosen \in SUBSET Deployment, Consent(g, chosen)
  PROVE  IInv'
<1>1. ComposeTypeOK'
  BY ComposeUnchanged DEF IInv, TypeOK, Consent
<1>2. UNCHANGED <<opVars, client, worker, faults>>
  BY DEF Consent, composeVars
<1>3. /\ revoked' \in [Grant -> BOOLEAN]
      /\ resources' \in [Grant -> SUBSET Deployment]
  BY DEF IInv, TypeOK, Consent
<1>4. TypeOK'
  BY <1>1, <1>2, <1>3 DEF IInv, TypeOK, opVars
<1>5. Consistent'
  BY <1>2, ElsewhereInv
<1> QED BY <1>4, <1>5 DEF IInv

-----------------------------------------------------------------------------
(* The worker: start-up, the tick and the claim.                           *)

\* Steps that only move the worker between ticks, or that read.
LEMMA IdleMovesInv ==
  ASSUME IInv,
         \/ Boot
         \/ RecoverDone
         \/ StartTick
         \/ FindPending
         \/ Authorize
         \/ DropClaim
  PROVE  IInv'
<1> USE DEF IInv
<1>1. ComposeTypeOK' /\ (faults' = 0 => faults = 0)
  <2>1. CASE Boot \/ StartTick \/ FindPending \/ Authorize
    <3>1. UNCHANGED composeVars
      BY <2>1 DEF Boot, StartTick, FindPending, Authorize
    <3> QED BY <3>1, ComposeUnchanged DEF TypeOK, composeVars
  <2>2. CASE RecoverDone \/ DropClaim
    <3>1. KeepHost /\ (UNCHANGED faults \/ Fault)
      BY <2>2 DEF RecoverDone, DropClaim, KeepHost
    <3> QED BY <3>1, ComposeKept DEF TypeOK
  <2> QED BY <2>1, <2>2
<1>2. UNCHANGED <<opVars, grantVars, client>>
  BY DEF Boot, RecoverDone, StartTick, FindPending, Authorize, DropClaim
<1>3. worker' \in WorkerRecord
  BY WorkerFields
     DEF TypeOK, WorkerRecord, Executing, At, Boot, RecoverDone, StartTick, FindPending, Authorize,
         DropClaim, Verifying
<1>4. TypeOK'
  BY <1>1, <1>2, <1>3 DEF TypeOK, opVars, grantVars
<1>5. WorkerConsistent' /\ WorkerHoldsItsRow' /\ RunningIsHeld'
  <2> USE DEF Consistent, WorkerConsistent, WorkerHoldsItsRow, RunningIsHeld, Executing, opVars
  <2>0. worker \in WorkerRecord /\ faults \in Nat
    BY DEF TypeOK, ComposeTypeOK
  <2>1. CASE Boot \/ StartTick
    BY <2>1, <1>1, <1>2 DEF Boot, StartTick, At
  <2>2. CASE RecoverDone \/ DropClaim
    BY <2>2, <2>0, <1>1, <1>2 DEF RecoverDone, DropClaim, At, Fault
  <2>3. CASE FindPending
    BY <2>3, <1>1, <1>2 DEF FindPending, At
  <2>4. CASE Authorize
    BY <2>4, <2>0, <1>1, <1>2 DEF Authorize, WorkerRecord, Executing
  <2> QED BY <2>1, <2>2, <2>3, <2>4
<1>6. Consistent'
  BY <1>1, <1>2, <1>5, WorkerMovesInv
<1> QED BY <1>4, <1>6

\* Recovery settles only rows that were running when the process died.
LEMMA RecoverOneInv ==
  ASSUME IInv, NEW o \in Op, RecoverOne(o)
  PROVE  IInv'
<1> USE DEF IInv
<1>1. ComposeTypeOK'
  BY ComposeUnchanged DEF TypeOK, RecoverOne
<1>2. /\ status' \in [Op -> Status]
      /\ lease' \in [Op -> {"none", "live", "expired"}]
  BY DEF RecoverOne, TypeOK, Status, Settled
<1>3. TypeOK'
  BY <1>1, <1>2 DEF RecoverOne, TypeOK, grantVars
<1>4. RunningIsHeld'
  BY DEF RecoverOne, RunningIsHeld
<1>5. Consistent'
  BY <1>4, SettlingInv DEF RecoverOne, Executing
<1> QED BY <1>3, <1>5

\* The worker asks for the log of an operation.
LEMMA AskLogInv ==
  ASSUME IInv, NEW o \in Op, AskLog(o)
  PROVE  IInv'
<1> USE DEF IInv
<1>1. SlugOf[input[o].dep] \in Slug
  BY InputFields DEF AskLog
<1>2. ComposeAction /\ UNCHANGED faults
  BY <1>1, ComposeAssumption DEF AskLog, LogRead, ComposeAction
<1>3. ComposeTypeOK'
  BY <1>2, ComposeTypeCorrect DEF TypeOK
<1>4. /\ UNCHANGED <<opVars, grantVars, client>>
      /\ worker' = [worker EXCEPT !.pc = "observing", !.op = o]
      /\ status[o] = "verifying" /\ worker.pc = "reconciling"
  BY DEF AskLog
<1>5. worker' \in WorkerRecord /\ worker'.pc = "observing" /\ worker'.op = o
  BY <1>4 DEF TypeOK, WorkerRecord, Executing
<1>6. TypeOK'
  BY <1>3, <1>4, <1>5 DEF TypeOK, opVars, grantVars
<1>7. WorkerConsistent' /\ WorkerHoldsItsRow'
  BY <1>4, <1>5 DEF WorkerConsistent, WorkerHoldsItsRow, Executing, opVars
<1>8. RunningIsHeld'
  BY <1>2, <1>4, <1>5 DEF Consistent, RunningIsHeld, Executing, opVars
<1>9. Consistent'
  BY <1>2, <1>4, <1>7, <1>8, WorkerMovesInv
<1> QED BY <1>6, <1>9

\* What the worker may make of the answer.
LEMMA ReconcileCases ==
  ASSUME IInv, Reconcile \/ ReconcileFails
  PROVE  /\ worker.op \in Op /\ status[worker.op] = "verifying"
         /\ worker.pc = "observing" /\ worker' = Dequeued(worker.op)
         /\ \/ \E v \in {"success", "failed", "uncertain"} :
                 /\ status' = [status EXCEPT ![worker.op] = v]
                 /\ lease' = [lease EXCEPT ![worker.op] = "none"]
            \/ UNCHANGED status /\ lease' = [lease EXCEPT ![worker.op] = "live"]
            \/ UNCHANGED <<status, lease>>
<1>1. worker.op \in Op /\ status[worker.op] = "verifying" /\ worker.pc = "observing"
  BY DEF Reconcile, ReconcileFails, IInv, Consistent, WorkerConsistent
<1>2. CASE Reconcile
  <2>1. reader[Own].verdict \in {"running", "success", "failed"}
    <3>1. reader[Own] \in ReaderRecord /\ reader[Own].pc = "answered"
      BY <1>2, ComposeAssumption DEF Reconcile, IInv, TypeOK, ComposeTypeOK
    <3> QED BY <3>1 DEF ReaderRecord, Idle, Outcome
  <2> QED BY <1>1, <1>2, <2>1 DEF Reconcile
<1>3. CASE ReconcileFails
  BY <1>1, <1>3 DEF ReconcileFails
<1> QED BY <1>2, <1>3

\* Reconciling settles only operations whose mutation was sent.
LEMMA ReconcileInv ==
  ASSUME IInv, Reconcile \/ ReconcileFails
  PROVE  IInv'
<1> USE DEF IInv
<1>0. PICK o \in Op : /\ o = worker.op /\ status[o] = "verifying"
                      /\ worker.pc = "observing" /\ worker' = Dequeued(o)
  BY ReconcileCases
<1>1. UNCHANGED <<launches, attempts, input, result, mutation, grantVars, client>>
  BY DEF Reconcile, ReconcileFails
<1>3. ComposeTypeOK' /\ (faults' = 0 => faults = 0)
  <2> DEFINE dropped == [reader EXCEPT ![Own] = Idle]
  <2>1. /\ UNCHANGED <<hostVars, rows>> /\ (UNCHANGED faults \/ Fault)
        /\ \/ reader' = dropped
           \/ \E p \in Reader : reader' = [dropped EXCEPT ![p] = reader[Own]]
    BY DEF Reconcile, ReconcileFails
  <2>2. ComposeTypeOK
    BY DEF TypeOK
  <2> HIDE DEF dropped, IInv
  <2> QED BY <2>1, <2>2, ReaderLeft DEF dropped
<1>4. worker' \in WorkerRecord /\ worker'.pc = "reconciling"
  BY <1>0 DEF Dequeued, At, TypeOK, WorkerRecord, Executing
<1>5. \/ \E v \in {"success", "failed", "uncertain"} :
           /\ status' = [status EXCEPT ![o] = v]
           /\ lease' = [lease EXCEPT ![o] = "none"]
      \/ UNCHANGED status /\ lease' = [lease EXCEPT ![o] = "live"]
      \/ UNCHANGED <<status, lease>>
  BY <1>0, ReconcileCases
<1>6. TypeOK'
  <2>1. /\ status' \in [Op -> Status]
        /\ lease' \in [Op -> {"none", "live", "expired"}]
    BY <1>5 DEF TypeOK, Status, Settled
  <2> QED BY <1>1, <1>3, <1>4, <2>1 DEF TypeOK, grantVars
<1>7. RunningIsHeld'
  <2>1. faults' = 0 => \A p \in Op : status[p] # "running"
    BY <1>0, <1>3 DEF Consistent, RunningIsHeld, Executing
  <2>2. \A p \in Op : status'[p] = "running" => status[p] = "running"
    BY <1>5 DEF TypeOK
  <2> QED BY <2>1, <2>2 DEF RunningIsHeld
<1>8. CASE \E v \in {"success", "failed", "uncertain"} :
             /\ status' = [status EXCEPT ![o] = v]
             /\ lease' = [lease EXCEPT ![o] = "none"]
  <2>1. launches[o] = 1
    BY <1>0 DEF Consistent, RowsConsistent
  <2>2. Consistent'
    BY <2>1, <1>0, <1>1, <1>4, <1>7, <1>8, SettlingInv DEF Executing
  <2> QED BY <1>6, <2>2
<1>9. CASE UNCHANGED status /\ lease' = [lease EXCEPT ![o] = "live"]
  <2>1. status' = [status EXCEPT ![o] = "verifying"]
    BY <1>0, <1>9 DEF TypeOK
  <2>2. launches[o] = 1
    BY <1>0 DEF Consistent, RowsConsistent
  <2>3. Consistent'
    BY <2>1, <2>2, <1>0, <1>1, <1>4, <1>7, <1>9, SettlingInv DEF Executing
  <2> QED BY <1>6, <2>3
<1>10. CASE UNCHANGED <<status, lease>>
  <2>1. WorkerConsistent' /\ WorkerHoldsItsRow'
    BY <1>4 DEF WorkerConsistent, WorkerHoldsItsRow, Executing
  <2>2. Consistent'
    BY <2>1, <1>1, <1>3, <1>7, <1>10, WorkerMovesInv DEF opVars
  <2> QED BY <1>6, <2>2
<1> QED BY <1>5, <1>8, <1>9, <1>10

\* The clock.
LEMMA LeaseExpiresInv ==
  ASSUME IInv, NEW o \in Op, LeaseExpires(o)
  PROVE  IInv'
<1> USE DEF IInv
<1>1. ComposeTypeOK'
  BY ComposeUnchanged DEF TypeOK, LeaseExpires
<1>2. lease' \in [Op -> {"none", "live", "expired"}]
  BY DEF LeaseExpires, TypeOK
<1>3. TypeOK'
  BY <1>1, <1>2 DEF LeaseExpires, TypeOK, grantVars
<1>4. UNCHANGED <<status, launches, input, result, worker, faults>>
  BY DEF LeaseExpires, composeVars
<1> USE DEF Consistent
<1>5. RowsConsistent'
  BY <1>4 DEF RowsConsistent
<1>6. WorkerConsistent' /\ WorkerHoldsItsRow'
  BY <1>4 DEF WorkerConsistent, WorkerHoldsItsRow, Releasable
<1>7. LeaseFollowsStatus'
  BY <1>4 DEF LeaseFollowsStatus, LeaseExpires, TypeOK
<1>8. RunningIsHeld' /\ KeyIsUnique'
  BY <1>4 DEF RunningIsHeld, KeyIsUnique
<1>9. ReleasesComeFromBuilds'
  BY <1>4 DEF ReleasesComeFromBuilds, Releasable
<1> QED BY <1>3, <1>5, <1>6, <1>7, <1>8, <1>9

\* The claim takes the row only from "pending"; a revocation in between wins.
LEMMA ClaimInv ==
  ASSUME IInv, Claim
  PROVE  IInv'
<1> USE DEF IInv, Consistent
<1>1. ComposeTypeOK' /\ UNCHANGED faults
  BY ComposeUnchanged DEF TypeOK, Claim, composeVars
<1>2. worker.op \in Op /\ worker.pc = "claiming"
  BY DEF WorkerConsistent, Claim
<1>3. UNCHANGED <<launches, input, result, mutation, grantVars, client>>
  BY DEF Claim
<1>4. CASE status[worker.op] = "pending"
  <2>0. status \in [Op -> Status] /\ worker \in WorkerRecord
    BY DEF TypeOK
  <2>1. /\ status' = [status EXCEPT ![worker.op] = "running"]
        /\ lease' = [lease EXCEPT ![worker.op] = "live"]
        /\ attempts' = [attempts EXCEPT ![worker.op] = @ + 1]
        /\ worker' = [worker EXCEPT !.pc = "claimed"]
    BY <1>4 DEF Claim
  <2>2. TypeOK'
    <3>1. status' \in [Op -> Status] /\ attempts' \in [Op -> Nat]
          /\ lease' \in [Op -> {"none", "live", "expired"}]
      BY <1>2, <2>1 DEF TypeOK, Status
    <3>2. worker' \in WorkerRecord
      BY <2>0, <2>1 DEF WorkerRecord, Executing
    <3> QED BY <1>1, <1>3, <3>1, <3>2 DEF TypeOK, grantVars
  <2>3. worker'.pc = "claimed" /\ worker'.op = worker.op
    BY <2>0, <2>1 DEF WorkerRecord, Executing
  <2>4. RowsConsistent'
    BY <1>2, <1>3, <1>4, <2>0, <2>1 DEF RowsConsistent
  <2>5. WorkerConsistent'
    BY <2>3 DEF WorkerConsistent
  <2>6. WorkerHoldsItsRow'
    BY <1>2, <1>3, <1>4, <2>0, <2>1, <2>3 DEF WorkerHoldsItsRow, RowsConsistent, Executing
  <2>7. LeaseFollowsStatus'
    BY <1>2, <2>0, <2>1 DEF LeaseFollowsStatus, TypeOK
  <2>8. RunningIsHeld'
    <3>1. faults' = 0 => \A p \in Op : status[p] # "running"
      BY <1>1, <1>2 DEF RunningIsHeld, Executing
    <3> QED BY <1>2, <2>0, <2>1, <2>3, <3>1 DEF RunningIsHeld, Executing
  <2>9. KeyIsUnique'
    BY <1>2, <1>3, <1>4, <2>0, <2>1 DEF KeyIsUnique
  <2>10. ReleasesComeFromBuilds'
    BY <1>2, <1>3, <1>4, <2>0, <2>1 DEF ReleasesComeFromBuilds, Releasable
  <2> QED BY <2>2, <2>4, <2>5, <2>6, <2>7, <2>8, <2>9, <2>10
<1>5. CASE status[worker.op] # "pending"
  <2>1. worker' = At("polling") /\ UNCHANGED opVars
    BY <1>3, <1>5 DEF Claim, opVars
  <2>2. TypeOK'
    BY <1>1, <1>3, <2>1, WorkerFields DEF TypeOK, opVars, grantVars
  <2>3. WorkerConsistent' /\ WorkerHoldsItsRow'
    BY <2>1 DEF WorkerConsistent, WorkerHoldsItsRow, Executing, At
  <2>4. RunningIsHeld'
    BY <1>1, <1>2, <2>1 DEF RunningIsHeld, Executing, opVars
  <2>5. Consistent'
    BY <1>1, <2>1, <2>3, <2>4, WorkerMovesInv
  <2> QED BY <2>2, <2>5
<1> QED BY <1>4, <1>5

-----------------------------------------------------------------------------
(* The worker: executing.                                                  *)

\* Updating the row of the executing operation keeps the types.
LEMMA WriteType ==
  ASSUME IInv, KeepHost, NEW o \in Op,
         NEW v \in {"verifying", "success", "failed"},
         Write(o, v) \/ MarkUncertain(o)
  PROVE  /\ ComposeTypeOK'
         /\ status' \in [Op -> Status]
         /\ lease' \in [Op -> {"none", "live", "expired"}]
         /\ worker' \in WorkerRecord
<1> USE DEF IInv
<1>1. UNCHANGED faults \/ Fault
  BY DEF Write, MarkUncertain
<1>2. ComposeTypeOK'
  BY <1>1, ComposeKept DEF TypeOK
<1>3. \A w \in Status : [status EXCEPT ![o] = w] \in [Op -> Status]
  BY DEF TypeOK
<1>4. status' \in [Op -> Status]
  BY <1>3 DEF Write, MarkUncertain, TypeOK, Status, Settled
<1>5. \A l \in {"none", "live", "expired"} :
         [lease EXCEPT ![o] = l] \in [Op -> {"none", "live", "expired"}]
  BY DEF TypeOK
<1>6. lease' \in [Op -> {"none", "live", "expired"}]
  BY <1>5 DEF Write, MarkUncertain, TypeOK
<1>7. worker' \in WorkerRecord
  BY WorkerFields DEF Write, MarkUncertain
<1> QED BY <1>2, <1>4, <1>6, <1>7

\* Refusals and failures before the mutation, and a call that breaks.
LEMMA RefusalInv ==
  ASSUME IInv,
         \/ Refuse
         \/ RefuseRelease
         \/ PinFailed
         \/ HandlerThrows
  PROVE  IInv'
<1> USE DEF IInv
<1>1. worker.pc \in Executing
  BY DEF Refuse, RefuseRelease, PinFailed, HandlerThrows, Executing
<1>2. worker.op \in Op
  BY <1>1 DEF Consistent, WorkerHoldsItsRow
<1>3. KeepHost /\ UNCHANGED <<launches, attempts, input, result, mutation, grantVars, client>>
  BY DEF Refuse, RefuseRelease, PinFailed, HandlerThrows
<1>4. Write(worker.op, "failed") \/ MarkUncertain(worker.op)
  BY DEF Refuse, RefuseRelease, PinFailed, HandlerThrows
<1>5. TypeOK'
  BY <1>2, <1>3, <1>4, WriteType DEF TypeOK, grantVars
<1>6. Consistent'
  BY <1>1, <1>2, <1>3, <1>4, WriteInv
<1> QED BY <1>5, <1>6

\* The answer of the endpoint settles or detaches the operation.
LEMMA FinishInv ==
  ASSUME IInv, Finish
  PROVE  IInv'
<1> USE DEF IInv
<1> DEFINE q == run[worker.run]
           v == StatusFor(q.answer)
<1>1. worker.pc = "calling" /\ worker.pc \in Executing
  BY DEF Finish, Executing
<1>2. worker.op \in Op /\ launches[worker.op] = 1 /\ status[worker.op] = "running"
  BY <1>1 DEF Consistent, WorkerHoldsItsRow
<1>3. KeepHost /\ UNCHANGED <<launches, attempts, input, mutation, grantVars, client>>
  BY DEF Finish
<1>4. v \in {"verifying", "success", "failed"} /\ Write(worker.op, v)
  BY DEF Finish, StatusFor
<1>5. worker.run \in Run /\ q.image \in Image
  <2>1. worker.run \in Run
    BY <1>1 DEF Consistent, WorkerConsistent, Run
  <2>2. q.stage = "answered"
    BY DEF Finish
  <2>3. q \in RunRecord
    BY <2>1, <2>2, StageUsed DEF TypeOK
  <2> QED BY <2>1, <2>3 DEF RunRecord
<1>6. \/ UNCHANGED result
      \/ /\ status'[worker.op] = "success"
         /\ \E image \in {q.image, None}, t \in {"passed", "failed", "skipped"} :
               result' = [result EXCEPT ![worker.op] = [image |-> image, tests |-> t]]
  BY DEF Finish
<1>7. result' \in [Op -> BuildResult]
  BY <1>5, <1>6 DEF TypeOK, BuildResult, Image
<1>8. TypeOK'
  BY <1>2, <1>3, <1>4, <1>7, WriteType DEF TypeOK, grantVars
<1>9. IF status'[worker.op] = status[worker.op] THEN UNCHANGED result
      ELSE \A p \in Op : p # worker.op => result'[p] = result[p]
  BY <1>2, <1>6 DEF TypeOK
<1>10. Consistent'
  BY <1>1, <1>2, <1>3, <1>4, <1>9, WriteInv
<1> QED BY <1>8, <1>10

\* What Launched does to the types.
LEMMA LaunchedType ==
  ASSUME TypeOK, NEW o \in Op, NEW r \in WorkerRun, Launched(o, r)
  PROVE  /\ launches' \in [Op -> Nat]
         /\ mutation' \in [Op -> Run \cup {None}]
         /\ worker' \in WorkerRecord
<1>1. launches' \in [Op -> Nat]
  BY DEF TypeOK, Launched
<1>2. mutation' \in [Op -> Run \cup {None}]
  BY DEF TypeOK, Launched, Run
<1>3. worker' \in WorkerRecord
  BY DEF TypeOK, Launched, WorkerRecord, Executing, Run
<1> QED BY <1>1, <1>2, <1>3

\* Requests that send the mutation.
LEMMA LaunchesInv ==
  ASSUME IInv, NEW r \in WorkerRun,
         LaunchRedeploy(r) \/ LaunchBuild(r) \/ SwitchRelease(r)
  PROVE  IInv'
<1> USE DEF IInv
<1> DEFINE o == worker.op
           s == SlugOf[input[worker.op].dep]
<1>1. worker.pc \in {"authorized", "pinning"} /\ Launched(o, r)
  BY DEF LaunchRedeploy, LaunchBuild, SwitchRelease
<1>2. o \in Op /\ status[o] # "absent"
  BY <1>1 DEF Consistent, WorkerHoldsItsRow, Executing
<1>3. s \in Slug /\ input[o].image \in Image
  BY <1>2, InputFields
<1>4. UNCHANGED <<status, attempts, lease, input, result, grantVars, client>>
  BY DEF LaunchRedeploy, LaunchBuild, SwitchRelease
<1>5. r \in Run /\ faults \in Nat
  BY DEF Run, TypeOK, ComposeTypeOK
<1>6. \/ Accept(r, s)
      \/ AcceptFails(r, s)
      \/ BuildStarts(r, s, input[o].image)
      \/ SandboxStarts(r, s, input[o].image)
      \/ BuildRefused(r, s, input[o].image)
  BY DEF LaunchRedeploy, LaunchBuild, SwitchRelease
<1>7. ComposeAction
  BY <1>3, <1>5, <1>6 DEF ComposeAction, BuildStarts, Kind
<1>8. ComposeTypeOK' /\ (faults' = 0 => faults = 0)
  BY <1>7, ComposeTypeCorrect, FaultsGrow DEF TypeOK
<1>9. TypeOK'
  BY <1>1, <1>2, <1>4, <1>8, LaunchedType DEF TypeOK, grantVars
<1>10. input[o].kind = "release" => Releasable(o)
  BY DEF LaunchRedeploy, LaunchBuild, SwitchRelease, Consistent, WorkerConsistent
<1>11. Consistent'
  BY <1>1, <1>4, <1>8, <1>10, LaunchInv
<1> QED BY <1>9, <1>11

\* The pin of a release precedes its mutation.
LEMMA PinReleaseInv ==
  ASSUME IInv, NEW r \in WorkerRun, PinRelease(r)
  PROVE  IInv'
<1> USE DEF IInv
<1> DEFINE o == worker.op
           s == SlugOf[input[worker.op].dep]
           image == result[input[worker.op].build].image
<1>1. worker.pc = "authorized" /\ worker.pc \in Executing
  BY DEF PinRelease, Executing
<1>2. o \in Op /\ status[o] = "running"
  BY <1>1 DEF Consistent, WorkerHoldsItsRow
<1>3. s \in Slug /\ r \in Run
  BY <1>2, InputFields DEF Run
<1>4. image \in Image
  BY DEF PinRelease, Releasable, TypeOK, BuildResult
<1>5. Pin(r, s, image) /\ worker' = [worker EXCEPT !.pc = "pinning", !.run = r]
  BY DEF PinRelease
<1>6. ComposeTypeOK' /\ UNCHANGED faults
  BY <1>3, <1>4, <1>5, ArrivalType DEF TypeOK, Pin
<1>7. UNCHANGED <<opVars, grantVars, client>>
  BY DEF PinRelease
<1>8. worker' \in WorkerRecord /\ worker'.pc = "pinning" /\ worker'.op = o /\ worker'.run = r
  BY <1>3, <1>5 DEF TypeOK, WorkerRecord, Executing
<1>9. TypeOK'
  BY <1>6, <1>7, <1>8 DEF TypeOK, opVars, grantVars
<1>10. WorkerConsistent'
  BY <1>7, <1>8 DEF WorkerConsistent, PinRelease, Releasable, opVars
<1>11. WorkerHoldsItsRow'
  BY <1>1, <1>7, <1>8 DEF WorkerHoldsItsRow, Consistent, Executing, opVars
<1>12. RunningIsHeld'
  BY <1>1, <1>6, <1>7, <1>8 DEF RunningIsHeld, Consistent, Executing, opVars
<1>13. Consistent'
  BY <1>6, <1>7, <1>10, <1>11, <1>12, WorkerMovesInv
<1> QED BY <1>9, <1>13

-----------------------------------------------------------------------------
(* Everything that happens without the worker.                             *)

\* Requests, host processes, stalls and operators.
LEMMA OutsideInv ==
  ASSUME IInv, HostStep \/ OperatorStep \/ \E p \in Reader : ReadersStep(p)
  PROVE  IInv'
<1> USE DEF IInv
<1>1. UNCHANGED <<opVars, grantVars, client, worker>>
  BY DEF HostStep, OperatorStep, ReadersStep
<1>2. ComposeAction
  <2>1. CASE HostStep
    BY <2>1 DEF HostStep, ComposeAction
  <2>2. CASE \E p \in Reader : ReadersStep(p)
    BY <2>2 DEF ReadersStep, ComposeAction
  <2>3. CASE OperatorStep
    <3>1. CASE \E r \in OperatorRun, s \in Slug, image \in Image : OperatorEdit(r, s, image)
      BY <3>1 DEF OperatorEdit, ComposeAction, Run, Kind
    <3>2. CASE \E s \in Slug : \/ \E p \in Reader \ {Own} : LogRead(p, s)
                               \/ ComposeUp(s)
                               \/ \E r \in OperatorRun : OperatorRedeploy(r, s)
      BY <3>2 DEF OperatorRedeploy, ComposeAction, Run
    <3> QED BY <2>3, <3>1, <3>2 DEF OperatorStep
  <2> QED BY <2>1, <2>2, <2>3
<1>3. faults' = 0 => faults = 0
  BY <1>2, FaultsGrow DEF TypeOK
<1>4. TypeOK'
  BY <1>1, <1>2, ComposeTypeCorrect DEF TypeOK, opVars, grantVars
<1>5. Consistent'
  BY <1>1, <1>3, ElsewhereInv
<1> QED BY <1>4, <1>5

\* The process dies, or the host restarts.
LEMMA CrashInv ==
  ASSUME IInv, Crash \/ Reboot
  PROVE  IInv'
<1> USE DEF IInv
<1>1. ComposeTypeOK'
  BY EnvironmentType DEF TypeOK, Crash, Reboot
<1>2. UNCHANGED <<opVars, grantVars, faults>>
  BY DEF Crash, Reboot, ServerCrash, HostReboot
<1>3. \/ worker' = At("down") /\ client' = [c \in Client |-> None]
      \/ UNCHANGED <<worker, client>>
  BY DEF Crash, Reboot
<1>4. worker' \in WorkerRecord /\ client' \in [Client -> AgentCall \cup {None}]
  BY <1>3, WorkerFields DEF TypeOK
<1>5. TypeOK'
  BY <1>1, <1>2, <1>4 DEF TypeOK, opVars, grantVars
<1>6. CASE worker' = At("down")
  <2>1. WorkerConsistent' /\ WorkerHoldsItsRow' /\ RunningIsHeld'
    BY <1>6 DEF WorkerConsistent, WorkerHoldsItsRow, RunningIsHeld, Executing, At
  <2> QED BY <1>2, <1>5, <2>1, WorkerMovesInv
<1>7. CASE UNCHANGED worker
  BY <1>2, <1>5, <1>7, ElsewhereInv
<1> QED BY <1>3, <1>6, <1>7

-----------------------------------------------------------------------------
\* The invariant is inductive.
LEMMA NextInv == IInv /\ [Next]_vars => IInv'
<1> SUFFICES ASSUME IInv, [Next]_vars PROVE IInv'
  OBVIOUS
<1>1. CASE ClientStep
  BY <1>1, AskInv, CreateInv DEF ClientStep
<1>2. CASE AdminStep
  BY <1>2, RevokeInv, GrantInv DEF AdminStep
<1>3. CASE WorkerStep
  <2>1. CASE \E r \in WorkerRun :
               \/ LaunchRedeploy(r) \/ LaunchBuild(r) \/ PinRelease(r) \/ SwitchRelease(r)
    BY <2>1, LaunchesInv, PinReleaseInv
  <2>2. CASE Reconcile \/ ReconcileFails \/ \E o \in Op : RecoverOne(o) \/ AskLog(o)
    BY <2>2, RecoverOneInv, AskLogInv, ReconcileInv
  <2>3. CASE Boot \/ RecoverDone \/ StartTick \/ FindPending \/ Authorize \/ DropClaim
    BY <2>3, IdleMovesInv
  <2>4. CASE Refuse \/ RefuseRelease \/ PinFailed \/ HandlerThrows
    BY <2>4, RefusalInv
  <2> QED BY <1>3, <2>1, <2>2, <2>3, <2>4, ClaimInv, FinishInv DEF WorkerStep
<1>4. CASE HostStep \/ OperatorStep \/ \E p \in Reader : ReadersStep(p)
  BY <1>4, OutsideInv
<1>5. CASE \E o \in Op : LeaseExpires(o)
  BY <1>5, LeaseExpiresInv
<1>6. CASE Crash \/ Reboot
  BY <1>6, CrashInv
<1>7. CASE UNCHANGED vars
  <2>1. UNCHANGED <<opVars, grantVars, client, worker, composeVars>>
    BY <1>7 DEF vars
  <2>2. TypeOK'
    BY <2>1, ComposeUnchanged DEF IInv, TypeOK, opVars, grantVars
  <2>3. Consistent'
    BY <2>1, ElsewhereInv DEF composeVars
  <2> QED BY <2>2, <2>3 DEF IInv
<1> QED BY <1>1, <1>2, <1>3, <1>4, <1>5, <1>6, <1>7 DEF Next

LEMMA Invariance == Spec => []IInv
BY InitInv, NextInv, PTL DEF Spec

-----------------------------------------------------------------------------
(* Theorems.                                                               *)

\* Every variable keeps its type.
THEOREM TypeCorrect == Spec => []TypeOK
<1>1. IInv => TypeOK
  BY DEF IInv
<1> QED BY <1>1, Invariance, PTL

\* No race of clients queues two operations under one grant and key.
THEOREM IdempotencyKeys == Spec => []KeyIsUnique
<1>1. IInv => KeyIsUnique
  BY DEF IInv, Consistent
<1> QED BY <1>1, Invariance, PTL

\* What the worker read of its row when it claimed it holds until it settles it,
\* whatever clients, administrators and other requests do between its awaits.
THEOREM WorkerOwnsItsRow == Spec => []WorkerHoldsItsRow
<1>1. IInv => WorkerHoldsItsRow
  BY DEF IInv, Consistent
<1> QED BY <1>1, Invariance, PTL

\* No operation is left "running" by a process that works, as long as no update
\* of a row fails.
THEOREM NothingLeftRunning == Spec => []RunningIsHeld
<1>1. IInv => RunningIsHeld
  BY DEF IInv, Consistent
<1> QED BY <1>1, Invariance, PTL

\* A lease is held exactly while an outcome is open.
THEOREM LeasesFollowStatus == Spec => []LeaseFollowsStatus
<1>1. IInv => LeaseFollowsStatus
  BY DEF IInv, Consistent
<1> QED BY <1>1, Invariance, PTL

\* A deployment is only ever switched to a successful build of its own.
THEOREM ReleasesAreBuilds == Spec => []ReleasesComeFromBuilds
<1>1. IInv => ReleasesComeFromBuilds
  BY DEF IInv, Consistent
<1> QED BY <1>1, Invariance, PTL

-----------------------------------------------------------------------------
(* The detailed specification implements the abstract one.                 *)

\* One row settles, or its mutation detaches.
LEMMA SettleRefines ==
  ASSUME IInv, NEW o \in Op, status[o] \in {"running", "verifying"},
         NEW v \in {"verifying", "success", "failed", "uncertain"},
         v = "success" => launches[o] = 1,
         v = "verifying" => launches[o] = 1 /\ status[o] = "running",
         status' = [status EXCEPT ![o] = v], UNCHANGED launches
  PROVE  Lifecycle!LifecycleNext
<1>1. CASE v = "verifying"
  <2>1. Lifecycle!Detach(o)
    BY <1>1 DEF Lifecycle!Detach, Lifecycle!Become
  <2> QED BY <2>1 DEF Lifecycle!LifecycleNext
<1>2. CASE v # "verifying"
  <2>1. Lifecycle!Settle(o, v) /\ v \in Lifecycle!Settled
    BY <1>2 DEF Lifecycle!Settle, Lifecycle!Become, Lifecycle!Settled
  <2> QED BY <2>1 DEF Lifecycle!LifecycleNext
<1> QED BY <1>1, <1>2

\* Every step that leaves neither column alone is a step of the lifecycle.
LEMMA StepRefines ==
  ASSUME IInv, Next
  PROVE  Lifecycle!LifecycleNext \/ UNCHANGED <<status, launches>>
<1> USE DEF IInv
<1>0. status \in [Op -> Status] /\ launches \in [Op -> Nat]
  BY DEF TypeOK
<1>1. ASSUME NEW c \in Client, Create(c)
      PROVE  Lifecycle!LifecycleNext \/ UNCHANGED <<status, launches>>
  <2>1. PICK o \in Op : /\ status[o] = "absent"
                        /\ UNCHANGED status \/ status' = [status EXCEPT ![o] = "pending"]
    BY <1>1 DEF Create
  <2>2. UNCHANGED launches
    BY <1>1 DEF Create
  <2>3. UNCHANGED status \/ Lifecycle!Queue(o)
    BY <2>1, <2>2 DEF Lifecycle!Queue, Lifecycle!Become
  <2> QED BY <2>2, <2>3 DEF Lifecycle!LifecycleNext
<1>2. ASSUME NEW g \in Grant, Revoke(g)
      PROVE  Lifecycle!LifecycleNext
  <2> DEFINE S == {o \in Op : status[o] = "pending" /\ input[o].grant = g}
  <2>1. Lifecycle!Cancel(S)
    BY <1>2 DEF Revoke, Lifecycle!Cancel
  <2>2. S \in SUBSET Op
    OBVIOUS
  <2> QED BY <2>1, <2>2 DEF Lifecycle!LifecycleNext
<1>3. ASSUME NEW o \in Op, RecoverOne(o)
      PROVE  Lifecycle!LifecycleNext
  <2>1. /\ status[o] = "running"
        /\ status' = [status EXCEPT ![o] = "uncertain"]
        /\ UNCHANGED launches
    BY <1>3 DEF RecoverOne
  <2> QED BY <2>1, SettleRefines
<1>4. ASSUME Reconcile \/ ReconcileFails
      PROVE  Lifecycle!LifecycleNext \/ UNCHANGED <<status, launches>>
  <2>1. PICK o \in Op : /\ o = worker.op /\ status[o] = "verifying" /\ launches[o] = 1
                        /\ UNCHANGED launches
    BY <1>4, ReconcileCases DEF Reconcile, ReconcileFails, Consistent, RowsConsistent
  <2>2. \/ UNCHANGED status
        \/ \E v \in {"success", "failed", "uncertain"} : status' = [status EXCEPT ![o] = v]
    BY <1>4, <2>1, ReconcileCases
  <2> QED BY <2>1, <2>2, SettleRefines
<1>5. ASSUME Claim
      PROVE  Lifecycle!LifecycleNext \/ UNCHANGED <<status, launches>>
  <2>1. worker.op \in Op
    BY <1>5 DEF Claim, Consistent, WorkerConsistent
  <2>2. UNCHANGED launches
    BY <1>5 DEF Claim
  <2>3. UNCHANGED status \/ Lifecycle!Start(worker.op)
    BY <1>5 DEF Claim, Lifecycle!Start, Lifecycle!Become
  <2> QED BY <2>1, <2>2, <2>3 DEF Lifecycle!LifecycleNext
<1>6. ASSUME Refuse \/ RefuseRelease \/ PinFailed \/ HandlerThrows \/ Finish
      PROVE  Lifecycle!LifecycleNext \/ UNCHANGED <<status, launches>>
  <2>1. worker.pc \in Executing /\ UNCHANGED launches
    BY <1>6 DEF Refuse, RefuseRelease, PinFailed, HandlerThrows, Finish, Executing
  <2>2. worker.op \in Op /\ status[worker.op] = "running"
    BY <2>1 DEF Consistent, WorkerHoldsItsRow
  <2>3. \/ UNCHANGED status
        \/ \E v \in {"failed", "uncertain"} : status' = [status EXCEPT ![worker.op] = v]
        \/ /\ worker.pc = "calling"
           /\ \E v \in {"verifying", "success"} : status' = [status EXCEPT ![worker.op] = v]
    BY <1>6 DEF Refuse, RefuseRelease, PinFailed, HandlerThrows, Finish, StatusFor, Write,
                MarkUncertain
  <2>4. worker.pc = "calling" => launches[worker.op] = 1
    BY <2>1 DEF Consistent, WorkerHoldsItsRow
  <2> QED BY <2>1, <2>2, <2>3, <2>4, SettleRefines
<1>7. ASSUME NEW r \in WorkerRun, LaunchRedeploy(r) \/ LaunchBuild(r) \/ SwitchRelease(r)
      PROVE  Lifecycle!LifecycleNext
  <2>1. worker.pc \in {"authorized", "pinning"} /\ UNCHANGED status
    BY <1>7 DEF LaunchRedeploy, LaunchBuild, SwitchRelease
  <2>2. /\ worker.op \in Op /\ status[worker.op] = "running"
        /\ launches[worker.op] = 0
    BY <2>1 DEF Consistent, WorkerHoldsItsRow, Executing
  <2>3. launches' = [launches EXCEPT ![worker.op] = 1]
    BY <1>7, <2>2 DEF LaunchRedeploy, LaunchBuild, SwitchRelease, Launched
  <2>4. Lifecycle!Mutate(worker.op)
    BY <2>1, <2>2, <2>3 DEF Lifecycle!Mutate
  <2> QED BY <2>2, <2>4 DEF Lifecycle!LifecycleNext
<1>8. ASSUME NEW c \in Client, NEW call \in Call, Ask(c, call)
      PROVE  UNCHANGED <<status, launches>>
  BY <1>8 DEF Ask, opVars
<1>9. ASSUME NEW g \in Grant, NEW chosen \in SUBSET Deployment, Consent(g, chosen)
      PROVE  UNCHANGED <<status, launches>>
  BY <1>9 DEF Consent, opVars
<1>10. ASSUME NEW r \in WorkerRun, PinRelease(r)
       PROVE  UNCHANGED <<status, launches>>
  BY <1>10 DEF PinRelease, opVars
<1>11. ASSUME \/ Boot \/ RecoverDone \/ StartTick \/ FindPending \/ Authorize
              \/ DropClaim \/ HostStep \/ OperatorStep \/ Crash \/ Reboot
              \/ \E o \in Op : AskLog(o)
              \/ \E p \in Reader : ReadersStep(p)
       PROVE  UNCHANGED <<status, launches>>
  BY <1>11 DEF Boot, RecoverDone, StartTick, FindPending, Authorize, DropClaim,
               HostStep, OperatorStep, Crash, Reboot, AskLog, ReadersStep, opVars
<1>12. ASSUME NEW o \in Op, LeaseExpires(o)
       PROVE  UNCHANGED <<status, launches>>
  BY <1>12 DEF LeaseExpires
<1>13. CASE ClientStep
  BY <1>13, <1>1, <1>8 DEF ClientStep
<1>14. CASE AdminStep
  BY <1>14, <1>2, <1>9, <1>11 DEF AdminStep
<1>15. CASE WorkerStep
  BY <1>15, <1>3, <1>4, <1>5, <1>6, <1>7, <1>10, <1>11 DEF WorkerStep
<1> QED BY <1>11, <1>12, <1>13, <1>14, <1>15 DEF Next

\* Every step is one of the lifecycle or a stutter.
LEMMA LifecycleStep ==
  IInv /\ [Next]_vars => [Lifecycle!LifecycleNext]_Lifecycle!lifecycleVars
<1> SUFFICES ASSUME IInv, [Next]_vars
             PROVE  Lifecycle!LifecycleNext \/ UNCHANGED <<status, launches>>
  BY DEF Lifecycle!lifecycleVars
<1>1. CASE UNCHANGED vars
  BY <1>1 DEF vars, opVars
<1> QED BY <1>1, StepRefines

\* The worker, the endpoints, crashes, revocations and racing clients together
\* implement the lifecycle an agent is promised: one start, at most one mutation,
\* none after a cancellation, none replayed, and a verdict that stays.
THEOREM LifecycleImplemented == Spec => ImplementsLifecycle
<1>1. Init => Lifecycle!LifecycleInit
  BY DEF Init, Lifecycle!LifecycleInit
<1> QED BY <1>1, LifecycleStep, Invariance, PTL
       DEF Spec, ImplementsLifecycle, Lifecycle!LifecycleSpec

\* Who writes the columns that the lifecycle does not speak of.
LEMMA OtherColumns ==
  ASSUME IInv, [Next]_vars, NEW o \in Op
  PROVE  /\ status[o] # "absent" => input'[o] = input[o]
         /\ attempts'[o] # attempts[o] => status[o] = "pending" /\ status'[o] = "running"
         /\ result'[o] # result[o] => status[o] = "running" /\ launches[o] = 1
         /\ mutation'[o] # mutation[o] => status[o] = "running" /\ launches[o] = 0
<1>0. /\ input \in [Op -> AgentCall \cup {None}] /\ attempts \in [Op -> Nat]
      /\ result \in [Op -> BuildResult] /\ mutation \in [Op -> Run \cup {None}]
      /\ status \in [Op -> Status]
  BY DEF IInv, TypeOK
<1>1. CASE UNCHANGED vars
  BY <1>1 DEF vars, opVars
<1>2. ASSUME NEW c \in Client, Create(c)
      PROVE  /\ status[o] # "absent" => input'[o] = input[o]
             /\ UNCHANGED <<attempts, result, mutation>>
  BY <1>0, <1>2 DEF Create
<1>3. CASE Claim
  <2>1. PICK c \in Op : c = worker.op
    BY <1>3 DEF Claim, IInv, Consistent, WorkerConsistent
  <2>2. UNCHANGED <<input, result, mutation>>
    BY <1>3 DEF Claim
  <2>3. \/ UNCHANGED attempts
        \/ /\ status[c] = "pending"
           /\ status' = [status EXCEPT ![c] = "running"]
           /\ attempts' = [attempts EXCEPT ![c] = @ + 1]
    BY <1>3, <2>1 DEF Claim
  <2> QED BY <1>0, <2>2, <2>3
<1>4. CASE Finish
  <2>1. PICK c \in Op : c = worker.op /\ status[c] = "running" /\ launches[c] = 1
    BY <1>4 DEF Finish, IInv, Consistent, WorkerHoldsItsRow, Executing
  <2>2. UNCHANGED <<input, attempts, mutation>>
    BY <1>4 DEF Finish
  <2>3. UNCHANGED result \/ \E b : result' = [result EXCEPT ![c] = b]
    BY <1>4, <2>1 DEF Finish
  <2> QED BY <1>0, <2>1, <2>2, <2>3
<1>5. ASSUME NEW r \in WorkerRun, LaunchRedeploy(r) \/ LaunchBuild(r) \/ SwitchRelease(r)
      PROVE  /\ UNCHANGED <<input, attempts, result>>
             /\ mutation'[o] # mutation[o] => status[o] = "running" /\ launches[o] = 0
  <2>1. PICK c \in Op : c = worker.op /\ status[c] = "running" /\ launches[c] = 0
    BY <1>5 DEF LaunchRedeploy, LaunchBuild, SwitchRelease, IInv, Consistent,
                WorkerHoldsItsRow, Executing
  <2>2. UNCHANGED <<input, attempts, result>>
    BY <1>5 DEF LaunchRedeploy, LaunchBuild, SwitchRelease
  <2>3. mutation' = [mutation EXCEPT ![c] = r]
    BY <1>5, <2>1 DEF LaunchRedeploy, LaunchBuild, SwitchRelease, Launched
  <2> QED BY <1>0, <2>1, <2>2, <2>3
<1>6. CASE WorkerStep
  <2>1. ASSUME NEW r \in WorkerRun, PinRelease(r)
        PROVE  UNCHANGED <<input, attempts, result, mutation>>
    BY <2>1 DEF PinRelease, opVars
  <2>2. ASSUME NEW p \in Op, RecoverOne(p) \/ AskLog(p) \/ Reconcile \/ ReconcileFails
        PROVE  UNCHANGED <<input, attempts, result, mutation>>
    BY <2>2 DEF RecoverOne, AskLog, Reconcile, ReconcileFails, opVars
  <2>3. CASE \/ Boot \/ RecoverDone \/ StartTick \/ FindPending \/ Authorize
             \/ Refuse \/ RefuseRelease \/ PinFailed \/ HandlerThrows \/ DropClaim
    BY <2>3 DEF Boot, RecoverDone, StartTick, FindPending, Authorize, Refuse, RefuseRelease,
                PinFailed, HandlerThrows, DropClaim, opVars
  <2> QED BY <1>3, <1>4, <1>5, <1>6, <2>1, <2>2, <2>3 DEF WorkerStep
<1>7. ASSUME NEW c \in Client, NEW call \in Call, Ask(c, call)
      PROVE  UNCHANGED <<input, attempts, result, mutation>>
  BY <1>7 DEF Ask, opVars
<1>8. CASE AdminStep
  BY <1>8 DEF AdminStep, Revoke, Consent, opVars
<1>9. CASE HostStep \/ OperatorStep \/ Crash \/ Reboot \/ \E p \in Reader : ReadersStep(p)
  BY <1>9 DEF HostStep, OperatorStep, Crash, Reboot, ReadersStep, opVars
<1>10. ASSUME NEW p \in Op, LeaseExpires(p)
       PROVE  UNCHANGED <<input, attempts, result, mutation>>
  BY <1>10 DEF LeaseExpires
<1> QED BY <1>1, <1>2, <1>6, <1>7, <1>8, <1>9, <1>10 DEF Next, ClientStep

\* What a step may do to an operation.  It is claimed from the queue only and
\* never returns there; its mutation is sent once, while it runs; its call is
\* never rewritten; and once it has settled nothing of it changes.
OperationGoesForward(o) ==
  /\ status[o] \in Settled =>
       /\ status'[o] = status[o]
       /\ UNCHANGED <<launches[o], attempts[o], input[o], result[o], mutation[o]>>
  /\ status[o] # "absent" => input'[o] = input[o] /\ status'[o] # "absent"
  /\ status'[o] = "pending" => status[o] \in {"absent", "pending"}
  /\ attempts'[o] # attempts[o] => status[o] = "pending" /\ status'[o] = "running"
  /\ launches'[o] # launches[o] => status[o] = "running" /\ launches[o] = 0
OperationsGoForward == \A o \in Op : OperationGoesForward(o)

\* Nothing that clients, administrators, the worker, crashes and recoveries do
\* takes an operation back, sends its mutation a second time, or changes what a
\* settled one says.
THEOREM OperationsAdvance == Spec => [][OperationsGoForward]_vars
<1>1. IInv /\ [Next]_vars => OperationsGoForward
  <2> SUFFICES ASSUME IInv, [Next]_vars, NEW o \in Op PROVE OperationGoesForward(o)
    BY DEF OperationsGoForward
  <2>0. status \in [Op -> Status] /\ launches \in [Op -> Nat]
    BY DEF IInv, TypeOK
  <2>1. CASE UNCHANGED <<status, launches>>
    BY <2>1, OtherColumns DEF OperationGoesForward, Settled
  <2>2. CASE Lifecycle!LifecycleNext
    <3>1. /\ status[o] \in Settled => status'[o] = status[o] /\ launches'[o] = launches[o]
          /\ status[o] # "absent" => status'[o] # "absent"
          /\ status'[o] = "pending" => status[o] \in {"absent", "pending"}
          /\ launches'[o] # launches[o] => status[o] = "running" /\ launches[o] = 0
      <4>1. ASSUME NEW p \in Op, NEW from, NEW to, Lifecycle!Become(p, from, to)
            PROVE  status'[o] = status[o] \/ (status[o] \in from /\ status'[o] = to)
        BY <2>0, <4>1 DEF Lifecycle!Become
      <4>2. ASSUME NEW p \in Op, Lifecycle!Mutate(p)
            PROVE  /\ status'[o] = status[o]
                   /\ launches'[o] # launches[o] => status[o] = "running" /\ launches[o] = 0
        BY <2>0, <4>2 DEF Lifecycle!Mutate
      <4>3. ASSUME NEW S \in SUBSET Op, Lifecycle!Cancel(S)
            PROVE  /\ UNCHANGED launches
                   /\ \/ status'[o] = status[o]
                      \/ status[o] = "pending" /\ status'[o] = "cancelled"
        BY <2>0, <4>3 DEF Lifecycle!Cancel
      <4>4. ASSUME NEW p \in Op, Lifecycle!Queue(p) \/ Lifecycle!Start(p) \/ Lifecycle!Detach(p)
            PROVE  /\ UNCHANGED launches
                   /\ \/ status'[o] = status[o]
                      \/ status[o] = "absent" /\ status'[o] = "pending"
                      \/ status[o] = "pending" /\ status'[o] = "running"
                      \/ status[o] = "running" /\ status'[o] = "verifying"
        BY <4>1, <4>4 DEF Lifecycle!Queue, Lifecycle!Start, Lifecycle!Detach
      <4>5. ASSUME NEW p \in Op, NEW v \in Lifecycle!Settled, Lifecycle!Settle(p, v)
            PROVE  /\ UNCHANGED launches
                   /\ \/ status'[o] = status[o]
                      \/ /\ status[o] \in {"running", "verifying"}
                         /\ status'[o] \in {"success", "failed", "uncertain"}
        BY <4>1, <4>5 DEF Lifecycle!Settle
      <4> QED BY <2>2, <4>2, <4>3, <4>4, <4>5 DEF Lifecycle!LifecycleNext, Settled
    <3> QED BY <3>1, OtherColumns DEF OperationGoesForward, Settled
  <2> QED BY <2>1, <2>2, LifecycleStep DEF Lifecycle!lifecycleVars
<1> QED BY <1>1, Invariance, PTL DEF Spec

-----------------------------------------------------------------------------
(* The evidence behind a success.  SuccessHasEvidence is not inductive: a  *)
(* row says what a marker or an answer said, so those must be true first.  *)

MarkersAreTrue == \A s \in Slug : log[s].marker = "success" => Verified(s)
ReleaseRowsAreTrue ==
  \A i \in DOMAIN rows : rows[i].status = "success" => Verified(rows[i].slug)
ReadersAreTrue ==
  \A p \in Reader : reader[p].verdict = "success" => Verified(reader[p].slug)

\* All that the host and the requests keep to.
HostInv ==
  /\ RunsInShape
  /\ MarkersAreTrue
  /\ ReleaseRowsAreTrue
  /\ ReadersAreTrue
  /\ OverridesInOrder

\* What an operation that was launched knows of the run it launched.
OpEvidence(o) ==
  launches[o] > 0 =>
    /\ mutation[o] \in Run
    /\ IF input[o].kind = "build"
       THEN /\ run[mutation[o]].kind \in {"build", "sandbox"}
            /\ status[o] # "verifying"
            /\ status[o] = "success" => run[mutation[o]].answer = "ok"
       ELSE /\ run[mutation[o]].kind = "redeploy"
            /\ run[mutation[o]].slug = SlugOf[input[o].dep]
            /\ status[o] = "success" => Verified(SlugOf[input[o].dep])

CallIsMutation == worker.pc = "calling" => mutation[worker.op] = worker.run

\* The worker waits for the log of the project of its operation.
WorkerObserves ==
  worker.pc = "observing" => reader[Own].slug = SlugOf[input[worker.op].dep]

EInv ==
  /\ IInv
  /\ HostInv
  /\ \A o \in Op : OpEvidence(o)
  /\ CallIsMutation
  /\ WorkerObserves

-----------------------------------------------------------------------------
\* A verified recreation stays one.
LEMMA VerifiedStays ==
  ASSUME ComposeTypeOK, RunsAdvance, NEW s, Verified(s)
  PROVE  Verified(s)'
<1>1. PICK r \in Run : run[r].slug = s /\ run[r].verdict = "success"
  BY DEF Verified
<1>2. run[r].stage # "unused"
  <2>1. run[r] # Unused
    BY <1>1 DEF Unused
  <2>2. run[r] \in RunRecord
    BY <2>1, UsedRun
  <2> QED BY <2>2 DEF RunRecord
<1>3. Advances(run[r], run'[r])
  BY <1>2 DEF RunsAdvance
<1>4. run'[r].slug = s /\ run'[r].verdict = "success"
  BY <1>1, <1>3 DEF Advances
<1> QED BY <1>4 DEF Verified

\* A marker, or the status of a release row, that is new has its evidence.
LEMMA MarkersStayTrue ==
  ASSUME ComposeTypeOK, RunsAdvance, MarkersAreTrue,
         \A s \in Slug : log'[s].marker = "success" =>
           log[s].marker = "success" \/ Verified(s)'
  PROVE  MarkersAreTrue'
<1> SUFFICES ASSUME NEW s \in Slug, log'[s].marker = "success"
             PROVE  Verified(s)'
  BY DEF MarkersAreTrue
<1>1. CASE log[s].marker = "success"
  BY <1>1, VerifiedStays DEF MarkersAreTrue
<1> QED BY <1>1

LEMMA RowsStayTrue ==
  ASSUME ComposeTypeOK, RunsAdvance, ReleaseRowsAreTrue, UNCHANGED rows
  PROVE  ReleaseRowsAreTrue'
<1> SUFFICES ASSUME NEW i \in DOMAIN rows', rows'[i].status = "success"
             PROVE  Verified(rows[i].slug)'
  BY DEF ReleaseRowsAreTrue
<1>1. PICK t : t = rows[i].slug
  OBVIOUS
<1>2. Verified(t)'
  BY <1>1, VerifiedStays DEF ReleaseRowsAreTrue
<1> QED BY <1>1, <1>2 DEF Verified

\* A log request that only moves to another place still says the truth.
LEMMA ReadersStayTrue ==
  ASSUME ComposeTypeOK, RunsAdvance, ReadersAreTrue,
         \A p \in Reader : reader'[p] = Idle \/ \E q \in Reader : reader'[p] = reader[q]
  PROVE  ReadersAreTrue'
<1> SUFFICES ASSUME NEW p \in Reader, reader'[p].verdict = "success"
             PROVE  Verified(reader[p].slug)'
  BY DEF ReadersAreTrue
<1>1. PICK q \in Reader : reader'[p] = reader[q]
  BY DEF Idle
<1>2. PICK t : t = reader[q].slug
  OBVIOUS
<1>3. Verified(t)'
  BY <1>1, <1>2, VerifiedStays DEF ReadersAreTrue
<1> QED BY <1>1, <1>2, <1>3 DEF Verified

\* What the steps of a log request do: it keeps to its project and its verdict,
\* which is all it writes.
LEMMA ReadStepFacts ==
  ASSUME ComposeTypeOK, NEW p \in Reader, ReadStep(p)
  PROVE  /\ UNCHANGED <<hostVars, faults>>
         /\ \A q \in Reader : q # p => reader'[q] = reader[q]
         /\ \/ reader'[p] = Idle /\ p # Own
            \/ reader'[p].slug = reader[p].slug /\ reader'[p].verdict = reader[p].verdict
         /\ DOMAIN rows' = DOMAIN rows
         /\ \A i \in DOMAIN rows :
              /\ rows'[i].slug = rows[i].slug
              /\ \/ rows'[i].status = rows[i].status
                 \/ rows'[i].status = reader[p].verdict /\ rows[i].slug = reader[p].slug
<1>1. /\ rows \in [1..Len(rows) -> RowRecord] /\ DOMAIN rows = 1..Len(rows)
      /\ reader[p] \in ReaderRecord /\ reader \in [Reader -> ReaderRecord] /\ RowHeld(p)
  BY LenProperties, ElementOfSeq DEF ComposeTypeOK
<1>2. UNCHANGED <<hostVars, faults>>
  BY DEF ReadStep, RowFound, RowSettled
<1>3. reader[p].pc \in {"observed", "found"}
  BY DEF ReadStep, RowFound, RowSettled
<1>4. reader[p] \in [pc : {"observed", "found"}, slug : Slug, verdict : Outcome, row : Nat]
  BY <1>1, <1>3 DEF ReaderRecord, Idle
<1>5. ASSUME reader' = Reported(p, reader[p].slug, reader[p].verdict)
      PROVE  /\ \A q \in Reader : q # p => reader'[q] = reader[q]
             /\ \/ reader'[p] = Idle /\ p # Own
                \/ reader'[p].slug = reader[p].slug /\ reader'[p].verdict = reader[p].verdict
  <2>1. CASE p = Own
    <3>1. reader' = [reader EXCEPT ![p] = [pc |-> "answered", slug |-> reader[p].slug,
                                           verdict |-> reader[p].verdict, row |-> 0]]
      BY <1>5, <2>1 DEF Reported
    <3> QED BY <3>1, <1>1
  <2>2. CASE p # Own
    <3>1. reader' = [reader EXCEPT ![p] = Idle]
      BY <1>5, <2>2 DEF Reported
    <3> QED BY <3>1, <2>2, <1>1
  <2> QED BY <2>1, <2>2
<1>6. CASE RowFound(p)
  <2>1. UNCHANGED rows
    BY <1>6 DEF RowFound
  <2>2. CASE reader' = Reported(p, reader[p].slug, reader[p].verdict)
    BY <1>2, <1>5, <2>1, <2>2
  <2>3. CASE reader' # Reported(p, reader[p].slug, reader[p].verdict)
    <3>1. PICK i : reader' = [reader EXCEPT ![p].pc = "found", ![p].row = i]
      BY <1>6, <2>3 DEF RowFound
    <3>2. /\ reader'[p].slug = reader[p].slug /\ reader'[p].verdict = reader[p].verdict
          /\ \A q \in Reader : q # p => reader'[q] = reader[q]
      BY <3>1, <1>1, <1>4
    <3> QED BY <1>2, <2>1, <3>2
  <2> QED BY <2>2, <2>3
<1>7. CASE RowSettled(p)
  <2>1. /\ rows' = [rows EXCEPT ![reader[p].row].status = reader[p].verdict]
        /\ reader' = Reported(p, reader[p].slug, reader[p].verdict)
        /\ reader[p].pc = "found"
    BY <1>7 DEF RowSettled
  <2>2. reader[p].row \in DOMAIN rows /\ rows[reader[p].row].slug = reader[p].slug
    BY <2>1, <1>1 DEF RowHeld
  <2>3. DOMAIN rows' = DOMAIN rows
    BY <2>1, <1>1
  <2>4. ASSUME NEW i \in DOMAIN rows
        PROVE  /\ rows'[i].slug = rows[i].slug
               /\ \/ rows'[i].status = rows[i].status
                  \/ rows'[i].status = reader[p].verdict /\ rows[i].slug = reader[p].slug
    BY <2>1, <2>2, <1>1, <2>4 DEF RowRecord
  <2> QED BY <1>2, <1>5, <2>1, <2>3, <2>4
<1> QED BY <1>6, <1>7 DEF ReadStep

\* A request that begins with the log reports what its last marker says.
LEMMA LogReadFacts ==
  ASSUME ComposeTypeOK, NEW p \in Reader, NEW s \in Slug, LogRead(p, s)
  PROVE  /\ UNCHANGED <<hostVars, rows, faults>>
         /\ \A q \in Reader : q # p => reader'[q] = reader[q]
         /\ \/ reader'[p] = Idle /\ p # Own
            \/ /\ reader'[p].slug = s
               /\ reader'[p].verdict = "success" => log[s].marker = "success"
<1>1. reader \in [Reader -> ReaderRecord] /\ UNCHANGED <<hostVars, rows, faults>>
  BY DEF ComposeTypeOK, LogRead
<1>2. CASE Reading(s) = "running" /\ p # Own
  <2>1. reader' = [reader EXCEPT ![p] = Idle]
    BY <1>2 DEF LogRead, Reported
  <2> QED BY <1>1, <1>2, <2>1
<1>3. CASE Reading(s) = "running" /\ p = Own
  <2>1. reader' = [reader EXCEPT ![p] = [pc |-> "answered", slug |-> s,
                                         verdict |-> "running", row |-> 0]]
    BY <1>3 DEF LogRead, Reported
  <2> QED BY <1>1, <2>1
<1>4. CASE Reading(s) # "running"
  <2>1. PICK v : v = Reading(s)
    OBVIOUS
  <2>2. reader' = [reader EXCEPT ![p] = [pc |-> "observed", slug |-> s, verdict |-> v, row |-> 0]]
    BY <1>4, <2>1 DEF LogRead
  <2>3. v = "success" => log[s].marker = "success"
    BY <2>1 DEF Reading
  <2> QED BY <1>1, <2>2, <2>3
<1> QED BY <1>2, <1>3, <1>4

\* The log endpoint, whoever asks and however late it updates its row, writes
\* and reports only what a marker said that was true when it was read.
LEMMA ReadingEvidence ==
  ASSUME ComposeTypeOK, HostInv, NEW p \in Reader,
         ReadStep(p) \/ \E s \in Slug : LogRead(p, s)
  PROVE  HostInv' /\ RunsAdvance
<1>1. UNCHANGED hostVars
  BY ReadStepFacts, LogReadFacts
<1>2. RunsInShape' /\ RunsAdvance
  BY <1>1, StandingRunsAdvance DEF HostInv, hostVars
<1>3. \A t : Verified(t) => Verified(t)'
  BY <1>2, VerifiedStays
<1>4. MarkersAreTrue'
  BY <1>1, <1>2, MarkersStayTrue DEF HostInv, hostVars
<1>5. OverridesInOrder'
  BY EnvironmentKeepsOrder DEF HostInv
<1>6. ReadersAreTrue'
  <2> SUFFICES ASSUME NEW q \in Reader, reader'[q].verdict = "success"
               PROVE  Verified(reader[q].slug)'
    BY DEF ReadersAreTrue
  <2>1. Verified(reader'[q].slug)
    <3>1. CASE ReadStep(p)
      <4>1. \/ reader'[q] = reader[q] \/ reader'[q] = Idle
            \/ reader'[q].slug = reader[q].slug /\ reader'[q].verdict = reader[q].verdict
        BY <3>1, ReadStepFacts
      <4>2. Idle.verdict # "success"
        BY DEF Idle
      <4> QED BY <4>1, <4>2 DEF HostInv, ReadersAreTrue
    <3>2. CASE \E s \in Slug : LogRead(p, s)
      <4>1. PICK s \in Slug : LogRead(p, s)
        BY <3>2
      <4>2. \/ reader'[q] = reader[q] \/ reader'[q] = Idle
            \/ reader'[q].slug = s /\ log[s].marker = "success"
        BY <4>1, LogReadFacts
      <4>3. Idle.verdict # "success"
        BY DEF Idle
      <4> QED BY <4>2, <4>3 DEF HostInv, ReadersAreTrue, MarkersAreTrue
    <3> QED BY <3>1, <3>2
  <2>2. PICK t : t = reader'[q].slug
    OBVIOUS
  <2>3. Verified(t)'
    BY <2>1, <2>2, <1>3
  <2> QED BY <2>2, <2>3 DEF Verified
<1>7. ReleaseRowsAreTrue'
  <2>1. CASE UNCHANGED rows
    BY <2>1, <1>2, RowsStayTrue DEF HostInv
  <2>2. CASE ReadStep(p)
    <3> SUFFICES ASSUME NEW i \in DOMAIN rows', rows'[i].status = "success"
                 PROVE  Verified(rows[i].slug)'
      BY DEF ReleaseRowsAreTrue
    <3>1. /\ i \in DOMAIN rows /\ rows'[i].slug = rows[i].slug
          /\ \/ rows'[i].status = rows[i].status
             \/ rows'[i].status = reader[p].verdict /\ rows[i].slug = reader[p].slug
      BY <2>2, ReadStepFacts
    <3>2. Verified(rows[i].slug)
      BY <3>1 DEF HostInv, ReleaseRowsAreTrue, ReadersAreTrue
    <3>3. PICK t : t = rows[i].slug
      OBVIOUS
    <3>4. Verified(t)'
      BY <3>2, <3>3, <1>3
    <3> QED BY <3>1, <3>3, <3>4 DEF Verified
  <2> QED BY <2>1, <2>2, LogReadFacts
<1> QED BY <1>2, <1>4, <1>5, <1>6, <1>7 DEF HostInv

\* Every step of a request.
LEMMA RunStepEvidence ==
  ASSUME ComposeTypeOK, HostInv, NEW r \in Run, RunStep(r)
  PROVE  HostInv' /\ RunsAdvance
<1>1. RunsInShape' /\ RunsAdvance
  BY RunStepAdvances DEF HostInv
<1>2. run[r].stage # "unused"
  BY DEF RunStep, Resolve, StartRecreate, FailRun, RemoteEnded, Record, SandboxEnds,
         OverrideWritten, BuildEnds, EditEnds
<1>3. run[r] \in RunRecord /\ run[r].slug \in Slug /\ log \in [Slug -> LogRecord]
  BY <1>2, StageUsed DEF ComposeTypeOK
<1>4. \A t \in Slug : Touched(run[r].slug)[t].marker = log[t].marker
  BY <1>3 DEF Touched
<1>5. \A t \in Slug, v \in Verdict :
         Marked(run[r].slug, v)[t].marker = IF t = run[r].slug THEN v ELSE log[t].marker
  BY <1>3 DEF Marked
<1>6. run[r].verdict = "success" => Verified(run[r].slug)
  BY DEF Verified
<1>7. PICK s \in Slug : s = run[r].slug
  BY <1>3
<1>8. run[r].verdict = "success" => Verified(s)'
  BY <1>1, <1>6, <1>7, VerifiedStays
<1>9. MarkersAreTrue'
  <2>1. ASSUME NEW t \in Slug, log'[t].marker = "success"
        PROVE  log[t].marker = "success" \/ Verified(t)'
    <3>1. CASE RemoteEnded(r)
      <4>1. log' = Marked(run[r].slug, run[r].verdict) /\ run[r].verdict \in Verdict
        BY <3>1, <1>3 DEF RemoteEnded, RunRecord
      <4> QED BY <4>1, <2>1, <1>5, <1>7, <1>8
    <3>2. CASE FailRun(r)
      <4>1. log' \in {log, Touched(run[r].slug), Marked(run[r].slug, "failed")}
        BY <3>2 DEF FailRun, FailureEvidence
      <4> QED BY <4>1, <2>1, <1>4, <1>5 DEF Verdict
    <3>3. CASE Resolve(r) \/ StartRecreate(r)
      <4>1. log' = Touched(run[r].slug)
        BY <3>3 DEF Resolve, StartRecreate
      <4> QED BY <4>1, <2>1, <1>4
    <3>4. CASE Record(r) \/ SandboxEnds(r) \/ OverrideWritten(r) \/ BuildEnds(r) \/ EditEnds(r)
      BY <3>4, <2>1 DEF Record, SandboxEnds, OverrideWritten, BuildEnds, EditEnds
    <3> QED BY <3>1, <3>2, <3>3, <3>4 DEF RunStep
  <2> QED BY <2>1, <1>1, MarkersStayTrue DEF HostInv
<1>10. ReleaseRowsAreTrue'
  <2>1. CASE UNCHANGED rows
    BY <2>1, <1>1, RowsStayTrue DEF HostInv
  <2>2. CASE rows' # rows
    <3>1. PICK row \in RowRecord :
            /\ rows' = Append(rows, row) /\ row.slug = s
            /\ row.status = "success" => run[r].verdict = "success"
      <4>1. Record(r)
        BY <2>2 DEF RunStep, Resolve, StartRecreate, FailRun, RemoteEnded, SandboxEnds,
                      OverrideWritten, BuildEnds, EditEnds
      <4> DEFINE row == [run |-> r, slug |-> run[r].slug,
                         status |-> IF LocalVps THEN "running"
                                    ELSE IF run[r].verdict = "success" THEN "success" ELSE "failed"]
      <4>2. rows' = Append(rows, row)
        BY <4>1, <2>2 DEF Record
      <4>3. row \in RowRecord /\ row.slug = s
            /\ (row.status = "success" => run[r].verdict = "success")
        BY <1>3, <1>7 DEF RowRecord
      <4> QED BY <4>2, <4>3
    <3>2. rows \in Seq(RowRecord)
      BY DEF ComposeTypeOK
    <3>3. /\ DOMAIN rows' = DOMAIN rows \cup {Len(rows) + 1}
          /\ \A i \in DOMAIN rows : rows'[i] = rows[i]
          /\ rows'[Len(rows) + 1] = row
      BY <3>1, <3>2, AppendProperties
    <3> SUFFICES ASSUME NEW i \in DOMAIN rows', rows'[i].status = "success"
                 PROVE  Verified(rows[i].slug)'
      BY DEF ReleaseRowsAreTrue
    <3>4. CASE i \in DOMAIN rows
      <4>1. PICK t : t = rows[i].slug
        OBVIOUS
      <4>2. Verified(t)
        BY <3>3, <3>4, <4>1 DEF HostInv, ReleaseRowsAreTrue
      <4>3. Verified(t)'
        BY <4>2, <1>1, VerifiedStays
      <4> QED BY <3>3, <3>4, <4>1, <4>3 DEF Verified
    <3>5. CASE i = Len(rows) + 1
      <4>1. rows'[i] = row
        BY <3>3, <3>5
      <4>2. Verified(s)'
        BY <3>1, <4>1, <1>8
      <4> QED BY <3>1, <4>1, <4>2 DEF Verified
    <3> QED BY <3>3, <3>4, <3>5
  <2> QED BY <2>1, <2>2
<1>11. ReadersAreTrue'
  <2>1. UNCHANGED reader
    BY DEF RunStep, Resolve, StartRecreate, FailRun, RemoteEnded, Record, SandboxEnds,
           OverrideWritten, BuildEnds, EditEnds
  <2> QED BY <2>1, <1>1, ReadersStayTrue DEF HostInv
<1>12. OverridesInOrder'
  BY StepKeepsOrder DEF HostInv
<1> QED BY <1>1, <1>9, <1>10, <1>11, <1>12 DEF HostInv

\* Every step of a host process.
LEMMA ProcessStepEvidence ==
  ASSUME ComposeTypeOK, HostInv, NEW r \in Run, ProcessStep(r)
  PROVE  HostInv' /\ RunsAdvance
<1>1. RunsInShape' /\ RunsAdvance
  BY ProcessStepAdvances DEF HostInv
<1>2. run[r].process # "none"
  BY DEF ProcessStep, Recreate, RecreateFails, Verify
<1>3. run[r] \in RunRecord /\ run[r].slug \in Slug /\ log \in [Slug -> LogRecord]
  BY <1>2, StageUsed DEF ComposeTypeOK
<1>4. UNCHANGED <<rows, reader>>
  BY DEF ProcessStep, Recreate, RecreateFails, Verify, EndProcess
<1>5. ASSUME NEW t \in Slug, log'[t].marker = "success"
      PROVE  log[t].marker = "success" \/ Verified(t)'
  <2>1. CASE Recreate(r)
    <3>1. log' = log \/ log' = Touched(run[r].slug)
      BY <2>1 DEF Recreate
    <3> QED BY <3>1, <1>3, <1>5 DEF Touched
  <2>2. ASSUME NEW v \in {"success", "failed"}, EndProcess(r, v)
        PROVE  log[t].marker = "success" \/ Verified(t)'
    <3>1. log' = log \/ log' = Marked(run[r].slug, v)
      BY <2>2 DEF EndProcess
    <3>2. run'[r].verdict = v /\ run'[r].slug = run[r].slug
      <4>1. run' = [run EXCEPT ![r] = [run[r] EXCEPT !.process = "ended", !.verdict = v]]
        BY <2>2 DEF EndProcess
      <4> QED BY <4>1, <1>3 DEF RunRecord, ComposeTypeOK
    <3>3. v = "success" => \A u : u = run[r].slug => Verified(u)'
      BY <3>2 DEF Verified
    <3> QED BY <3>1, <3>3, <1>3, <1>5 DEF Marked
  <2> QED BY <2>1, <2>2 DEF ProcessStep, RecreateFails, Verify
<1>6. MarkersAreTrue'
  BY <1>1, <1>5, MarkersStayTrue DEF HostInv
<1>7. ReleaseRowsAreTrue' /\ ReadersAreTrue'
  BY <1>1, <1>4, RowsStayTrue, ReadersStayTrue DEF HostInv
<1>8. OverridesInOrder'
  BY StepKeepsOrder DEF HostInv
<1> QED BY <1>1, <1>6, <1>7, <1>8 DEF HostInv

\* Time and crashes.
LEMMA EnvironmentEvidence ==
  ASSUME ComposeTypeOK, HostInv,
         \/ \E s \in Slug : Stall(s) \/ ComposeUp(s)
         \/ ServerCrash
         \/ HostReboot
  PROVE  HostInv' /\ RunsAdvance
<1>1. RunsInShape' /\ RunsAdvance
  BY EnvironmentAdvances DEF HostInv
<1>2. MarkersAreTrue'
  <2>1. \A t \in Slug : log'[t].marker = "success" => log[t].marker = "success"
    <3>1. CASE \E s \in Slug : ComposeUp(s)
      BY <3>1 DEF ComposeUp
    <3>2. CASE \E s \in Slug : Stall(s)
      BY <3>2 DEF Stall, ComposeTypeOK, LogRecord
    <3>3. CASE ServerCrash
      BY <3>3 DEF ServerCrash
    <3>4. CASE HostReboot
      BY <3>4 DEF HostReboot
    <3> QED BY <3>1, <3>2, <3>3, <3>4
  <2> QED BY <1>1, <2>1, MarkersStayTrue DEF HostInv
<1>3. ReleaseRowsAreTrue'
  <2>1. UNCHANGED rows
    BY DEF Stall, ComposeUp, ServerCrash, HostReboot
  <2> QED BY <1>1, <2>1, RowsStayTrue DEF HostInv
<1>4. ReadersAreTrue'
  <2>1. UNCHANGED reader \/ reader' = [p \in Reader |-> Idle]
    BY DEF Stall, ComposeUp, ServerCrash, HostReboot
  <2> QED BY <1>1, <2>1, ReadersStayTrue DEF HostInv
<1>5. OverridesInOrder'
  BY EnvironmentKeepsOrder DEF HostInv
<1> QED BY <1>1, <1>2, <1>3, <1>4, <1>5 DEF HostInv

\* A request that arrives brings no verdict.
LEMMA ArrivalEvidence ==
  ASSUME ComposeTypeOK, HostInv,
         NEW r \in Run, NEW s \in Slug, NEW image \in Image, run[r].stage = "unused",
         \/ Accept(r, s)
         \/ AcceptFails(r, s)
         \/ \E kind \in Kind : OverrideRead(r, kind, s, image)
         \/ SandboxStarts(r, s, image)
         \/ BuildRefused(r, s, image)
         \/ Pin(r, s, image)
  PROVE  HostInv' /\ RunsAdvance
<1>1. RunsInShape' /\ RunsAdvance
  BY ArrivalAdvances DEF HostInv
<1>2. /\ UNCHANGED <<rows, reader>>
      /\ log' = log \/ log' = [log EXCEPT ![s] = EmptyLog] \/ log' = Marked(s, "failed")
  <2>1. CASE \E kind \in Kind : OverrideRead(r, kind, s, image)
    BY <2>1, ReadFacts
  <2> QED BY <2>1 DEF Accept, AcceptFails, SandboxStarts, BuildRefused, Pin
<1>4. \A t \in Slug : log'[t].marker = "success" => log[t].marker = "success"
  <2>1. log \in [Slug -> LogRecord]
    BY DEF ComposeTypeOK
  <2>2. CASE log' = [log EXCEPT ![s] = EmptyLog]
    BY <2>1, <2>2 DEF EmptyLog
  <2>3. CASE log' = Marked(s, "failed")
    BY <2>1, <2>3 DEF Marked
  <2> QED BY <1>2, <2>2, <2>3
<1>5. MarkersAreTrue'
  BY <1>1, <1>4, MarkersStayTrue DEF HostInv
<1>6. ReleaseRowsAreTrue' /\ ReadersAreTrue'
  BY <1>1, <1>2, RowsStayTrue, ReadersStayTrue DEF HostInv
<1>7. OverridesInOrder'
  BY ArrivalKeepsOrder DEF HostInv
<1> QED BY <1>1, <1>5, <1>6, <1>7 DEF HostInv

-----------------------------------------------------------------------------
(* What operations know of their runs.                                     *)

\* Whatever the step, an operation it leaves alone, or settles otherwise than
\* with a success, knows as much as before.
LEMMA OpEvidenceStays ==
  ASSUME EInv, RunsAdvance, NEW o \in Op,
         launches'[o] = launches[o],
         launches[o] > 0 => input'[o] = input[o] /\ mutation'[o] = mutation[o],
         status'[o] \in {"success", "verifying"} => status'[o] = status[o]
  PROVE  OpEvidence(o)'
<1> SUFFICES ASSUME launches[o] > 0 PROVE OpEvidence(o)'
  BY DEF OpEvidence
<1>1. OpEvidence(o) /\ ComposeTypeOK
  BY DEF EInv, IInv, TypeOK
<1>2. PICK m \in Run : m = mutation[o]
  BY <1>1 DEF OpEvidence
<1>3. run[m].kind \in {"redeploy", "build", "sandbox"}
  BY <1>1, <1>2 DEF OpEvidence
<1>4. run[m].stage # "unused"
  <2>1. run[m] # Unused
    BY <1>3 DEF Unused
  <2>2. run[m] \in RunRecord
    BY <1>1, <2>1, UsedRun
  <2> QED BY <2>2 DEF RunRecord
<1>5. Advances(run[m], run'[m])
  BY <1>4 DEF RunsAdvance
<1>6. PICK s : s = SlugOf[input[o].dep]
  OBVIOUS
<1>7. Verified(s) => Verified(s)'
  BY <1>1, VerifiedStays
<1>8. /\ launches'[o] > 0 /\ input'[o] = input[o] /\ mutation'[o] = m
      /\ SlugOf[input'[o].dep] = s
  BY <1>2, <1>6
<1>9. CASE input[o].kind = "build"
  BY <1>1, <1>2, <1>5, <1>8, <1>9 DEF OpEvidence, Advances
<1>10. CASE input[o].kind # "build"
  <2>1. /\ run'[m].kind = "redeploy" /\ run'[m].slug = s
        /\ status[o] = "success" => Verified(s)
    BY <1>1, <1>2, <1>5, <1>6, <1>10 DEF OpEvidence, Advances
  <2>2. status'[o] = "success" => Verified(s)'
    BY <2>1, <1>7
  <2> HIDE DEF Verified
  <2>3. Verified(SlugOf[input[o].dep])' = Verified(s)'
    BY <1>8 DEF Verified
  <2> QED BY <1>8, <1>10, <2>1, <2>2, <2>3 DEF OpEvidence
<1> QED BY <1>9, <1>10

LEMMA OpsEvidenceStays ==
  ASSUME EInv, RunsAdvance,
         \A o \in Op : launches'[o] = launches[o],
         \A o \in Op : launches[o] > 0 => input'[o] = input[o] /\ mutation'[o] = mutation[o],
         \A o \in Op : status'[o] \in {"success", "verifying"} => status'[o] = status[o]
  PROVE  \A o \in Op : OpEvidence(o)'
BY OpEvidenceStays

\* Nothing happens on the host, but that the worker takes its answer.
LEMMA HostStands ==
  ASSUME EInv, UNCHANGED <<run, log, rows, override, intended>>,
         \A p \in Reader : reader'[p] = Idle \/ \E q \in Reader : reader'[p] = reader[q]
  PROVE  HostInv' /\ RunsAdvance
<1>0. HostInv /\ ComposeTypeOK
  BY DEF EInv, IInv, TypeOK
<1>1. RunsInShape' /\ RunsAdvance
  BY <1>0, StandingRunsAdvance DEF HostInv
<1>2. MarkersAreTrue'
  BY <1>0 DEF HostInv, MarkersAreTrue, Verified
<1>3. ReleaseRowsAreTrue'
  BY <1>0 DEF HostInv, ReleaseRowsAreTrue, Verified
<1>4. ReadersAreTrue'
  BY <1>0, <1>1, ReadersStayTrue DEF HostInv
<1>5. OverridesInOrder'
  BY <1>0, OrderStands DEF HostInv, HoldsAlike
<1> QED BY <1>1, <1>2, <1>3, <1>4, <1>5 DEF HostInv

-----------------------------------------------------------------------------
\* Steps that neither launch, finish nor reconcile, and leave the host alone.
LEMMA QuietEvidence ==
  ASSUME EInv, IInv',
         \/ ClientStep
         \/ AdminStep
         \/ Boot \/ RecoverDone \/ StartTick \/ FindPending \/ Claim \/ Authorize
         \/ Refuse \/ RefuseRelease \/ PinFailed \/ HandlerThrows \/ DropClaim
         \/ \E o \in Op : RecoverOne(o) \/ LeaseExpires(o)
         \/ UNCHANGED vars
  PROVE  EInv'
<1>0. IInv /\ TypeOK
  BY DEF EInv, IInv
<1>1. UNCHANGED <<hostVars, rows, reader, launches, mutation>>
  <2> USE DEF composeVars, hostVars, opVars
  <2>1. CASE ClientStep \/ AdminStep \/ UNCHANGED vars
    BY <2>1 DEF ClientStep, AdminStep, Ask, Create, Revoke, Consent, vars
  <2>2. CASE Boot \/ RecoverDone \/ StartTick \/ FindPending \/ Claim \/ Authorize \/ DropClaim
    BY <2>2 DEF Boot, RecoverDone, StartTick, FindPending, Claim, Authorize, DropClaim, KeepHost
  <2>3. CASE Refuse \/ RefuseRelease \/ PinFailed \/ HandlerThrows
    BY <2>3 DEF Refuse, RefuseRelease, PinFailed, HandlerThrows, KeepHost
  <2>4. CASE \E o \in Op : RecoverOne(o) \/ LeaseExpires(o)
    BY <2>4 DEF RecoverOne, LeaseExpires
  <2> QED BY <2>1, <2>2, <2>3, <2>4
<1>2. HostInv' /\ RunsAdvance
  BY <1>1, HostStands DEF hostVars
<1>3. \A o \in Op : /\ status'[o] \in {"success", "verifying"} => status'[o] = status[o]
                    /\ launches[o] > 0 => input'[o] = input[o]
  <2>0. /\ \A o \in Op : status[o] = "absent" => launches[o] = 0
        /\ status \in [Op -> Status] /\ input \in [Op -> AgentCall \cup {None}]
    BY <1>0 DEF IInv, Consistent, RowsConsistent, TypeOK
  <2>1. CASE ClientStep
    <3>1. CASE \E c \in Client : Create(c)
      BY <3>1, <2>0 DEF Create
    <3> QED BY <2>1, <3>1 DEF ClientStep, Ask, opVars
  <2>2. CASE AdminStep
    <3>1. CASE \E g \in Grant : Revoke(g)
      BY <3>1, <2>0 DEF Revoke
    <3> QED BY <2>2, <3>1 DEF AdminStep, Consent, opVars
  <2>3. CASE Boot \/ RecoverDone \/ StartTick \/ FindPending \/ Authorize \/ DropClaim
             \/ UNCHANGED vars
    BY <2>3 DEF Boot, RecoverDone, StartTick, FindPending, Authorize, DropClaim, vars, opVars
  <2>4. CASE Claim
    BY <2>4, <2>0 DEF Claim
  <2>5. CASE Refuse \/ RefuseRelease \/ PinFailed \/ HandlerThrows
    <3>1. /\ Write(worker.op, "failed") \/ MarkUncertain(worker.op)
          /\ UNCHANGED input
      BY <2>5 DEF Refuse, RefuseRelease, PinFailed, HandlerThrows
    <3> QED BY <3>1, <2>0 DEF Write, MarkUncertain
  <2>6. CASE \E o \in Op : RecoverOne(o) \/ LeaseExpires(o)
    BY <2>6, <2>0 DEF RecoverOne, LeaseExpires
  <2> QED BY <2>1, <2>2, <2>3, <2>4, <2>5, <2>6
<1>4. \A o \in Op : OpEvidence(o)'
  BY <1>1, <1>2, <1>3, OpsEvidenceStays
<1>5. CallIsMutation'
  <2>1. UNCHANGED worker \/ worker'.pc # "calling"
    <3>0. worker \in WorkerRecord
      BY <1>0 DEF TypeOK
    <3>1. CASE ClientStep \/ AdminStep \/ UNCHANGED vars
      BY <3>1 DEF ClientStep, AdminStep, Ask, Create, Revoke, Consent, vars
    <3>2. CASE Boot \/ RecoverDone \/ StartTick \/ FindPending \/ DropClaim
      BY <3>2 DEF Boot, RecoverDone, StartTick, FindPending, DropClaim, At
    <3>3. CASE Claim \/ Authorize
      BY <3>0, <3>3 DEF Claim, Authorize, At, WorkerRecord
    <3>4. CASE Refuse \/ RefuseRelease \/ PinFailed \/ HandlerThrows
      BY <3>4 DEF Refuse, RefuseRelease, PinFailed, HandlerThrows, Write, MarkUncertain, At
    <3>5. CASE \E o \in Op : RecoverOne(o) \/ LeaseExpires(o)
      BY <3>0, <3>5 DEF RecoverOne, LeaseExpires, WorkerRecord
    <3> QED BY <3>1, <3>2, <3>3, <3>4, <3>5
  <2> QED BY <1>1, <2>1 DEF EInv, CallIsMutation
<1>6. WorkerObserves'
  <2>1. worker'.pc = "observing" => /\ worker' = worker /\ worker.op \in Op
                                    /\ input'[worker.op] = input[worker.op]
    <3>0. worker \in WorkerRecord
      BY <1>0 DEF TypeOK
    <3>1. worker.pc = "observing" =>
             worker.op \in Op /\ launches[worker.op] > 0 /\ status[worker.op] = "verifying"
      BY <1>0 DEF IInv, Consistent, WorkerConsistent, RowsConsistent
    <3>2. CASE ClientStep \/ AdminStep \/ UNCHANGED vars
      <4>1. UNCHANGED worker
        BY <3>2 DEF ClientStep, AdminStep, Ask, Create, Revoke, Consent, vars
      <4> QED BY <4>1, <3>1, <1>3
    <3>3. CASE \E o \in Op : RecoverOne(o) \/ LeaseExpires(o)
      <4>1. UNCHANGED worker
        BY <3>3 DEF RecoverOne, LeaseExpires
      <4> QED BY <4>1, <3>1, <1>3
    <3>4. CASE Boot \/ RecoverDone \/ StartTick \/ FindPending \/ DropClaim
      BY <3>4 DEF Boot, RecoverDone, StartTick, FindPending, DropClaim, At
    <3>5. CASE Claim \/ Authorize
      BY <3>0, <3>5 DEF Claim, Authorize, At, WorkerRecord
    <3>6. CASE Refuse \/ RefuseRelease \/ PinFailed \/ HandlerThrows
      BY <3>6 DEF Refuse, RefuseRelease, PinFailed, HandlerThrows, Write, MarkUncertain, At
    <3> QED BY <3>2, <3>3, <3>4, <3>5, <3>6
  <2> QED BY <1>1, <2>1 DEF EInv, WorkerObserves
<1> QED BY <1>2, <1>4, <1>5, <1>6 DEF EInv

\* Requests, host processes, log requests, operators, stalls, crashes.
LEMMA OutsideEvidence ==
  ASSUME EInv, IInv',
         HostStep \/ OperatorStep \/ Crash \/ Reboot \/ \E p \in Reader : ReadersStep(p)
  PROVE  EInv'
<1>0. ComposeTypeOK /\ HostInv
  BY DEF EInv, IInv, TypeOK
<1>1. HostInv' /\ RunsAdvance
  <2>1. CASE HostStep
    BY <1>0, <2>1, RunStepEvidence, ProcessStepEvidence, EnvironmentEvidence DEF HostStep
  <2>2. CASE OperatorStep
    <3>1. CASE \E s \in Slug, r \in OperatorRun : OperatorRedeploy(r, s)
      <4>1. PICK s \in Slug, r \in OperatorRun : OperatorRedeploy(r, s)
        BY <3>1
      <4>2. r \in Run /\ run[r].stage = "unused" /\ None \in Image
            /\ (Accept(r, s) \/ AcceptFails(r, s))
        BY <4>1 DEF OperatorRedeploy, Fresh, Run, Image
      <4> QED BY <1>0, <4>2, ArrivalEvidence
    <3>2. CASE \E s \in Slug, r \in OperatorRun, image \in Image : OperatorEdit(r, s, image)
      <4>1. PICK s \in Slug, r \in OperatorRun, image \in Image : OperatorEdit(r, s, image)
        BY <3>2
      <4>2. r \in Run /\ run[r].stage = "unused" /\ OverrideRead(r, "edit", s, image)
        BY <4>1 DEF OperatorEdit, Fresh, Run
      <4>3. \E kind \in Kind : OverrideRead(r, kind, s, image)
        BY <4>2 DEF Kind
      <4> QED BY <1>0, <4>2, <4>3, ArrivalEvidence
    <3>3. CASE \E s \in Slug : ComposeUp(s) \/ \E p \in Reader \ {Own} : LogRead(p, s)
      BY <1>0, <3>3, EnvironmentEvidence, ReadingEvidence
    <3> QED BY <2>2, <3>1, <3>2, <3>3 DEF OperatorStep
  <2>3. CASE Crash \/ Reboot
    BY <1>0, <2>3, EnvironmentEvidence DEF Crash, Reboot
  <2>4. CASE \E p \in Reader : ReadersStep(p)
    BY <1>0, <2>4, ReadingEvidence DEF ReadersStep
  <2> QED BY <2>1, <2>2, <2>3, <2>4
<1>2. UNCHANGED opVars /\ (UNCHANGED worker \/ worker' = At("down"))
  BY DEF HostStep, OperatorStep, ReadersStep, Crash, Reboot
<1>3. \A o \in Op : OpEvidence(o)'
  BY <1>1, <1>2, OpsEvidenceStays DEF opVars
<1>4. CallIsMutation'
  BY <1>2 DEF EInv, CallIsMutation, At, opVars
<1>5. WorkerObserves'
  <2>1. worker' = At("down") \/ reader'[Own] = reader[Own] \/ reader'[Own].slug = reader[Own].slug
    <3>1. CASE HostStep
      BY <3>1 DEF HostStep, Stall, RunStep, Resolve, StartRecreate, FailRun, RemoteEnded, Record,
                  SandboxEnds, OverrideWritten, BuildEnds, EditEnds, ProcessStep, Recreate,
                  RecreateFails, Verify, EndProcess
    <3>2. CASE OperatorStep
      <4>1. CASE \E s \in Slug, p \in Reader \ {Own} : LogRead(p, s)
        BY <4>1, <1>0, ComposeAssumption, LogReadFacts
      <4>2. CASE \E s \in Slug, r \in OperatorRun, image \in Image : OperatorEdit(r, s, image)
        BY <4>2 DEF OperatorEdit, OverrideRead
      <4>3. CASE \E s \in Slug : ComposeUp(s) \/ \E r \in OperatorRun : OperatorRedeploy(r, s)
        BY <4>3 DEF ComposeUp, OperatorRedeploy, Accept, AcceptFails
      <4> QED BY <3>2, <4>1, <4>2, <4>3 DEF OperatorStep
    <3>3. CASE \E p \in Reader : ReadersStep(p)
      <4>1. PICK p \in Reader : ReadStep(p)
        BY <3>3 DEF ReadersStep
      <4> QED BY <4>1, <1>0, ComposeAssumption, ReadStepFacts
    <3>4. CASE Crash \/ Reboot
      BY <3>4 DEF Crash, Reboot, HostReboot
    <3> QED BY <3>1, <3>2, <3>3, <3>4
  <2> QED BY <1>2, <2>1 DEF EInv, WorkerObserves, At, opVars
<1> QED BY <1>1, <1>3, <1>4, <1>5 DEF EInv

\* A launch: the run is of the kind and the project the operation asks for.
LEMMA LaunchEvidence ==
  ASSUME EInv, IInv', NEW r \in WorkerRun,
         LaunchRedeploy(r) \/ LaunchBuild(r) \/ SwitchRelease(r)
  PROVE  EInv'
<1>0. TypeOK /\ ComposeTypeOK /\ HostInv
  BY DEF EInv, IInv, TypeOK
<1>1. PICK o \in Op : o = worker.op /\ status[o] = "running" /\ launches[o] = 0
  BY DEF LaunchRedeploy, LaunchBuild, SwitchRelease, EInv, IInv, Consistent,
         WorkerHoldsItsRow, Executing
<1>2. input[o] \in AgentCall /\ SlugOf[input[o].dep] \in Slug /\ input[o].image \in Image
  BY <1>1, InputFields DEF EInv
<1>3. PICK s \in Slug : s = SlugOf[input[o].dep]
  BY <1>2
<1>4. PICK image \in Image : image = input[o].image
  BY <1>2
<1>5. r \in Run /\ run[r].stage = "unused"
  BY DEF LaunchRedeploy, LaunchBuild, SwitchRelease, Fresh, Run
<1>6. IF input[o].kind = "build"
      THEN BuildStarts(r, s, image) \/ SandboxStarts(r, s, image) \/ BuildRefused(r, s, image)
      ELSE Accept(r, s) \/ AcceptFails(r, s)
  <2>1. worker.pc = "pinning" => input[o].kind = "release"
    BY <1>1 DEF EInv, IInv, Consistent, WorkerConsistent
  <2> QED BY <1>1, <1>3, <1>4, <2>1 DEF LaunchRedeploy, LaunchBuild, SwitchRelease
<1>7. HostInv' /\ RunsAdvance
  BY <1>0, <1>5, <1>6, ArrivalEvidence DEF BuildStarts, Kind
<1>8. /\ run'[r].slug = s
      /\ IF input[o].kind = "build" THEN run'[r].kind \in {"build", "sandbox"}
                                    ELSE run'[r].kind = "redeploy"
  BY <1>0, <1>5, <1>6, ArrivalAdvances DEF HostInv, BuildStarts, Kind
<1>9. UNCHANGED <<status, input>> /\ Launched(o, r)
  BY <1>1 DEF LaunchRedeploy, LaunchBuild, SwitchRelease
<1>10. /\ mutation'[o] = r /\ status'[o] = "running"
       /\ worker'.op = o /\ worker'.run = r
       /\ \A p \in Op : p # o => mutation'[p] = mutation[p] /\ launches'[p] = launches[p]
  BY <1>0, <1>1, <1>9 DEF Launched, TypeOK, WorkerRecord
<1>11. OpEvidence(o)'
  BY <1>3, <1>5, <1>8, <1>9, <1>10 DEF OpEvidence
<1>12. \A p \in Op : p # o => OpEvidence(p)'
  BY <1>7, <1>9, <1>10, OpEvidenceStays
<1>13. CallIsMutation'
  BY <1>10 DEF CallIsMutation
<1>14. WorkerObserves'
  <2>1. worker'.pc = "calling"
    BY <1>0, <1>9 DEF Launched, TypeOK, WorkerRecord
  <2> QED BY <2>1 DEF WorkerObserves
<1> QED BY <1>7, <1>11, <1>12, <1>13, <1>14 DEF EInv

\* The pin brings a request, but the operation is not launched yet.
LEMMA PinEvidence ==
  ASSUME EInv, IInv', NEW r \in WorkerRun, PinRelease(r)
  PROVE  EInv'
<1>0. TypeOK /\ ComposeTypeOK /\ HostInv
  BY DEF EInv, IInv, TypeOK
<1>1. worker.op \in Op /\ status[worker.op] = "running"
  BY DEF PinRelease, EInv, IInv, Consistent, WorkerHoldsItsRow, Executing
<1>2. SlugOf[input[worker.op].dep] \in Slug
  BY <1>1, InputFields DEF EInv
<1>3. result[input[worker.op].build].image \in Image
  BY <1>0 DEF PinRelease, Releasable, TypeOK, BuildResult
<1>4. r \in Run /\ run[r].stage = "unused"
  BY DEF PinRelease, Fresh, Run
<1>5. HostInv' /\ RunsAdvance
  BY <1>0, <1>2, <1>3, <1>4, ArrivalEvidence DEF PinRelease
<1>6. UNCHANGED opVars /\ worker'.pc = "pinning"
  BY <1>0 DEF PinRelease, TypeOK, WorkerRecord
<1>7. \A o \in Op : OpEvidence(o)'
  BY <1>5, <1>6, OpsEvidenceStays DEF opVars
<1> QED BY <1>5, <1>6, <1>7 DEF EInv, CallIsMutation, WorkerObserves

\* The answer to a call: "ok" of a redeploy was verified, and a build is never
\* left verifying.
LEMMA FinishEvidence ==
  ASSUME EInv, IInv', Finish
  PROVE  EInv'
<1>0. TypeOK /\ ComposeTypeOK /\ worker.pc = "calling"
  BY DEF EInv, IInv, TypeOK, Finish
<1>1. PICK o \in Op : o = worker.op /\ status[o] = "running" /\ launches[o] = 1
  BY <1>0 DEF EInv, IInv, Consistent, WorkerHoldsItsRow, Executing
<1>2. PICK m \in Run : m = mutation[o] /\ m = worker.run
  BY <1>0, <1>1 DEF EInv, OpEvidence, CallIsMutation
<1>3. OpEvidence(o) /\ RunShape(run[m])
  BY DEF EInv, HostInv, RunsInShape
<1>4. /\ UNCHANGED <<run, log, rows, reader, override, intended, launches, input, mutation>>
      /\ Write(o, StatusFor(run[m].answer))
  BY <1>1, <1>2 DEF Finish, KeepHost, hostVars
<1>5. HostInv' /\ RunsAdvance
  BY <1>4, HostStands
<1>6. worker'.pc \notin {"calling", "observing"}
  BY <1>4 DEF Write, MarkUncertain, At
<1>7. \A p \in Op : p # o => status'[p] = status[p]
  BY <1>0, <1>4 DEF Write, MarkUncertain, TypeOK
<1>8. \A p \in Op : p # o => OpEvidence(p)'
  BY <1>4, <1>5, <1>7, OpEvidenceStays
<1>9. OpEvidence(o)'
  <2>1. \/ status'[o] \notin {"success", "verifying"}
        \/ status'[o] = "success" /\ run[m].answer = "ok"
        \/ status'[o] = "verifying" /\ run[m].answer = "detached"
    BY <1>0, <1>1, <1>4 DEF Write, MarkUncertain, StatusFor, TypeOK
  <2>2. CASE status'[o] \notin {"success", "verifying"}
    BY <1>4, <1>5, <2>2, OpEvidenceStays
  <2>3. CASE input[o].kind = "build"
    BY <1>1, <1>2, <1>3, <1>4, <2>1, <2>3 DEF OpEvidence, RunShape
  <2>4. CASE status'[o] = "success" /\ run[m].answer = "ok" /\ input[o].kind # "build"
    <3>1. run[m].verdict = "success" /\ run[m].slug = SlugOf[input[o].dep]
          /\ run[m].kind = "redeploy"
      BY <1>1, <1>2, <1>3, <2>4 DEF OpEvidence, RunShape
    <3>2. Verified(SlugOf[input[o].dep])'
      BY <1>4, <3>1 DEF Verified
    <3> QED BY <1>2, <1>4, <2>4, <3>1, <3>2 DEF OpEvidence
  <2>5. CASE status'[o] = "verifying" /\ run[m].answer = "detached" /\ input[o].kind # "build"
    BY <1>1, <1>2, <1>3, <1>4, <2>5 DEF OpEvidence
  <2> QED BY <2>1, <2>2, <2>3, <2>4, <2>5
<1> QED BY <1>5, <1>6, <1>8, <1>9 DEF EInv, CallIsMutation, WorkerObserves

\* The worker asks for the log of the project of its operation.
LEMMA AskLogEvidence ==
  ASSUME EInv, IInv', NEW o \in Op, AskLog(o)
  PROVE  EInv'
<1>0. TypeOK /\ ComposeTypeOK /\ HostInv /\ status[o] = "verifying" /\ Own \in Reader
  BY ComposeAssumption DEF EInv, IInv, TypeOK, AskLog
<1>1. PICK s \in Slug : s = SlugOf[input[o].dep]
  BY <1>0, InputFields DEF EInv
<1>2. LogRead(Own, s) /\ UNCHANGED opVars
  BY <1>1 DEF AskLog
<1>3. HostInv' /\ RunsAdvance
  BY <1>0, <1>2, ReadingEvidence
<1>4. worker'.pc = "observing" /\ worker'.op = o
  BY <1>0 DEF AskLog, TypeOK, WorkerRecord
<1>5. \A p \in Op : OpEvidence(p)'
  BY <1>2, <1>3, OpsEvidenceStays DEF opVars
<1>6. reader'[Own].slug = s
  BY <1>0, <1>2, LogReadFacts
<1> QED BY <1>1, <1>2, <1>3, <1>4, <1>5, <1>6 DEF EInv, CallIsMutation, WorkerObserves, opVars

\* Reconciling says of an operation what a marker said, and the marker was true.
LEMMA ReconcileEvidence ==
  ASSUME EInv, IInv', Reconcile \/ ReconcileFails
  PROVE  EInv'
<1>0. TypeOK /\ ComposeTypeOK /\ HostInv /\ IInv
  BY DEF EInv, IInv, TypeOK
<1>1. PICK o \in Op : /\ o = worker.op /\ status[o] = "verifying"
                      /\ worker.pc = "observing" /\ worker' = Dequeued(o)
  BY <1>0, ReconcileCases
<1>2. /\ UNCHANGED <<hostVars, rows, launches, input, mutation>>
      /\ \A p \in Reader : reader'[p] = Idle \/ \E q \in Reader : reader'[p] = reader[q]
  <2>0. Own \in Reader /\ reader \in [Reader -> ReaderRecord]
    BY <1>0, ComposeAssumption DEF ComposeTypeOK
  <2>1. UNCHANGED <<hostVars, rows, launches, input, mutation>>
    BY DEF Reconcile, ReconcileFails
  <2>2. \/ reader' = [reader EXCEPT ![Own] = Idle]
        \/ \E p \in Reader : reader' = [reader EXCEPT ![Own] = Idle, ![p] = reader[Own]]
    BY DEF Reconcile, ReconcileFails
  <2> QED BY <2>0, <2>1, <2>2
<1>3. HostInv' /\ RunsAdvance
  BY <1>2, HostStands DEF hostVars
<1>4. worker'.pc \notin {"calling", "observing"}
  BY <1>1 DEF Dequeued, At
<1>5. \A p \in Op : p # o => status'[p] = status[p]
  BY <1>0, <1>1, ReconcileCases DEF TypeOK
<1>6. \A p \in Op : p # o => OpEvidence(p)'
  BY <1>2, <1>3, <1>5, OpEvidenceStays
<1>7. OpEvidence(o)'
  <2>1. CASE status'[o] \in {"success", "verifying"} => status'[o] = status[o]
    BY <1>2, <1>3, <2>1, OpEvidenceStays
  <2>2. CASE status'[o] = "success" /\ status'[o] # status[o]
    <3>1. Reconcile /\ reader[Own].verdict = "success"
      BY <1>0, <1>1, <2>2 DEF Reconcile, ReconcileFails, TypeOK
    <3>2. Verified(reader[Own].slug) /\ reader[Own].slug = SlugOf[input[o].dep]
      BY <1>0, <1>1, <3>1, ComposeAssumption DEF HostInv, ReadersAreTrue, EInv, WorkerObserves
    <3>3. launches[o] = 1 /\ OpEvidence(o)
      BY <1>0, <1>1 DEF EInv, IInv, Consistent, RowsConsistent
    <3>4. /\ mutation[o] \in Run /\ input[o].kind # "build"
          /\ run[mutation[o]].kind = "redeploy" /\ run[mutation[o]].slug = SlugOf[input[o].dep]
      BY <1>1, <3>3 DEF OpEvidence
    <3>5. Verified(SlugOf[input[o].dep])'
      BY <1>2, <3>2 DEF Verified, hostVars
    <3> QED BY <1>2, <3>4, <3>5 DEF OpEvidence, hostVars
  <2>3. status'[o] # "verifying" \/ status'[o] = status[o]
    BY <1>1
  <2> QED BY <2>1, <2>2, <2>3
<1> QED BY <1>3, <1>4, <1>6, <1>7 DEF EInv, CallIsMutation, WorkerObserves

-----------------------------------------------------------------------------
\* The initial states have all the evidence they need: there is nothing to show.
LEMMA EvidenceInit == Init => EInv
<1> SUFFICES ASSUME Init PROVE EInv
  OBVIOUS
<1>1. IInv
  BY InitInv
<1>2. HostInv
  <2>1. RunShape(Unused) /\ Unused.stage = "unused" /\ Idle.verdict = "none"
    BY DEF Unused, RunShape, Idle
  <2>2. ComposeInit
    BY DEF Init
  <2>3. RunsInShape /\ MarkersAreTrue /\ ReleaseRowsAreTrue /\ ReadersAreTrue
    BY <2>1, <2>2 DEF ComposeInit, RunsInShape, MarkersAreTrue, ReleaseRowsAreTrue, ReadersAreTrue
  <2>4. \A s \in Slug : Holders(s) = {} /\ override[s] = intended[s]
    BY <2>1, <2>2 DEF ComposeInit, Holders
  <2> QED BY <2>3, <2>4 DEF HostInv, OverridesInOrder, HeldInOrder
<1>3. (\A o \in Op : OpEvidence(o)) /\ CallIsMutation /\ WorkerObserves
  BY DEF Init, OpEvidence, CallIsMutation, WorkerObserves, At
<1> QED BY <1>1, <1>2, <1>3 DEF EInv

LEMMA EvidenceInvariance == Spec => []EInv
<1>1. Init => EInv
  BY EvidenceInit
<1>2. ASSUME EInv, IInv', [Next]_vars PROVE EInv'
  <2>1. CASE WorkerStep
    BY <1>2, <2>1, QuietEvidence, LaunchEvidence, PinEvidence, FinishEvidence, AskLogEvidence,
       ReconcileEvidence DEF WorkerStep
  <2> QED BY <1>2, <2>1, QuietEvidence, OutsideEvidence DEF Next
<1>3. EInv /\ [Next]_vars => IInv'
  BY NextInv DEF EInv
<1>4. EInv /\ [Next]_vars => EInv'
  BY <1>2, <1>3
<1> QED BY <1>1, <1>4, PTL DEF Spec

\* However many runs share a log, truncate it, stall or die, and whatever crashes
\* or is lost: no operation and no release row says success of a project none of
\* whose recreations was verified.
THEOREM SuccessIsEvidence == Spec => []SuccessHasEvidence
<1>1. EInv => SuccessHasEvidence
  <2> SUFFICES ASSUME EInv, NEW o \in Op, status[o] = "success", input[o].kind # "build"
               PROVE  Verified(SlugOf[input[o].dep])
    BY DEF EInv, HostInv, ReleaseRowsAreTrue, SuccessHasEvidence
  <2>1. launches[o] = 1
    BY DEF EInv, IInv, Consistent, RowsConsistent
  <2> QED BY <2>1 DEF EInv, OpEvidence
<1> QED BY <1>1, EvidenceInvariance, PTL

\* An operation whose project log no other redeploy shared says success only of
\* its own mutation: the run it launched was verified, or its build answered.
THEOREM SuccessOfItsOwn == Spec => []AloneSuccessIsOwn
<1>1. EInv => AloneSuccessIsOwn
  <2> SUFFICES ASSUME EInv, NEW o \in Op, status[o] = "success", Alone(o)
               PROVE  OwnSuccess(o)
    BY DEF AloneSuccessIsOwn
  <2>1. launches[o] = 1 /\ OpEvidence(o) /\ ComposeTypeOK
    BY DEF EInv, IInv, Consistent, RowsConsistent, TypeOK
  <2>2. mutation[o] \in Run /\ mutation[o] # None
    BY <2>1, ComposeAssumption DEF OpEvidence
  <2>3. CASE input[o].kind = "build"
    BY <2>1, <2>2, <2>3 DEF OpEvidence, OwnSuccess
  <2>4. CASE input[o].kind # "build"
    <3>1. PICK r \in Run : run[r].slug = SlugOf[input[o].dep] /\ run[r].verdict = "success"
      BY <2>1, <2>4 DEF OpEvidence, Verified
    <3>2. RunShape(run[r])
      BY DEF EInv, HostInv, RunsInShape
    <3>3. run[r].kind = "redeploy"
      BY <3>1, <3>2 DEF RunShape
    <3>4. r = mutation[o]
      BY <3>1, <3>3 DEF Alone
    <3> QED BY <2>2, <2>4, <3>1, <3>4 DEF OwnSuccess
  <2> QED BY <2>3, <2>4
<1> QED BY <1>1, EvidenceInvariance, PTL

\* Whatever requests, crashes and failures come, and however many projects there
\* are: while the writes of a project's override followed each other and none
\* broke off, the override is what the last release or edit asked for once no
\* build or edit holds it.
THEOREM OverrideFollowsWrites == Spec => []OverrideIsIntended
<1>1. EInv => OverrideIsIntended
  <2> SUFFICES ASSUME EInv, NEW s \in Slug, Holders(s) = {}, intended[s] # "unclear"
               PROVE  override[s] = intended[s]
    BY DEF OverrideIsIntended
  <2>1. HeldInOrder(s)
    BY DEF EInv, HostInv, OverridesInOrder
  <2> QED BY <2>1 DEF HeldInOrder
<1> QED BY <1>1, EvidenceInvariance, PTL

\* No step takes a fault or a crash back.
LEMMA NoFaultTakenBack ==
  ASSUME IInv, [Next]_vars
  PROVE  /\ UNCHANGED faults \/ Fault
         /\ UNCHANGED crashes \/ CrashCounted
<1>0. ComposeTypeOK
  BY DEF IInv, TypeOK
<1> DEFINE Grows == /\ UNCHANGED faults \/ Fault
                    /\ UNCHANGED crashes \/ CrashCounted
<1> SUFFICES Grows
  OBVIOUS
<1>1. ComposeAction => Grows
  BY <1>0, FaultsGrow
<1>2. CASE \/ ClientStep \/ AdminStep \/ UNCHANGED vars
           \/ Boot \/ RecoverDone \/ StartTick \/ FindPending \/ Claim \/ Authorize \/ DropClaim
           \/ \E o \in Op : RecoverOne(o) \/ LeaseExpires(o)
  <2> USE DEF composeVars, hostVars
  <2>1. CASE ClientStep \/ AdminStep \/ UNCHANGED vars
    BY <2>1 DEF ClientStep, AdminStep, Ask, Create, Revoke, Consent, vars
  <2>2. CASE Boot \/ RecoverDone \/ StartTick \/ FindPending \/ Claim \/ Authorize \/ DropClaim
    BY <2>2 DEF Boot, RecoverDone, StartTick, FindPending, Claim, Authorize, DropClaim, KeepHost
  <2>3. CASE \E o \in Op : RecoverOne(o) \/ LeaseExpires(o)
    BY <2>3 DEF RecoverOne, LeaseExpires
  <2> QED BY <1>2, <2>1, <2>2, <2>3
<1>3. CASE Refuse \/ RefuseRelease \/ PinFailed \/ Finish \/ HandlerThrows
           \/ Reconcile \/ ReconcileFails
  <2> USE DEF hostVars
  <2>1. CASE Refuse \/ RefuseRelease \/ PinFailed \/ Finish \/ HandlerThrows
    BY <2>1 DEF Refuse, RefuseRelease, PinFailed, Finish, HandlerThrows, KeepHost, Write,
                MarkUncertain
  <2>2. CASE Reconcile \/ ReconcileFails
    BY <2>2 DEF Reconcile, ReconcileFails
  <2> QED BY <1>3, <2>1, <2>2
<1>4. CASE \E o \in Op : AskLog(o)
  <2>1. UNCHANGED <<faults, crashes>>
    BY <1>4 DEF AskLog, LogRead, hostVars
  <2> QED BY <2>1
<1>5. CASE \E r \in WorkerRun :
             LaunchRedeploy(r) \/ LaunchBuild(r) \/ PinRelease(r) \/ SwitchRelease(r)
  <2>1. PICK r \in WorkerRun :
          LaunchRedeploy(r) \/ LaunchBuild(r) \/ PinRelease(r) \/ SwitchRelease(r)
    BY <1>5
  <2>2. PICK s, image :
             \/ Accept(r, s) \/ AcceptFails(r, s) \/ Pin(r, s, image)
             \/ BuildStarts(r, s, image) \/ SandboxStarts(r, s, image) \/ BuildRefused(r, s, image)
    BY <2>1 DEF LaunchRedeploy, LaunchBuild, PinRelease, SwitchRelease
  <2>3. CASE BuildStarts(r, s, image)
    BY <2>3 DEF BuildStarts, OverrideRead
  <2> QED BY <2>2, <2>3 DEF Accept, AcceptFails, Pin, SandboxStarts, BuildRefused
<1>6. CASE HostStep \/ Crash \/ Reboot \/ \E p \in Reader : ReadersStep(p)
  BY <1>1, <1>6 DEF HostStep, Crash, Reboot, ReadersStep, ComposeAction
<1>7. CASE OperatorStep
  <2> HIDE DEF Grows
  <2>0. PICK s \in Slug : \/ \E p \in Reader : LogRead(p, s)
                          \/ ComposeUp(s)
                          \/ \E r \in OperatorRun : OperatorRedeploy(r, s)
                          \/ \E r \in OperatorRun, image \in Image : OperatorEdit(r, s, image)
    BY <1>7 DEF OperatorStep
  <2>1. CASE \E r \in OperatorRun, image \in Image : OperatorEdit(r, s, image)
    BY <1>1, <2>1 DEF OperatorEdit, ComposeAction, Kind, Run
  <2>2. CASE \E r \in OperatorRun : OperatorRedeploy(r, s)
    BY <1>1, <2>2 DEF OperatorRedeploy, ComposeAction, Run
  <2>3. CASE ComposeUp(s) \/ \E p \in Reader : LogRead(p, s)
    BY <1>1, <2>3 DEF ComposeAction
  <2> QED BY <2>0, <2>1, <2>2, <2>3
<1> HIDE DEF Grows
<1> QED BY <1>2, <1>3, <1>4, <1>5, <1>6, <1>7 DEF Next, WorkerStep

-----------------------------------------------------------------------------
(* What is claimed is decided.  ENABLED is written out: the worker can go  *)
(* on at start-up and wherever it has an operation in hand, but that it    *)
(* waits for the answer of its request; the request can until it answers.  *)

FreshLeft == \E r \in WorkerRun : Fresh(r, WorkerRun)

WorkerCan ==
  \/ worker.pc \in {"down", "recovering", "claimed"}
  \/ worker.pc \in {"authorized", "pinning"} /\ FreshLeft
  \/ worker.pc = "calling" /\ run[worker.run].stage = "answered"
RunCan(r) ==
  run[r].stage \in {"accepted", "resolved", "deploying", "recording",
                    "building", "saved", "written"}
CallCan == worker.pc = "calling" /\ RunCan(worker.run)

\* A step of request r, or of its process on the host, as a step of the system.
Serve(r) ==
  /\ RunStep(r) \/ ProcessStep(r)
  /\ UNCHANGED <<opVars, grantVars, client, worker>>
CallStep == worker.pc = "calling" /\ Serve(worker.run)

\* Weak fairness of the worker, and of the request it waits for, as seen at one
\* moment.
WorkerGoesOn == <>~WorkerCan \/ <><<WorkerStep>>_vars
CallGoesOn == <>~CallCan \/ <><<CallStep>>_vars
BothGoOn == WorkerGoesOn /\ CallGoesOn
Scheduling == []BothGoOn

\* A request that will answer.
Answerable(q) ==
  /\ q.stage \in {"accepted", "resolved", "deploying", "recording",
                  "building", "saved", "written", "answered"}
  /\ q.stage = "deploying" => q.process # "none"

OneRunning ==
  faults = 0 => \A o, p \in Op : status[o] = "running" /\ status[p] = "running" => o = p
CallWillAnswer == worker.pc = "calling" => Answerable(run[worker.run])
PinIsAnswered ==
  worker.pc = "pinning" =>
    run[worker.run].stage = "answered" /\ run[worker.run].answer \in {"ok", "failed"}

LiveInv == EInv /\ OneRunning /\ CallWillAnswer /\ PinIsAnswered

\* How many steps a request and its process have left at most, and the worker.
ProcessLeft(q) ==
  CASE q.process = "executing" -> 2
    [] q.process = "recreated" -> 1
    [] OTHER -> 0
RunLeft(q) ==
  CASE q.stage = "accepted" -> 6
    [] q.stage = "resolved" -> 5
    [] q.stage = "deploying" -> 2 + ProcessLeft(q)
    [] q.stage = "recording" -> 1 + ProcessLeft(q)
    [] q.stage = "saved" -> 2
    [] q.stage \in {"building", "written"} -> 1
    [] OTHER -> 0
WorkerLeft ==
  CASE worker.pc = "claimed" -> 10
    [] worker.pc = "authorized" -> 9
    [] worker.pc = "pinning" -> 8
    [] worker.pc = "calling" -> 1 + RunLeft(run[worker.run])
    [] worker.pc = "down" -> 2
    [] worker.pc = "recovering" -> 1
    [] OTHER -> 0

LEMMA RunIsShort == ASSUME NEW q PROVE RunLeft(q) \in 0..6
<1>1. ProcessLeft(q) \in 0..2
  BY DEF ProcessLeft
<1> QED BY <1>1 DEF RunLeft

LEMMA WorkerIsShort == WorkerLeft \in 0..10
<1>1. RunLeft(run[worker.run]) \in 0..6
  BY RunIsShort
<1> QED BY <1>1 DEF WorkerLeft

\* A step of a request brings it nearer to its answer, and no other.
LEMMA ServeMoves ==
  ASSUME ComposeTypeOK, RunsInShape, NEW r \in Run, RunStep(r) \/ ProcessStep(r)
  PROVE  /\ \A p \in Run : p # r => run'[p] = run[p]
         /\ Answerable(run[r]) => Answerable(run'[r])
         /\ Answerable(run[r]) /\ run[r].stage # "answered" => RunLeft(run'[r]) < RunLeft(run[r])
         /\ run[r].stage = "answered" =>
              run'[r].stage = "answered" /\ run'[r].answer = run[r].answer
<1>1. run[r].stage # "unused" \/ run[r].process # "none"
  BY DEF RunStep, Resolve, StartRecreate, FailRun, RemoteEnded, Record, SandboxEnds,
         OverrideWritten, BuildEnds, EditEnds, ProcessStep, Recreate, RecreateFails, Verify
<1>2. run[r] \in RunRecord /\ RunShape(run[r]) /\ run \in [Run -> RunRecord \cup {Unused}]
  BY <1>1, StageUsed DEF RunsInShape, ComposeTypeOK
<1> DEFINE Moved(q) ==
      /\ Answerable(run[r]) => Answerable(q)
      /\ Answerable(run[r]) /\ run[r].stage # "answered" => RunLeft(q) < RunLeft(run[r])
      /\ run[r].stage = "answered" => q.stage = "answered" /\ q.answer = run[r].answer
<1>3. ASSUME NEW q, run' = [run EXCEPT ![r] = q], Moved(q)
      PROVE  /\ \A p \in Run : p # r => run'[p] = run[p]
             /\ Moved(run'[r])
  <2>1. run'[r] = q /\ \A p \in Run : p # r => run'[p] = run[p]
    BY <1>2, <1>3
  <2> HIDE DEF Moved
  <2> QED BY <1>3, <2>1
<1>4. CASE Resolve(r)
  <2> DEFINE q == [run[r] EXCEPT !.stage = "resolved", !.image = override[run[r].slug]]
  <2>1. run' = [run EXCEPT ![r] = q] /\ run[r].stage = "accepted"
    BY <1>4 DEF Resolve
  <2>2. q.stage = "resolved"
    BY <1>2 DEF RunRecord
  <2> HIDE DEF q
  <2>3. Moved(q)
    BY <2>1, <2>2 DEF Answerable, RunLeft
  <2> QED BY <1>3, <2>1, <2>3
<1>5. CASE StartRecreate(r)
  <2> DEFINE q == [run[r] EXCEPT !.stage = IF LocalVps THEN "recording" ELSE "deploying",
                                 !.process = "executing"]
  <2>1. run' = [run EXCEPT ![r] = q] /\ run[r].stage = "resolved"
    BY <1>5 DEF StartRecreate
  <2>2. q.stage \in {"recording", "deploying"} /\ q.process = "executing"
    BY <1>2 DEF RunRecord
  <2> HIDE DEF q
  <2>3. ProcessLeft(q) = 2
    BY <2>2 DEF ProcessLeft
  <2>4. Moved(q)
    BY <2>1, <2>2, <2>3 DEF Answerable, RunLeft
  <2> QED BY <1>3, <2>1, <2>4
<1>6. CASE RemoteEnded(r)
  <2> DEFINE q == [run[r] EXCEPT !.stage = "recording"]
  <2>1. run' = [run EXCEPT ![r] = q] /\ run[r].stage = "deploying"
    BY <1>6 DEF RemoteEnded
  <2>2. q.stage = "recording" /\ q.process = run[r].process
    BY <1>2 DEF RunRecord
  <2> HIDE DEF q
  <2>3. ProcessLeft(q) = ProcessLeft(run[r]) /\ ProcessLeft(q) \in 0..2
    BY <2>2 DEF ProcessLeft
  <2>4. Moved(q)
    BY <2>1, <2>2, <2>3 DEF Answerable, RunLeft
  <2> QED BY <1>3, <2>1, <2>4
<1>7. ASSUME NEW a, run' = Answered(r, a), RunCan(r)
      PROVE  /\ \A p \in Run : p # r => run'[p] = run[p]
             /\ Moved(run'[r])
  <2> DEFINE q == [run[r] EXCEPT !.stage = "answered", !.answer = a]
  <2>1. run' = [run EXCEPT ![r] = q]
    BY <1>7 DEF Answered
  <2>2. q.stage = "answered"
    BY <1>2 DEF RunRecord
  <2> HIDE DEF q
  <2>3. ProcessLeft(run[r]) \in 0..2
    BY DEF ProcessLeft
  <2>4. Moved(q)
    BY <1>7, <2>2, <2>3 DEF Answerable, RunLeft, RunCan
  <2> QED BY <1>3, <2>1, <2>4
<1>8. CASE FailRun(r) \/ Record(r) \/ SandboxEnds(r) \/ BuildEnds(r) \/ EditEnds(r)
  <2>1. RunCan(r)
    BY <1>8 DEF FailRun, Record, SandboxEnds, BuildEnds, EditEnds, RunCan
  <2>2. \E a : run' = Answered(r, a)
    BY <1>8 DEF FailRun, Record, SandboxEnds, BuildEnds, EditEnds
  <2> QED BY <1>7, <2>1, <2>2
<1>14. CASE OverrideWritten(r)
  <2>1. run[r].stage = "saved" /\ RunCan(r)
    BY <1>14 DEF OverrideWritten, RunCan
  <2>2. CASE run' = Answered(r, "failed")
    BY <1>7, <2>1, <2>2
  <2>3. CASE run' = [run EXCEPT ![r].stage = "written"]
    <3> DEFINE q == [run[r] EXCEPT !.stage = "written"]
    <3>1. run' = [run EXCEPT ![r] = q]
      BY <2>3
    <3>2. q.stage = "written"
      BY <1>2 DEF RunRecord
    <3> HIDE DEF q
    <3>3. Moved(q)
      BY <2>1, <3>2 DEF Answerable, RunLeft
    <3> QED BY <1>3, <3>1, <3>3
  <2> QED BY <1>14, <2>2, <2>3 DEF OverrideWritten
<1>9. ASSUME NEW q, run' = [run EXCEPT ![r] = q],
             run[r].process \in {"executing", "recreated"},
             q.stage = run[r].stage, q.answer = run[r].answer, q.process # "none",
             ProcessLeft(q) < ProcessLeft(run[r])
      PROVE  /\ \A p \in Run : p # r => run'[p] = run[p]
             /\ Moved(run'[r])
  <2>1. run[r].stage \notin {"accepted", "resolved", "building", "saved", "written"}
    BY <1>2, <1>9 DEF RunShape
  <2>2. ProcessLeft(q) \in 0..2 /\ ProcessLeft(run[r]) \in 0..2
    BY DEF ProcessLeft
  <2>3. Moved(q)
    BY <1>9, <2>1, <2>2 DEF Answerable, RunLeft
  <2> QED BY <1>3, <1>9, <2>3
<1>10. CASE Recreate(r)
  <2> DEFINE q == [run[r] EXCEPT !.process = "recreated"]
  <2>1. run' = [run EXCEPT ![r] = q] /\ run[r].process = "executing"
    BY <1>10 DEF Recreate
  <2>2. q.stage = run[r].stage /\ q.answer = run[r].answer /\ q.process = "recreated"
    BY <1>2 DEF RunRecord
  <2> HIDE DEF q
  <2>3. ProcessLeft(q) < ProcessLeft(run[r])
    BY <2>1, <2>2 DEF ProcessLeft
  <2> QED BY <1>9, <2>1, <2>2, <2>3
<1>11. CASE RecreateFails(r) \/ Verify(r)
  <2>1. PICK v \in {"success", "failed"} : EndProcess(r, v)
    BY <1>11 DEF RecreateFails, Verify
  <2> DEFINE q == [run[r] EXCEPT !.process = "ended", !.verdict = v]
  <2>2. run' = [run EXCEPT ![r] = q] /\ run[r].process \in {"executing", "recreated"}
    BY <1>11, <2>1 DEF EndProcess, RecreateFails, Verify
  <2>3. q.stage = run[r].stage /\ q.answer = run[r].answer /\ q.process = "ended"
    BY <1>2 DEF RunRecord
  <2> HIDE DEF q
  <2>4. ProcessLeft(q) < ProcessLeft(run[r])
    BY <2>2, <2>3 DEF ProcessLeft
  <2> QED BY <1>9, <2>2, <2>3, <2>4
<1>12. CASE RunStep(r)
  BY <1>4, <1>5, <1>6, <1>8, <1>12, <1>14 DEF RunStep
<1>13. CASE ProcessStep(r)
  BY <1>10, <1>11, <1>13 DEF ProcessStep
<1> QED BY <1>12, <1>13

\* Steps of anybody else leave a request in hand alone, unless they are a crash.
LEMMA InHand ==
  ASSUME EInv, [Next]_vars, ~WorkerStep, NEW r \in Run, run[r].stage # "unused"
  PROVE  \/ worker' = At("down") /\ crashes' # crashes
         \/ /\ worker' = worker
            /\ \/ run'[r] = run[r]
               \/ Serve(r)
               \/ /\ crashes' # crashes
                  /\ run'[r].stage = run[r].stage /\ run'[r].answer = run[r].answer
                  /\ run[r].process # "none" => run'[r].process # "none"
<1>0. ComposeTypeOK /\ RunsInShape /\ crashes \in Nat /\ run[r] \in RunRecord
  <2>1. ComposeTypeOK
    BY DEF EInv, IInv, TypeOK
  <2> QED BY <2>1, StageUsed DEF EInv, HostInv, ComposeTypeOK
<1>1. CASE UNCHANGED vars
  BY <1>1 DEF vars, composeVars, hostVars
<1>2. CASE ClientStep \/ AdminStep \/ \E o \in Op : LeaseExpires(o)
  BY <1>2 DEF ClientStep, AdminStep, Ask, Create, Revoke, Consent, LeaseExpires,
              composeVars, hostVars
<1>3. CASE HostStep
  <2>1. CASE \E s \in Slug : Stall(s)
    BY <1>3, <2>1 DEF HostStep, Stall
  <2>2. CASE \E p \in Run : RunStep(p) \/ ProcessStep(p)
    <3>1. PICK p \in Run : RunStep(p) \/ ProcessStep(p)
      BY <2>2
    <3>2. CASE p = r
      BY <1>3, <3>1, <3>2 DEF HostStep, Serve
    <3>3. CASE p # r
      BY <1>0, <1>3, <3>1, <3>3, ServeMoves DEF HostStep
    <3> QED BY <3>2, <3>3
  <2> QED BY <1>3, <2>1, <2>2 DEF HostStep
<1>4. CASE OperatorStep
  <2>1. CASE \E s \in Slug : ComposeUp(s) \/ \E p \in Reader : LogRead(p, s)
    BY <1>4, <2>1 DEF OperatorStep, LogRead, ComposeUp, hostVars
  <2>2. CASE \E s \in Slug, p \in OperatorRun :
               OperatorRedeploy(p, s) \/ \E image \in Image : OperatorEdit(p, s, image)
    <3>1. PICK s \in Slug, p \in OperatorRun :
            OperatorRedeploy(p, s) \/ \E image \in Image : OperatorEdit(p, s, image)
      BY <2>2
    <3>2. p # r /\ p \in Run
      BY <3>1 DEF OperatorRedeploy, OperatorEdit, Fresh, Run
    <3>3. \E q : run' = [run EXCEPT ![p] = q]
      BY <3>1 DEF OperatorRedeploy, OperatorEdit, Accept, AcceptFails, OverrideRead
    <3>4. run'[r] = run[r]
      BY <1>0, <3>2, <3>3 DEF ComposeTypeOK
    <3> QED BY <1>4, <3>4 DEF OperatorStep
  <2> QED BY <1>4, <2>1, <2>2 DEF OperatorStep
<1>7. CASE \E p \in Reader : ReadersStep(p)
  BY <1>0, <1>7, ReadStepFacts DEF ReadersStep, hostVars
<1>5. CASE Crash
  BY <1>0, <1>5 DEF Crash, ServerCrash, CrashCounted
<1>6. CASE Reboot
  <2>1. crashes' # crashes
    BY <1>0, <1>6 DEF Reboot, HostReboot, CrashCounted
  <2>2. CASE LocalVps
    BY <1>6, <2>1, <2>2 DEF Reboot
  <2>3. CASE ~LocalVps
    <3>1. run'[r] = IF run[r].process \in {"executing", "recreated"}
                    THEN [run[r] EXCEPT !.process = "ended"] ELSE run[r]
      BY <1>6, <2>3 DEF Reboot, HostReboot
    <3>2. /\ run'[r].stage = run[r].stage /\ run'[r].answer = run[r].answer
          /\ run[r].process # "none" => run'[r].process # "none"
      BY <1>0, <3>1 DEF RunRecord
    <3> QED BY <1>6, <2>1, <2>3, <3>2 DEF Reboot
  <2> QED BY <2>2, <2>3
<1> QED BY <1>1, <1>2, <1>3, <1>4, <1>5, <1>6, <1>7 DEF Next

\* Only a claim sets an operation running.
LEMMA OnlyClaimRuns ==
  ASSUME EInv, [Next]_vars, NEW o \in Op, status[o] # "running", status'[o] = "running"
  PROVE  Claim /\ o = worker.op
<1>0. status \in [Op -> Status]
  BY DEF EInv, IInv, TypeOK
<1>1. UNCHANGED status => FALSE
  OBVIOUS
<1>2. ASSUME NEW p, NEW v, status' = [status EXCEPT ![p] = v], v # "running"
      PROVE  FALSE
  BY <1>0, <1>2
<1>3. ~(\E v : Write(worker.op, v) /\ v # "running") /\ ~MarkUncertain(worker.op)
  BY <1>1, <1>2 DEF Write, MarkUncertain
<1>4. /\ ~UNCHANGED vars /\ ~HostStep /\ ~OperatorStep /\ ~Crash /\ ~Reboot
      /\ ~(\E p \in Reader : ReadersStep(p))
  BY <1>1 DEF vars, opVars, HostStep, ReadersStep, OperatorStep, Crash, Reboot
<1>5. ~ClientStep
  <2>1. ASSUME NEW c \in Client, NEW call, Ask(c, call) PROVE FALSE
    BY <1>1, <2>1 DEF Ask, opVars
  <2>2. ASSUME NEW c \in Client, Create(c) PROVE FALSE
    <3>1. \E p \in Op : UNCHANGED status \/ status' = [status EXCEPT ![p] = "pending"]
      BY <2>2 DEF Create
    <3> QED BY <1>1, <1>2, <3>1
  <2> QED BY <2>1, <2>2 DEF ClientStep
<1>6. ~AdminStep
  BY <1>0, <1>1 DEF AdminStep, Revoke, Consent, opVars
<1>7. ~(\E p \in Op : LeaseExpires(p))
  BY <1>1 DEF LeaseExpires
<1>8. WorkerStep
  BY <1>4, <1>5, <1>6, <1>7 DEF Next
<1>9. ~Boot /\ ~RecoverDone /\ ~StartTick /\ ~FindPending /\ ~Authorize /\ ~DropClaim
  BY <1>1 DEF Boot, RecoverDone, StartTick, FindPending, Authorize, DropClaim, opVars
<1>10. ~Refuse /\ ~RefuseRelease /\ ~PinFailed /\ ~HandlerThrows
  BY <1>3 DEF Refuse, RefuseRelease, PinFailed, HandlerThrows
<1>11. ~Finish
  BY <1>3 DEF Finish, StatusFor
<1>12. ~Reconcile /\ ~ReconcileFails /\ ~(\E p \in Op : RecoverOne(p) \/ AskLog(p))
  <2>1. ~Reconcile /\ ~ReconcileFails
    BY <1>1, <1>2, ReconcileCases DEF EInv
  <2> QED BY <2>1, <1>1, <1>2 DEF RecoverOne, AskLog, opVars
<1>13. ~(\E r \in WorkerRun :
           LaunchRedeploy(r) \/ LaunchBuild(r) \/ PinRelease(r) \/ SwitchRelease(r))
  <2>1. ASSUME NEW r, LaunchRedeploy(r) \/ LaunchBuild(r) \/ SwitchRelease(r)
        PROVE  UNCHANGED status
    BY <2>1 DEF LaunchRedeploy, LaunchBuild, SwitchRelease
  <2>2. ASSUME NEW r, PinRelease(r) PROVE UNCHANGED status
    BY <2>2 DEF PinRelease, opVars
  <2> QED BY <1>1, <2>1, <2>2
<1>14. Claim
  BY <1>8, <1>9, <1>10, <1>11, <1>12, <1>13 DEF WorkerStep
<1> QED BY <1>0, <1>14 DEF Claim

\* What a launch, and what a pin, leaves in hand.
LEMMA LaunchInHand ==
  ASSUME EInv, NEW r \in WorkerRun,
         LaunchRedeploy(r) \/ LaunchBuild(r) \/ SwitchRelease(r)
  PROVE  /\ worker.pc \in {"authorized", "pinning"}
         /\ worker'.pc = "calling" /\ worker'.run = r /\ worker'.op = worker.op
         /\ run'[r].stage \in {"accepted", "building", "saved", "answered"}
<1>1. /\ run \in [Run -> RunRecord \cup {Unused}] /\ r \in Run /\ worker \in WorkerRecord
  BY DEF EInv, IInv, TypeOK, ComposeTypeOK, Run
<1>2. \E s, image : \/ Accept(r, s) \/ AcceptFails(r, s)
                    \/ BuildStarts(r, s, image) \/ SandboxStarts(r, s, image)
                    \/ BuildRefused(r, s, image)
  BY DEF LaunchRedeploy, LaunchBuild, SwitchRelease
<1>3. run'[r].stage \in {"accepted", "building", "saved", "answered"}
  <2>1. PICK s, image : \/ Accept(r, s) \/ AcceptFails(r, s)
                        \/ BuildStarts(r, s, image) \/ SandboxStarts(r, s, image)
                        \/ BuildRefused(r, s, image)
    BY <1>2
  <2>2. CASE Accept(r, s)
    BY <1>1, <2>2 DEF Accept, Unused
  <2>3. CASE AcceptFails(r, s)
    BY <1>1, <2>3 DEF AcceptFails, Unused
  <2>4. CASE BuildStarts(r, s, image)
    <3>1. PICK found : run' = [run EXCEPT ![r] = [Unused EXCEPT !.kind = "build", !.slug = s,
                         !.stage = "saved", !.image = image, !.saved = found]]
      BY <2>4, Zenon DEF BuildStarts, OverrideRead
    <3> QED BY <1>1, <3>1 DEF Unused
  <2>5. CASE SandboxStarts(r, s, image)
    BY <1>1, <2>5 DEF SandboxStarts, Unused
  <2>6. CASE BuildRefused(r, s, image)
    BY <1>1, <2>6 DEF BuildRefused, Unused
  <2> QED BY <2>1, <2>2, <2>3, <2>4, <2>5, <2>6
<1>4. Launched(worker.op, r) /\ worker.pc \in {"authorized", "pinning"}
  BY DEF LaunchRedeploy, LaunchBuild, SwitchRelease
<1> QED BY <1>1, <1>3, <1>4 DEF Launched, WorkerRecord

LEMMA PinInHand ==
  ASSUME EInv, NEW r \in WorkerRun, PinRelease(r)
  PROVE  /\ worker.pc = "authorized" /\ worker'.pc = "pinning" /\ worker'.run = r
         /\ run'[r].stage = "answered" /\ run'[r].answer \in {"ok", "failed"}
<1>1. /\ run \in [Run -> RunRecord \cup {Unused}] /\ r \in Run /\ worker \in WorkerRecord
  BY DEF EInv, IInv, TypeOK, ComposeTypeOK, Run
<1>2. run'[r].stage = "answered" /\ run'[r].answer \in {"ok", "failed"}
  <2>1. PICK s, image : Pin(r, s, image)
    BY DEF PinRelease
  <2>2. PICK a \in {"ok", "failed"} :
          run' = [run EXCEPT ![r] = [Unused EXCEPT !.kind = "pin", !.slug = s,
                    !.stage = "answered", !.answer = a, !.image = image]]
    BY <2>1 DEF Pin
  <2> QED BY <1>1, <2>2 DEF Unused
<1>3. worker.pc = "authorized" /\ worker' = [worker EXCEPT !.pc = "pinning", !.run = r]
  BY DEF PinRelease
<1> QED BY <1>1, <1>2, <1>3 DEF WorkerRecord

\* The other steps of the worker, where it has an operation in hand or is about
\* to recover one: they settle it, drop it after a fault, or bring it forward.
LEMMA OtherWorkerSteps ==
  ASSUME EInv, WorkerStep,
         ~(\E r \in WorkerRun :
             LaunchRedeploy(r) \/ LaunchBuild(r) \/ SwitchRelease(r) \/ PinRelease(r))
  PROVE  /\ worker'.pc \notin {"pinning", "calling"}
         /\ worker.pc \in {"authorized", "pinning", "calling"} =>
              status'[worker.op] # "running" \/ Fault
         /\ worker.pc = "claimed" =>
              status'[worker.op] # "running" \/ Fault \/ worker'.pc = "authorized"
         /\ worker.pc = "down" => worker'.pc = "recovering"
         /\ worker.pc = "recovering" =>
              \/ Fault
              \/ \A o \in Op : status[o] # "running"
              \/ \E o \in Op : status[o] = "running" /\ status'[o] # "running"
<1>0. /\ status \in [Op -> Status] /\ worker \in WorkerRecord
      /\ worker.pc \in Executing => worker.op \in Op
  BY DEF EInv, IInv, TypeOK, Consistent, WorkerHoldsItsRow
<1>1. \A pc : At(pc).pc = pc
  BY DEF At
<1>2. ASSUME NEW v, Write(worker.op, v), v # "running", worker.op \in Op
      PROVE  worker'.pc = "polling" /\ (status'[worker.op] # "running" \/ Fault)
  BY <1>0, <1>1, <1>2 DEF Write, MarkUncertain
<1>3. CASE Boot
  BY <1>1, <1>3 DEF Boot
<1>4. CASE RecoverDone
  BY <1>1, <1>4 DEF RecoverDone
<1>5. CASE StartTick \/ FindPending
  BY <1>5 DEF StartTick, FindPending, At
<1>6. CASE Claim
  <2>1. worker.pc = "claiming" /\ worker'.pc \in {"claimed", "polling"}
    BY <1>0, <1>1, <1>6 DEF Claim, WorkerRecord
  <2> QED BY <2>1
<1>7. CASE Authorize
  BY <1>0, <1>7 DEF Authorize, WorkerRecord
<1>8. CASE Refuse \/ RefuseRelease \/ PinFailed \/ Finish
  <2>1. worker.pc \in {"claimed", "authorized", "pinning", "calling"}
    BY <1>8 DEF Refuse, RefuseRelease, PinFailed, Finish
  <2>2. \E v : Write(worker.op, v) /\ v # "running"
    BY <1>8 DEF Refuse, RefuseRelease, PinFailed, Finish, StatusFor
  <2> QED BY <1>0, <1>2, <2>1, <2>2 DEF Executing
<1>9. CASE HandlerThrows \/ DropClaim
  <2>1. worker.pc \in {"claimed", "authorized", "pinning", "calling"} /\ Fault
    BY <1>9 DEF HandlerThrows, DropClaim, MarkUncertain, Executing
  <2>2. worker' = At("polling")
    BY <1>9 DEF HandlerThrows, DropClaim, MarkUncertain
  <2> QED BY <1>1, <2>1, <2>2
<1>10. ASSUME NEW o \in Op, RecoverOne(o)
       PROVE  worker.pc = "recovering" /\ worker' = worker /\ status[o] = "running"
              /\ status'[o] # "running"
  BY <1>0, <1>10 DEF RecoverOne
<1>11. ASSUME Reconcile \/ ReconcileFails
       PROVE  worker.pc = "observing" /\ worker'.pc = "reconciling"
  BY <1>1, <1>11, ReconcileCases DEF EInv, Dequeued, At
<1>12. ASSUME NEW o \in Op, AskLog(o)
       PROVE  worker.pc = "reconciling" /\ worker'.pc = "observing"
  BY <1>0, <1>12 DEF AskLog, WorkerRecord
<1>13. CASE Reconcile \/ ReconcileFails \/ \E o \in Op : RecoverOne(o) \/ AskLog(o)
  BY <1>10, <1>11, <1>12, <1>13
<1> QED BY <1>3, <1>4, <1>5, <1>6, <1>7, <1>8, <1>9, <1>13 DEF WorkerStep

LEMMA LiveInit == Init => LiveInv
<1> SUFFICES ASSUME Init PROVE LiveInv
  OBVIOUS
<1>1. EInv
  BY EvidenceInit
<1> QED BY <1>1 DEF Init, LiveInv, OneRunning, CallWillAnswer, PinIsAnswered, At

\* The request in hand, after a step of anybody but the worker.
LEMMA HandKept ==
  ASSUME EInv, [Next]_vars, ~WorkerStep, worker.pc \in {"pinning", "calling"},
         Answerable(run[worker.run])
  PROVE  \/ worker' = At("down") /\ crashes' # crashes
         \/ /\ worker' = worker
            /\ Answerable(run'[worker.run])
            /\ run[worker.run].stage = "answered" =>
                 /\ run'[worker.run].stage = "answered"
                 /\ run'[worker.run].answer = run[worker.run].answer
            /\ \/ run'[worker.run] = run[worker.run]
               \/ Serve(worker.run)
               \/ crashes' # crashes
<1>1. PICK r \in Run : r = worker.run
  BY DEF EInv, IInv, Consistent, WorkerConsistent, Run
<1>2. run[r].stage # "unused" /\ ComposeTypeOK /\ RunsInShape
  BY <1>1 DEF Answerable, EInv, HostInv, IInv, TypeOK
<1>3. \/ worker' = At("down") /\ crashes' # crashes
      \/ /\ worker' = worker
         /\ \/ run'[r] = run[r]
            \/ Serve(r)
            \/ /\ crashes' # crashes
               /\ run'[r].stage = run[r].stage /\ run'[r].answer = run[r].answer
               /\ run[r].process # "none" => run'[r].process # "none"
  BY <1>2, InHand
<1>4. CASE worker' = worker /\ Serve(r)
  BY <1>1, <1>2, <1>4, ServeMoves DEF Serve
<1>5. CASE /\ worker' = worker /\ crashes' # crashes
           /\ run'[r].stage = run[r].stage /\ run'[r].answer = run[r].answer
           /\ run[r].process # "none" => run'[r].process # "none"
  BY <1>1, <1>5 DEF Answerable
<1> QED BY <1>1, <1>3, <1>4, <1>5

LEMMA LiveNext ==
  ASSUME LiveInv, EInv', [Next]_vars
  PROVE  LiveInv'
<1>0. EInv /\ IInv /\ OneRunning /\ CallWillAnswer /\ PinIsAnswered /\ faults \in Nat
  BY DEF LiveInv, EInv, IInv, TypeOK, ComposeTypeOK
<1>1. OneRunning'
  <2> SUFFICES ASSUME faults' = 0, NEW o \in Op, NEW p \in Op,
                      status'[o] = "running", status'[p] = "running"
               PROVE  o = p
    BY DEF OneRunning
  <2>1. faults = 0
    BY <1>0, NoFaultTakenBack DEF Fault
  <2>2. CASE status[o] = "running" /\ status[p] = "running"
    BY <1>0, <2>1, <2>2 DEF OneRunning
  <2>3. CASE ~(status[o] = "running" /\ status[p] = "running")
    <3>1. Claim
      BY <1>0, <2>3, OnlyClaimRuns
    <3>2. worker.pc = "claiming"
      BY <3>1 DEF Claim
    <3>3. status[o] # "running" /\ status[p] # "running"
      BY <1>0, <2>1, <3>2 DEF IInv, Consistent, RunningIsHeld, Executing
    <3> QED BY <1>0, <3>3, OnlyClaimRuns
  <2> QED BY <2>2, <2>3
<1>2. CASE WorkerStep
  <2>1. CASE \E r \in WorkerRun :
               LaunchRedeploy(r) \/ LaunchBuild(r) \/ SwitchRelease(r) \/ PinRelease(r)
    <3>1. PICK r \in WorkerRun :
               LaunchRedeploy(r) \/ LaunchBuild(r) \/ SwitchRelease(r) \/ PinRelease(r)
      BY <2>1
    <3>2. ASSUME PinRelease(r) PROVE CallWillAnswer' /\ PinIsAnswered'
      BY <1>0, <3>2, PinInHand DEF CallWillAnswer, PinIsAnswered
    <3>3. ASSUME LaunchRedeploy(r) \/ LaunchBuild(r) \/ SwitchRelease(r)
          PROVE  CallWillAnswer' /\ PinIsAnswered'
      BY <1>0, <3>3, LaunchInHand DEF CallWillAnswer, PinIsAnswered, Answerable
    <3>4. CallWillAnswer' /\ PinIsAnswered'
      BY <3>1, <3>2, <3>3
    <3> QED BY <1>1, <3>4 DEF LiveInv
  <2>2. CASE ~(\E r \in WorkerRun :
               LaunchRedeploy(r) \/ LaunchBuild(r) \/ SwitchRelease(r) \/ PinRelease(r))
    <3>1. worker'.pc \notin {"pinning", "calling"}
      BY <1>0, <1>2, <2>2, OtherWorkerSteps
    <3> QED BY <1>1, <3>1 DEF LiveInv, CallWillAnswer, PinIsAnswered
  <2> QED BY <2>1, <2>2
<1>3. CASE ~WorkerStep
  <2>1. CASE worker.pc \in {"pinning", "calling"}
    <3>1. Answerable(run[worker.run])
      BY <1>0, <2>1 DEF CallWillAnswer, PinIsAnswered, Answerable
    <3> QED BY <1>0, <1>1, <1>3, <2>1, <3>1, HandKept
            DEF LiveInv, CallWillAnswer, PinIsAnswered, At
  <2>2. CASE worker.pc \notin {"pinning", "calling"}
    <3>1. worker' = worker \/ worker' = At("down")
      BY <1>3 DEF Next, ClientStep, AdminStep, Ask, Create, Revoke, Consent, LeaseExpires,
                  HostStep, ReadersStep, OperatorStep, Crash, Reboot, vars
    <3> QED BY <1>1, <2>2, <3>1 DEF LiveInv, CallWillAnswer, PinIsAnswered, At
  <2> QED BY <2>1, <2>2
<1> QED BY <1>2, <1>3

LEMMA LiveInvariance == Spec => []LiveInv
<1>1. LiveInv /\ EInv' /\ [Next]_vars => LiveInv'
  BY LiveNext
<1> QED BY <1>1, LiveInit, EvidenceInvariance, PTL DEF Spec

-----------------------------------------------------------------------------
\* Operation o is running, and it is over with that: settled, verifying, or
\* something failed, crashed, or there is no request identity left.
Claimed(o, c) == status[o] = "running" /\ crashes = c /\ faults = 0 /\ FreshLeft
Over(o, c) == status[o] # "running" \/ faults > 0 \/ crashes > c \/ ~FreshLeft

LEMMA ClaimedStays ==
  ASSUME EInv, [Next]_vars, NEW o \in Op, NEW c \in Nat, Claimed(o, c), ~Over(o, c)'
  PROVE  Claimed(o, c)' /\ crashes' = crashes /\ faults' = faults
<1>1. faults = 0 /\ crashes = c /\ IInv
  BY DEF Claimed, EInv
<1>2. faults' \in {0, 1} /\ crashes' \in {c, c + 1}
  BY <1>1, NoFaultTakenBack DEF Fault, CrashCounted
<1> QED BY <1>1, <1>2 DEF Claimed, Over

\* Where the worker is while an operation is running and nothing has failed.
LEMMA WhereHeld ==
  ASSUME LiveInv, NEW o \in Op, NEW c, Claimed(o, c)
  PROVE  /\ \/ worker.pc \in {"down", "recovering"}
            \/ worker.pc \in {"claimed", "authorized", "pinning", "calling"} /\ worker.op = o
         /\ WorkerCan \/ CallCan
         /\ ~(WorkerCan /\ CallCan)
         /\ WorkerLeft > 0
<1>1. \/ worker.pc \in {"down", "recovering"}
      \/ worker.pc \in {"claimed", "authorized", "pinning", "calling"} /\ worker.op = o
  BY DEF Claimed, LiveInv, EInv, IInv, Consistent, RunningIsHeld, Executing
<1>2. worker.pc = "calling" => Answerable(run[worker.run])
  BY DEF LiveInv, CallWillAnswer
<1>3. WorkerCan \/ CallCan
  BY <1>1, <1>2 DEF Claimed, WorkerCan, CallCan, RunCan, Answerable
<1>4. ~(WorkerCan /\ CallCan)
  BY DEF WorkerCan, CallCan, RunCan
<1>5. RunLeft(run[worker.run]) \in 0..6
  BY RunIsShort
<1>6. WorkerLeft > 0
  BY <1>1, <1>5 DEF WorkerLeft
<1> QED BY <1>1, <1>3, <1>4, <1>6

\* A step of the worker settles the operation or brings it forward.
LEMMA WorkerTurn ==
  ASSUME LiveInv, [Next]_vars, NEW o \in Op, NEW c \in Nat, Claimed(o, c), ~Over(o, c)',
         WorkerStep
  PROVE  WorkerLeft' < WorkerLeft
<1>0. EInv /\ OneRunning /\ status'[o] = "running" /\ ~Fault
  <2>1. EInv /\ OneRunning
    BY DEF LiveInv
  <2>2. faults' = faults /\ faults = 0
    BY <2>1, ClaimedStays DEF Claimed
  <2> QED BY <2>1, <2>2 DEF Over, Fault
<1>1. \/ worker.pc \in {"down", "recovering"}
      \/ worker.pc \in {"claimed", "authorized", "pinning", "calling"} /\ worker.op = o
  BY WhereHeld
<1>2. CASE \E r \in WorkerRun :
             LaunchRedeploy(r) \/ LaunchBuild(r) \/ SwitchRelease(r) \/ PinRelease(r)
  <2>1. PICK r \in WorkerRun :
             LaunchRedeploy(r) \/ LaunchBuild(r) \/ SwitchRelease(r) \/ PinRelease(r)
    BY <1>2
  <2>2. ASSUME PinRelease(r) PROVE WorkerLeft' = 8 /\ WorkerLeft = 9
    <3>1. worker.pc = "authorized" /\ worker'.pc = "pinning"
      BY <1>0, <2>2, PinInHand
    <3> QED BY <3>1 DEF WorkerLeft
  <2>3. ASSUME LaunchRedeploy(r) \/ LaunchBuild(r) \/ SwitchRelease(r)
        PROVE  WorkerLeft' \in 1..7 /\ WorkerLeft \in 8..9
    <3>1. worker.pc \in {"authorized", "pinning"} /\ worker'.pc = "calling"
      BY <1>0, <2>3, LaunchInHand
    <3>2. RunLeft(run'[worker'.run]) \in 0..6
      BY RunIsShort
    <3>3. WorkerLeft' = 1 + RunLeft(run'[worker'.run])
      BY <3>1 DEF WorkerLeft, RunLeft, ProcessLeft
    <3>4. WorkerLeft \in 8..9
      BY <3>1 DEF WorkerLeft
    <3> QED BY <3>2, <3>3, <3>4
  <2> QED BY <2>1, <2>2, <2>3
<1>3. CASE ~(\E r \in WorkerRun :
               LaunchRedeploy(r) \/ LaunchBuild(r) \/ SwitchRelease(r) \/ PinRelease(r))
  <2>1. /\ worker.pc \in {"authorized", "pinning", "calling"} => status'[worker.op] # "running"
        /\ worker.pc = "claimed" =>
             status'[worker.op] # "running" \/ worker'.pc = "authorized"
        /\ worker.pc = "down" => worker'.pc = "recovering"
        /\ worker.pc = "recovering" =>
             \/ \A p \in Op : status[p] # "running"
             \/ \E p \in Op : status[p] = "running" /\ status'[p] # "running"
    BY <1>0, <1>3, OtherWorkerSteps
  <2>2. status[o] = "running" /\ faults = 0
    BY DEF Claimed
  <2>3. worker.pc # "recovering"
    BY <1>0, <2>1, <2>2 DEF OneRunning
  <2>4. \/ worker.pc = "down" /\ worker'.pc = "recovering"
        \/ worker.pc = "claimed" /\ worker'.pc = "authorized"
    BY <1>0, <1>1, <2>1, <2>3
  <2> QED BY <2>4 DEF WorkerLeft
<1> QED BY <1>2, <1>3

\* A step of anybody else leaves the worker where it is; only one of the request
\* it waits for changes what it has left, and such a step is one less.
LEMMA OthersTurn ==
  ASSUME LiveInv, [Next]_vars, NEW o \in Op, NEW c \in Nat, Claimed(o, c), ~Over(o, c)',
         ~WorkerStep
  PROVE  /\ WorkerLeft' <= WorkerLeft
         /\ CallCan /\ CallStep => WorkerLeft' < WorkerLeft
         /\ WorkerCan => WorkerCan'
         /\ CallCan => CallCan' \/ WorkerLeft' < WorkerLeft
<1>0. /\ EInv /\ crashes' = crashes /\ FreshLeft'
      /\ RunsInShape /\ ComposeTypeOK
  <2>1. EInv /\ RunsInShape /\ ComposeTypeOK
    BY DEF LiveInv, EInv, HostInv, IInv, TypeOK
  <2> QED BY <2>1, ClaimedStays DEF Over
<1>1. CASE worker.pc \notin {"pinning", "calling"}
  <2>1. worker' = worker
    <3>1. ~Crash /\ ~Reboot
      BY <1>0 DEF Crash, Reboot, CrashCounted, ServerCrash, HostReboot, ComposeTypeOK
    <3> QED BY <3>1 DEF Next, ClientStep, AdminStep, Ask, Create, Revoke, Consent,
                        LeaseExpires, HostStep, ReadersStep, OperatorStep, vars
  <2>2. WorkerLeft' = WorkerLeft /\ WorkerLeft \in 0..10
    BY <1>1, <2>1, WorkerIsShort DEF WorkerLeft
  <2> QED BY <1>0, <1>1, <2>1, <2>2 DEF WorkerCan, CallCan
<1>2. CASE worker.pc \in {"pinning", "calling"}
  <2>1. PICK r \in Run : r = worker.run
    BY <1>2 DEF LiveInv, EInv, IInv, Consistent, WorkerConsistent, Run
  <2>2. Answerable(run[r])
    BY <1>2, <2>1 DEF LiveInv, CallWillAnswer, PinIsAnswered, Answerable
  <2>3. /\ worker' = worker
        /\ run[r].stage = "answered" => run'[r].stage = "answered"
        /\ Answerable(run'[r])
        /\ run'[r] = run[r] \/ Serve(r)
    BY <1>0, <1>2, <2>1, <2>2, HandKept
  <2>4. /\ RunLeft(run'[r]) \in 0..6 /\ RunLeft(run[r]) \in 0..6
        /\ run[r].stage # "answered" /\ Serve(r) => RunLeft(run'[r]) < RunLeft(run[r])
        /\ run[r].stage = "answered" => RunLeft(run[r]) = 0 /\ RunLeft(run'[r]) = 0
    <3>1. run[r].stage # "answered" /\ Serve(r) => RunLeft(run'[r]) < RunLeft(run[r])
      BY <1>0, <2>2, ServeMoves DEF Serve
    <3> QED BY <2>3, <3>1, RunIsShort DEF RunLeft
  <2>5. CASE worker.pc = "pinning"
    <3>1. WorkerLeft' = 8 /\ WorkerLeft = 8
      BY <2>3, <2>5 DEF WorkerLeft
    <3> QED BY <1>0, <2>3, <2>5, <3>1 DEF WorkerCan, CallCan
  <2>6. CASE worker.pc = "calling"
    <3>1. WorkerLeft' = 1 + RunLeft(run'[r]) /\ WorkerLeft = 1 + RunLeft(run[r])
      BY <2>1, <2>3, <2>6 DEF WorkerLeft, RunLeft, ProcessLeft
    <3>2. WorkerCan => WorkerCan'
      BY <2>1, <2>3, <2>6 DEF WorkerCan
    <3>3. CallCan <=> run[r].stage # "answered"
      BY <2>1, <2>2, <2>6 DEF CallCan, RunCan, Answerable
    <3>4. CallStep <=> Serve(r)
      BY <2>1, <2>6 DEF CallStep
    <3>5. run'[r] = run[r] => (CallCan => CallCan')
      BY <2>1, <2>3, <2>6 DEF CallCan, RunCan
    <3> HIDE DEF CallCan, WorkerCan
    <3> QED BY <2>3, <2>4, <3>1, <3>2, <3>3, <3>4, <3>5
  <2> QED BY <1>2, <2>5, <2>6
<1> QED BY <1>1, <1>2

\* One step of whoever's turn it is, out of n at most.
Within(o, c, n) == Claimed(o, c) /\ WorkerLeft <= n
ComesDown(o, c, n, k) == Within(o, c, n) ~> Over(o, c) \/ Within(o, c, k)

LEMMA OneStepDown ==
  ASSUME NEW o \in Op, NEW c \in Nat, NEW n \in Nat, NEW k \in Nat, n = k + 1
  PROVE  Spec /\ Scheduling => ComesDown(o, c, n, k)
<1> DEFINE W == Within(o, c, n) /\ WorkerCan
           C == Within(o, c, n) /\ CallCan
           Done == Over(o, c) \/ Within(o, c, k)
<1>1. LiveInv /\ Within(o, c, n) => W \/ C
  BY WhereHeld DEF Within
<1>2. ASSUME LiveInv, [Next]_vars, Within(o, c, n), ~Over(o, c)'
      PROVE  /\ Claimed(o, c)' /\ Claimed(o, c)
             /\ WorkerLeft \in 0..10 /\ WorkerLeft' \in Int /\ WorkerLeft <= n
             /\ WorkerLeft' < WorkerLeft => Within(o, c, k)'
  <2>1. Claimed(o, c)' /\ Claimed(o, c) /\ WorkerLeft <= n
    BY <1>2, ClaimedStays DEF Within, LiveInv
  <2>2. WorkerLeft \in 0..10
    BY WorkerIsShort
  <2>3. WorkerLeft' \in 0..10
    <3>1. RunLeft(run'[worker'.run]) \in 0..6
      BY RunIsShort
    <3>2. RunLeft(run[worker.run])' = RunLeft(run'[worker'.run])
      BY DEF RunLeft, ProcessLeft
    <3> QED BY <3>1, <3>2 DEF WorkerLeft
  <2> QED BY <2>1, <2>2, <2>3 DEF Within
<1>3. LiveInv /\ W /\ [Next]_vars => W' \/ Done'
  <2> SUFFICES ASSUME LiveInv, W, [Next]_vars, ~Over(o, c)' PROVE W' \/ Within(o, c, k)'
    OBVIOUS
  <2>1. CASE WorkerStep
    BY <1>2, <2>1, WorkerTurn
  <2>2. CASE ~WorkerStep
    BY <1>2, <2>2, OthersTurn DEF Within
  <2> QED BY <2>1, <2>2
<1>4. LiveInv /\ W /\ <<WorkerStep>>_vars => Done'
  <2> SUFFICES ASSUME LiveInv, W, WorkerStep, ~Over(o, c)' PROVE Within(o, c, k)'
    OBVIOUS
  <2>1. Next
    BY DEF Next
  <2> QED BY <1>2, <2>1, WorkerTurn
<1>5. LiveInv /\ C /\ [Next]_vars => C' \/ Done'
  <2> SUFFICES ASSUME LiveInv, C, [Next]_vars, ~Over(o, c)' PROVE C' \/ Within(o, c, k)'
    OBVIOUS
  <2>1. CASE WorkerStep
    BY <1>2, <2>1, WorkerTurn
  <2>2. CASE ~WorkerStep
    BY <1>2, <2>2, OthersTurn DEF Within
  <2> QED BY <2>1, <2>2
<1>6. LiveInv /\ C /\ <<CallStep>>_vars => Done'
  <2> SUFFICES ASSUME LiveInv, C, CallStep, ~Over(o, c)' PROVE Within(o, c, k)'
    OBVIOUS
  <2>1. Next
    <3>1. worker.run \in Run
      BY DEF CallStep, LiveInv, EInv, IInv, Consistent, WorkerConsistent, Run
    <3> QED BY <3>1 DEF CallStep, Serve, HostStep, Next
  <2>2. CASE WorkerStep
    BY <1>2, <2>1, <2>2, WorkerTurn
  <2>3. CASE ~WorkerStep
    BY <1>2, <2>1, <2>3, OthersTurn
  <2> QED BY <2>2, <2>3
<1>7. BothGoOn => WorkerGoesOn /\ CallGoesOn
  BY DEF BothGoOn
<1>8. W => ~~WorkerCan
  OBVIOUS
<1>9. C => ~~CallCan
  OBVIOUS
<1>10. Spec => [][Next]_vars /\ []LiveInv
  BY LiveInvariance, PTL DEF Spec
<1> HIDE DEF W, C, Done
<1>11. Spec /\ Scheduling => (Within(o, c, n) ~> Done)
  BY <1>1, <1>3, <1>4, <1>5, <1>6, <1>7, <1>8, <1>9, <1>10, PTL
     DEF Scheduling, WorkerGoesOn, CallGoesOn
<1> QED BY <1>11, PTL DEF Done, ComesDown

LEMMA TwoStepsDown ==
  ASSUME NEW o \in Op, NEW c \in Nat, NEW n \in Nat, NEW k \in Nat, n = k + 2
  PROVE  Spec /\ Scheduling => ComesDown(o, c, n, k)
<1>1. k + 1 \in Nat /\ n = (k + 1) + 1
  OBVIOUS
<1>2. Spec /\ Scheduling => ComesDown(o, c, k + 1, k)
  BY OneStepDown
<1>3. Spec /\ Scheduling => ComesDown(o, c, n, k + 1)
  BY <1>1, OneStepDown
<1> QED BY <1>2, <1>3, PTL DEF ComesDown

LEMMA FourStepsDown ==
  ASSUME NEW o \in Op, NEW c \in Nat, NEW n \in Nat, NEW k \in Nat, n = k + 4
  PROVE  Spec /\ Scheduling => ComesDown(o, c, n, k)
<1>1. k + 2 \in Nat /\ n = (k + 2) + 2
  OBVIOUS
<1>2. Spec /\ Scheduling => ComesDown(o, c, k + 2, k)
  BY <1>1, TwoStepsDown
<1>3. Spec /\ Scheduling => ComesDown(o, c, n, k + 2)
  BY <1>1, TwoStepsDown
<1> QED BY <1>2, <1>3, PTL DEF ComesDown

\* What is claimed does not stay "running": unless a call or write fails, the
\* process or the host crashes, or the bounded request identities run out, the
\* operation settles or goes to "verifying", whatever clients, administrators,
\* operators and other projects do meanwhile.
ClaimedAreDecided ==
  \A o \in Op, c \in Nat :
    status[o] = "running" /\ crashes = c ~>
      status[o] # "running" \/ faults > 0 \/ crashes > c \/ ~FreshLeft

THEOREM ClaimedGetDecided == Spec /\ Scheduling => ClaimedAreDecided
<1> SUFFICES ASSUME NEW o \in Op, NEW c \in Nat
             PROVE  Spec /\ Scheduling =>
                      (status[o] = "running" /\ crashes = c ~> Over(o, c))
  BY DEF ClaimedAreDecided, Over
<1>1. Spec /\ Scheduling => ComesDown(o, c, 10, 6)
  BY FourStepsDown
<1>2. Spec /\ Scheduling => ComesDown(o, c, 6, 2)
  BY FourStepsDown
<1>3. Spec /\ Scheduling => ComesDown(o, c, 2, 0)
  BY TwoStepsDown
<1>4. LiveInv => ~Within(o, c, 0)
  <2>1. LiveInv /\ Claimed(o, c) => WorkerLeft > 0 /\ WorkerLeft \in 0..10
    BY WhereHeld, WorkerIsShort
  <2> QED BY <2>1 DEF Within
<1>5. LiveInv /\ status[o] = "running" /\ crashes = c => Over(o, c) \/ Within(o, c, 10)
  <2>1. LiveInv => faults \in Nat
    BY DEF LiveInv, EInv, IInv, TypeOK, ComposeTypeOK
  <2> QED BY <2>1, WorkerIsShort DEF Over, Within, Claimed
<1>6. Spec => []LiveInv
  BY LiveInvariance
<1> QED BY <1>1, <1>2, <1>3, <1>4, <1>5, <1>6, PTL DEF ComesDown

============================================================================
