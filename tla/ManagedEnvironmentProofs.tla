---------------------- MODULE ManagedEnvironmentProofs ----------------------
(***************************************************************************)
(* The vault keeps the newest value in force for any number of writers; a  *)
(* host that one request at a time uses never holds half a bundle and      *)
(* starts containers with every value it was asked to deliver.             *)
(***************************************************************************)
EXTENDS ManagedEnvironment, TLAPS

-----------------------------------------------------------------------------
(* Types.                                                                  *)

LEMMA NoneTyped ==
  /\ NoEnv \in Env
  /\ NoWrite \in WriterRecord /\ NoWrite.at = "idle"
  /\ NoOverride \in [Component -> Nat]
  /\ NoTask \in TaskRecord /\ NoTask.at = "idle"
<1>1. NoEnv \in Env
  BY DEF NoEnv, Env
<1>2. NoWrite \in WriterRecord /\ NoWrite.at = "idle"
  BY EnvAssumption DEF NoWrite, WriterRecord
<1>3. NoOverride \in [Component -> Nat]
  BY DEF NoOverride
<1>4. NoTask \in TaskRecord /\ NoTask.at = "idle"
  BY <1>1, <1>3 DEF NoTask, TaskRecord, Doing
<1> QED BY <1>1, <1>2, <1>3, <1>4

LEMMA EnvInitType == EnvInit => EnvTypeOK
BY NoneTyped DEF EnvInit, EnvTypeOK, Env, NoEnv

\* A writer moves.
LEMMA WriterMoves ==
  ASSUME EnvTypeOK, NEW w \in Writer, NEW r \in WriterRecord, ToWriter(w, r)
  PROVE  writer' \in [Writer -> WriterRecord]
BY DEF EnvTypeOK, ToWriter

\* The number of a new version is one.
LEMMA VersionTyped ==
  ASSUME EnvTypeOK, NEW s \in Slot
  PROVE  /\ NextVersion(s) \in Nat \ {0}
         /\ \A v \in {"active", "deleted"} : Append(history[s], v) \in Seq({"active", "deleted"})
BY DEF EnvTypeOK, NextVersion

LEMMA VaultTypes ==
  ASSUME EnvTypeOK, NEW w \in Writer,
         \/ CommitSet(w) \/ NumberMarker(w) \/ MarkDeleted(w) \/ DropRow(w) \/ AbortWrite(w)
         \/ \E s \in Slot : BeginSet(w, s) \/ BeginDelete(w, s)
  PROVE  /\ row' \in Env /\ history' \in [Slot -> Seq({"active", "deleted"})]
         /\ writer' \in [Writer -> WriterRecord]
         /\ UNCHANGED <<hostVars, task, running>>
<1>1. /\ writer[w] \in WriterRecord /\ writer[w].slot \in Slot /\ writer[w].version \in Nat
      /\ row \in Env /\ history \in [Slot -> Seq({"active", "deleted"})]
      /\ writer \in [Writer -> WriterRecord]
  BY DEF EnvTypeOK, WriterRecord
<1> DEFINE slot == writer[w].slot
<1>2. NextVersion(slot) \in Nat \ {0}
  BY <1>1, VersionTyped
<1>3. \A v \in {"active", "deleted"} : Append(history[slot], v) \in Seq({"active", "deleted"})
  BY <1>1, VersionTyped
<1>4. NoWrite \in WriterRecord
  BY NoneTyped
<1>5. CASE CommitSet(w)
  <2>1. writer' \in [Writer -> WriterRecord]
    BY <1>4, <1>5, WriterMoves DEF CommitSet
  <2>2. history' \in [Slot -> Seq({"active", "deleted"})]
    BY <1>1, <1>3, <1>5 DEF CommitSet
  <2>3. row' \in Env
    BY <1>1, <1>5 DEF CommitSet, Env
  <2> QED BY <2>1, <2>2, <2>3, <1>5 DEF CommitSet
<1>6. CASE NumberMarker(w)
  <2> DEFINE r == [writer[w] EXCEPT !.at = "marking", !.version = NextVersion(slot)]
  <2>1. r \in WriterRecord /\ ToWriter(w, r)
    BY <1>1, <1>2, <1>6 DEF NumberMarker, WriterRecord
  <2> HIDE DEF r
  <2>2. writer' \in [Writer -> WriterRecord]
    BY <2>1, WriterMoves
  <2> QED BY <2>2, <1>1, <1>6 DEF NumberMarker
<1>7. CASE MarkDeleted(w)
  <2> DEFINE r == [writer[w] EXCEPT !.at = "dropping"]
  <2>1. r \in WriterRecord /\ (ToWriter(w, r) \/ ToWriter(w, NoWrite))
    BY <1>1, <1>7 DEF MarkDeleted, WriterRecord
  <2> HIDE DEF r
  <2>2. writer' \in [Writer -> WriterRecord]
    BY <2>1, <1>4, WriterMoves
  <2>3. history' \in [Slot -> Seq({"active", "deleted"})]
    BY <1>1, <1>3, <1>7 DEF MarkDeleted
  <2> QED BY <2>2, <2>3, <1>1, <1>7 DEF MarkDeleted
<1>8. CASE DropRow(w)
  <2>1. writer' \in [Writer -> WriterRecord]
    BY <1>4, <1>8, WriterMoves DEF DropRow
  <2>2. row' \in Env
    BY <1>1, <1>8 DEF DropRow, Env
  <2> QED BY <2>1, <2>2, <1>1, <1>8 DEF DropRow
<1>9. CASE AbortWrite(w)
  <2>1. writer' \in [Writer -> WriterRecord]
    BY <1>4, <1>9, WriterMoves DEF AbortWrite
  <2> QED BY <2>1, <1>1, <1>9 DEF AbortWrite
<1>10. ASSUME NEW s \in Slot, BeginSet(w, s)
       PROVE  /\ row' \in Env /\ history' \in [Slot -> Seq({"active", "deleted"})]
              /\ writer' \in [Writer -> WriterRecord]
              /\ UNCHANGED <<hostVars, task, running>>
  <2> DEFINE r == [at |-> "committing", slot |-> s, version |-> NextVersion(s)]
  <2>1. NextVersion(s) \in Nat
    BY VersionTyped
  <2>2. r \in WriterRecord /\ ToWriter(w, r)
    BY <2>1, <1>10 DEF BeginSet, WriterRecord
  <2> HIDE DEF r
  <2>3. writer' \in [Writer -> WriterRecord]
    BY <2>2, WriterMoves
  <2> QED BY <2>3, <1>1, <1>10 DEF BeginSet
<1>11. ASSUME NEW s \in Slot, BeginDelete(w, s)
       PROVE  /\ row' \in Env /\ history' \in [Slot -> Seq({"active", "deleted"})]
              /\ writer' \in [Writer -> WriterRecord]
              /\ UNCHANGED <<hostVars, task, running>>
  <2> DEFINE r == [at |-> IF row[s] # 0 THEN "numbering" ELSE "dropping",
                   slot |-> s, version |-> 0]
  <2>1. r \in WriterRecord /\ ToWriter(w, r)
    BY <1>11 DEF BeginDelete, WriterRecord
  <2> HIDE DEF r
  <2>2. writer' \in [Writer -> WriterRecord]
    BY <2>1, WriterMoves
  <2> QED BY <2>2, <1>1, <1>11 DEF BeginDelete
<1> QED BY <1>5, <1>6, <1>7, <1>8, <1>9, <1>10, <1>11

\* Requests and the host: the vault stays, everything else keeps its type.
HostStepOf(t) ==
  \/ BeginApply(t, "apply") \/ BeginApply(t, "start") \/ BeginRedeploy(t)
  \/ Resolve(t) \/ Withdraw(t) \/ EraseFiles(t) \/ MergeDotenv(t) \/ WriteFile(t)
  \/ ListFiles(t) \/ WriteOverride(t) \/ Fail(t)
  \/ Inspect(t) \/ Verify(t) \/ Gate(t) \/ Launch(t) \/ Up(t)

LEMMA GotoTyped ==
  ASSUME EnvTypeOK, NEW t \in Task, NEW stage \in Doing, Goto(t, stage)
  PROVE  task' \in [Task -> TaskRecord]
<1>1. task \in [Task -> TaskRecord]
  BY DEF EnvTypeOK
<1>2. [task[t] EXCEPT !.at = stage] \in TaskRecord
  BY <1>1 DEF TaskRecord
<1>3. task' = [task EXCEPT ![t] = [task[t] EXCEPT !.at = stage]]
  BY DEF Goto
<1> DEFINE r == [task[t] EXCEPT !.at = stage]
<1>4. task' = [task EXCEPT ![t] = r] /\ r \in TaskRecord
  BY <1>2, <1>3
<1> HIDE DEF r
<1> QED BY <1>1, <1>4

LEMMA MaterializedTyped ==
  ASSUME EnvTypeOK, NEW t \in Task PROVE Materialized(t) \in Doing
BY DEF EnvTypeOK, TaskRecord, Materialized, Doing

LEMMA TaskTypes ==
  ASSUME EnvTypeOK, NEW t \in Task, HostStepOf(t)
  PROVE  task' \in [Task -> TaskRecord] /\ UNCHANGED vaultVars
<1>1. /\ task \in [Task -> TaskRecord] /\ task[t] \in TaskRecord
      /\ row \in Env /\ override \in [Component -> Nat]
  BY DEF EnvTypeOK
<1>2. \A x \in {"idle", "inspecting", "resolving", "withdrawing", "erasing", "merging",
                "filing", "listing", "overriding", "verifying", "gating", "launching", "opening"} :
        x \in Doing
  BY DEF Doing
<1>3. ASSUME NEW kind \in {"apply", "start"}, BeginApply(t, kind)
      PROVE  task' \in [Task -> TaskRecord] /\ UNCHANGED vaultVars
  <2>1. [NoTask EXCEPT !.at = "resolving", !.kind = kind] \in TaskRecord
    BY <1>2, NoneTyped DEF TaskRecord
  <2> QED BY <2>1, <1>1, <1>3 DEF BeginApply
<1>4. CASE BeginRedeploy(t)
  <2>1. [NoTask EXCEPT !.at = "inspecting", !.kind = "redeploy", !.want = row] \in TaskRecord
    BY <1>1, <1>2, NoneTyped DEF TaskRecord
  <2> QED BY <2>1, <1>1, <1>4 DEF BeginRedeploy
<1>5. CASE Resolve(t)
  <2>1. Removed \in SUBSET Root
    BY DEF Removed
  <2> QED BY <2>1, <1>1, <1>2, <1>5 DEF Resolve, TaskRecord
<1>6. CASE Withdraw(t) \/ EraseFiles(t) \/ Inspect(t) \/ Verify(t) \/ Up(t)
  <2>1. \E stage \in Doing : Goto(t, stage)
    BY <1>2, <1>6 DEF Withdraw, EraseFiles, Inspect, Verify, Up
  <2>2. UNCHANGED vaultVars
    BY <1>6 DEF Withdraw, EraseFiles, Inspect, Verify, Up
  <2> QED BY <2>1, <2>2, GotoTyped
<1>7. CASE MergeDotenv(t)
  <2>1. Components(task[t].put) \in SUBSET Component
    BY DEF Components
  <2> QED BY <2>1, <1>1, <1>2, <1>7 DEF MergeDotenv, TaskRecord
<1>8. CASE WriteFile(t)
  <2>1. PICK c \in task[t].left : task' = [task EXCEPT ![t].left = @ \ {c}]
    BY <1>8 DEF WriteFile
  <2>2. [task[t] EXCEPT !.left = @ \ {c}] \in TaskRecord
    BY <1>1 DEF TaskRecord
  <2>3. task' = [task EXCEPT ![t] = [task[t] EXCEPT !.left = @ \ {c}]]
    BY <2>1
  <2> QED BY <2>2, <2>3, <1>1, <1>8 DEF WriteFile
<1>9. CASE ListFiles(t) \/ WriteOverride(t)
  <2>1. \E stage \in Doing : Goto(t, stage)
    BY <1>2, <1>9, MaterializedTyped DEF ListFiles, WriteOverride
  <2>2. UNCHANGED vaultVars
    BY <1>9 DEF ListFiles, WriteOverride
  <2> QED BY <2>1, <2>2, GotoTyped
<1>10. CASE Fail(t)
  <2>1. CASE Goto(t, "idle")
    BY <2>1, <1>2, <1>10, GotoTyped DEF Fail
  <2>2. CASE task' = [task EXCEPT ![t].at = "resolving", ![t].retried = TRUE]
    BY <2>2, <1>1, <1>2, <1>10 DEF Fail, TaskRecord
  <2> QED BY <2>1, <2>2, <1>10 DEF Fail
<1>11. CASE Gate(t)
  <2>1. CASE Goto(t, "launching") \/ Goto(t, "idle")
    BY <2>1, <1>2, <1>11, GotoTyped DEF Gate
  <2>2. CASE task' = [task EXCEPT ![t].at = "resolving", ![t].again = TRUE]
    BY <2>2, <1>1, <1>2, <1>11 DEF Gate, TaskRecord
  <2> QED BY <2>1, <2>2, <1>11 DEF Gate
<1>12. CASE Launch(t)
  BY <1>1, <1>2, <1>12 DEF Launch, TaskRecord
<1> QED BY <1>3, <1>4, <1>5, <1>6, <1>7, <1>8, <1>9, <1>10, <1>11, <1>12 DEF HostStepOf

LEMMA HostTypes ==
  ASSUME EnvTypeOK, NEW t \in Task, HostStepOf(t)
  PROVE  /\ dotenv' \in [Root -> Nat] /\ file' \in [Component -> Nat]
         /\ manifest' \in SUBSET Component /\ override' \in [Component -> Nat]
         /\ UNCHANGED lost /\ running' \in [want : Env, got : Env]
<1>1. /\ task[t] \in TaskRecord /\ dotenv \in [Root -> Nat] /\ file \in [Component -> Nat]
      /\ manifest \in SUBSET Component /\ override \in [Component -> Nat]
      /\ running \in [want : Env, got : Env]
  BY DEF EnvTypeOK
<1>2. /\ task[t].want \in Env /\ task[t].put \in Env /\ task[t].left \in SUBSET Component
  BY <1>1 DEF TaskRecord
<1>3. \A k \in Root : task[t].put[k] \in Nat
  BY <1>2 DEF Env, Slot
<1>4. \A c \in Component : task[t].put[c] \in Nat
  BY <1>2 DEF Env, Slot
<1>5. CASE \/ BeginApply(t, "apply") \/ BeginApply(t, "start") \/ BeginRedeploy(t)
           \/ Resolve(t) \/ Fail(t) \/ Inspect(t) \/ Verify(t) \/ Gate(t) \/ Launch(t)
  BY <1>1, <1>5 DEF BeginApply, BeginRedeploy, Resolve, Fail, Inspect, Verify, Gate, Launch,
                    hostVars
<1>6. CASE Withdraw(t)
  BY <1>1, <1>6, NoneTyped DEF Withdraw
<1>7. CASE EraseFiles(t)
  BY <1>1, <1>7 DEF EraseFiles
<1>8. CASE MergeDotenv(t)
  <2>1. dotenv' \in [Root -> Nat]
    BY <1>1, <1>3, <1>8 DEF MergeDotenv
  <2> QED BY <2>1, <1>1, <1>8 DEF MergeDotenv
<1>9. CASE WriteFile(t)
  BY <1>1, <1>2, <1>4, <1>9 DEF WriteFile
<1>10. CASE ListFiles(t)
  BY <1>1, <1>10 DEF ListFiles, Components
<1>11. CASE WriteOverride(t)
  BY <1>1, <1>4, <1>11 DEF WriteOverride
<1>12. CASE Up(t)
  <2>1. [s \in Slot |-> IF s \in Root THEN dotenv[s]
                        ELSE IF task[t].overlay # NoOverride THEN override[s] ELSE 0] \in Env
    BY <1>1 DEF Env, Slot
  <2>2. running' \in [want : Env, got : Env]
    BY <2>1, <1>1, <1>2, <1>12 DEF Up
  <2> QED BY <2>2, <1>1, <1>12 DEF Up, hostVars
<1> QED BY <1>5, <1>6, <1>7, <1>8, <1>9, <1>10, <1>11, <1>12 DEF HostStepOf

\* What a step may be: a writer's, a request's or the host's.
LEMMA EnvCases ==
  EnvNext <=> \/ \E w \in Writer :
                   \/ CommitSet(w) \/ NumberMarker(w) \/ MarkDeleted(w) \/ DropRow(w)
                   \/ AbortWrite(w) \/ \E s \in Slot : BeginSet(w, s) \/ BeginDelete(w, s)
              \/ \E t \in Task : HostStepOf(t)
              \/ \E c \in Component : LoseFile(c)
BY DEF EnvNext, HostStepOf

LEMMA EnvStepType == EnvTypeOK /\ [EnvNext]_envVars => EnvTypeOK'
<1>1. ASSUME EnvTypeOK, UNCHANGED envVars PROVE EnvTypeOK'
  BY <1>1 DEF EnvTypeOK, envVars, vaultVars, hostVars
<1>2. ASSUME EnvTypeOK, NEW w \in Writer,
             \/ CommitSet(w) \/ NumberMarker(w) \/ MarkDeleted(w) \/ DropRow(w) \/ AbortWrite(w)
             \/ \E s \in Slot : BeginSet(w, s) \/ BeginDelete(w, s)
      PROVE  EnvTypeOK'
  <2>1. /\ row' \in Env /\ history' \in [Slot -> Seq({"active", "deleted"})]
        /\ writer' \in [Writer -> WriterRecord]
        /\ UNCHANGED <<hostVars, task, running>>
    BY <1>2, VaultTypes
  <2> QED BY <2>1, <1>2 DEF EnvTypeOK, hostVars
<1>3. ASSUME EnvTypeOK, NEW t \in Task, HostStepOf(t) PROVE EnvTypeOK'
  <2>1. task' \in [Task -> TaskRecord] /\ UNCHANGED vaultVars
    BY <1>3, TaskTypes
  <2>2. /\ dotenv' \in [Root -> Nat] /\ file' \in [Component -> Nat]
        /\ manifest' \in SUBSET Component /\ override' \in [Component -> Nat]
        /\ UNCHANGED lost /\ running' \in [want : Env, got : Env]
    BY <1>3, HostTypes
  <2> QED BY <2>1, <2>2, <1>3 DEF EnvTypeOK, vaultVars
<1>4. ASSUME EnvTypeOK, NEW c \in Component, LoseFile(c) PROVE EnvTypeOK'
  BY <1>4 DEF EnvTypeOK, LoseFile, vaultVars
<1> QED BY <1>1, <1>2, <1>3, <1>4, EnvCases

\* Vault, host and requests have the shape the code gives them.
THEOREM EnvTypeCorrect == EnvSpec => []EnvTypeOK
BY EnvInitType, EnvStepType, PTL DEF EnvSpec

-----------------------------------------------------------------------------
(* The vault.                                                              *)

\* An overtaken writer finds its version taken; whoever is not overtaken writes
\* the newest.
LEMMA VaultStep ==
  EnvTypeOK /\ RowIsNewestActive /\ [EnvNext]_envVars => RowIsNewestActive'
<1> SUFFICES ASSUME EnvTypeOK, RowIsNewestActive, [EnvNext]_envVars PROVE RowIsNewestActive'
  OBVIOUS
<1>1. /\ row \in [Slot -> Nat] /\ history \in [Slot -> Seq({"active", "deleted"})]
      /\ \A w \in Writer : writer[w].slot \in Slot /\ writer[w].version \in Nat
  BY DEF EnvTypeOK, Env, WriterRecord
<1>2. \A s \in Slot : Len(history[s]) \in Nat /\ DOMAIN history[s] = 1..Len(history[s])
  BY <1>1
<1>3. CASE UNCHANGED <<row, history>>
  BY <1>3 DEF RowIsNewestActive
<1>4. ASSUME NEW w \in Writer, CommitSet(w) PROVE RowIsNewestActive'
  <2> DEFINE s == writer[w].slot
  <2>1. CASE writer[w].version # NextVersion(s)
    BY <2>1, <1>3, <1>4 DEF CommitSet
  <2>2. CASE writer[w].version = NextVersion(s)
    <3>1. /\ history' = [history EXCEPT ![s] = Append(@, "active")]
          /\ row' = [row EXCEPT ![s] = Len(history[s]) + 1]
      BY <2>2, <1>4 DEF CommitSet, NextVersion
    <3>2. /\ row'[s] = Len(history[s]) + 1
          /\ history'[s] = Append(history[s], "active")
          /\ \A u \in Slot : u # s => row'[u] = row[u] /\ history'[u] = history[u]
      BY <3>1, <1>1
    <3>3. /\ DOMAIN Append(history[s], "active") = 1..(Len(history[s]) + 1)
          /\ Append(history[s], "active")[Len(history[s]) + 1] = "active"
      BY <1>1
    <3>4. /\ row'[s] \in DOMAIN history'[s] /\ history'[s][row'[s]] = "active"
          /\ \A v \in DOMAIN history'[s] : ~ (v > row'[s])
      BY <3>2, <3>3, <1>1, <1>2
    <3> QED BY <3>2, <3>4 DEF RowIsNewestActive
  <2> QED BY <2>1, <2>2
<1>5. ASSUME NEW w \in Writer, MarkDeleted(w) PROVE RowIsNewestActive'
  <2> DEFINE s == writer[w].slot
  <2>1. CASE writer[w].version # NextVersion(s)
    BY <2>1, <1>3, <1>5 DEF MarkDeleted
  <2>2. CASE writer[w].version = NextVersion(s)
    <3>1. UNCHANGED row /\ history' = [history EXCEPT ![s] = Append(@, "deleted")]
      BY <2>2, <1>5 DEF MarkDeleted
    <3>2. /\ history'[s] = Append(history[s], "deleted")
          /\ \A u \in Slot : u # s => history'[u] = history[u]
      BY <3>1, <1>1
    <3>3. /\ DOMAIN Append(history[s], "deleted") = 1..(Len(history[s]) + 1)
          /\ Append(history[s], "deleted")[Len(history[s]) + 1] = "deleted"
          /\ \A v \in 1..Len(history[s]) : Append(history[s], "deleted")[v] = history[s][v]
      BY <1>1
    <3>4. row[s] # 0 =>
            /\ row[s] \in DOMAIN history'[s] /\ history'[s][row[s]] = "active"
            /\ \A v \in DOMAIN history'[s] : v > row[s] => history'[s][v] = "deleted"
      <4> SUFFICES ASSUME row[s] # 0
                   PROVE  /\ row[s] \in DOMAIN history'[s] /\ history'[s][row[s]] = "active"
                          /\ \A v \in DOMAIN history'[s] : v > row[s] => history'[s][v] = "deleted"
        OBVIOUS
      <4>1. /\ row[s] \in 1..Len(history[s]) /\ history[s][row[s]] = "active"
            /\ \A v \in 1..Len(history[s]) : v > row[s] => history[s][v] = "deleted"
        BY <1>1, <1>2 DEF RowIsNewestActive
      <4>2. \A v \in DOMAIN history'[s] : v \in 1..Len(history[s]) \/ v = Len(history[s]) + 1
        BY <3>2, <3>3, <1>1, <1>2
      <4>3. row[s] \in DOMAIN history'[s]
        BY <4>1, <3>2, <3>3, <1>1, <1>2
      <4> QED BY <4>1, <4>2, <4>3, <3>2, <3>3
    <3> QED BY <3>1, <3>2, <3>4 DEF RowIsNewestActive
  <2> QED BY <2>1, <2>2
<1>6. ASSUME NEW w \in Writer, DropRow(w) PROVE RowIsNewestActive'
  <2>1. /\ UNCHANGED history /\ row'[writer[w].slot] = 0
        /\ \A u \in Slot : u # writer[w].slot => row'[u] = row[u]
    BY <1>1, <1>6 DEF DropRow
  <2> QED BY <2>1 DEF RowIsNewestActive
<1>7. ASSUME NEW w \in Writer,
             NumberMarker(w) \/ AbortWrite(w)
               \/ \E s \in Slot : BeginSet(w, s) \/ BeginDelete(w, s)
      PROVE  RowIsNewestActive'
  BY <1>3, <1>7 DEF NumberMarker, AbortWrite, BeginSet, BeginDelete
<1>8. ASSUME NEW t \in Task, HostStepOf(t) PROVE RowIsNewestActive'
  BY <1>3, <1>8, TaskTypes DEF vaultVars
<1>9. ASSUME NEW c \in Component, LoseFile(c) PROVE RowIsNewestActive'
  BY <1>3, <1>9 DEF LoseFile, vaultVars
<1>10. CASE UNCHANGED envVars
  BY <1>3, <1>10 DEF envVars, vaultVars
<1> QED BY <1>4, <1>5, <1>6, <1>7, <1>8, <1>9, <1>10, EnvCases

\* The value in force is the newest one set, for any number of writers that
\* overlap or die.
THEOREM RowIsNewestActiveHolds == EnvSpec => []RowIsNewestActive
<1>1. EnvInit => RowIsNewestActive
  BY DEF EnvInit, RowIsNewestActive, NoEnv
<1> QED BY <1>1, VaultStep, EnvTypeCorrect, PTL DEF EnvSpec

-----------------------------------------------------------------------------
(* The host, while one request at a time uses it.                          *)

OneTask == \A s, t \in Task : s = t

\* A file of a component has the value, or the host dropped it.
Filed(c, v) == file[c] = v \/ (file[c] = 0 /\ c \in lost)

\* From the withdrawal on there is no override; files, then the manifest, are
\* there before it.
BundleStages ==
  \A t \in Task :
    /\ task[t].at \in {"erasing", "merging", "filing", "overriding"} => override = NoOverride
    /\ task[t].at = "filing" =>
         \A c \in Components(task[t].put) \ task[t].left : Filed(c, task[t].put[c])
    /\ task[t].at = "overriding" =>
         /\ manifest = Components(task[t].put)
         /\ \A c \in manifest : Filed(c, task[t].put[c])

\* What containers would get from the host as it is.
Delivers(env) ==
  /\ \A k \in Root : env[k] # 0 => dotenv[k] = env[k]
  /\ \A c \in Component : env[c] # 0 => override[c] = env[c]

\* Where a request has come to, the host delivers what it wants.
DeliveryStages ==
  \A t \in Task :
    /\ task[t].at \in {"filing", "overriding"} =>
         \A k \in Root : task[t].put[k] # 0 => dotenv[k] = task[t].put[k]
    /\ /\ task[t].at \in {"withdrawing", "erasing", "merging", "filing", "overriding"}
       /\ task[t].kind = "start" \/ task[t].again
       => task[t].want = task[t].put
    /\ task[t].at \in {"gating", "launching", "opening"} => Delivers(task[t].want)
    /\ task[t].at = "opening" => task[t].overlay = override
    /\ task[t].again \/ task[t].at \in {"inspecting", "verifying", "gating"}
       => task[t].kind = "redeploy"

BundleInv ==
  /\ EnvTypeOK
  /\ BundleStages
  /\ OverrideIsWhole
  /\ DeliveryStages
  /\ DeliveredValues

LEMMA BundleInit == EnvInit => BundleInv
<1> SUFFICES ASSUME EnvInit PROVE BundleInv
  OBVIOUS
<1>1. EnvTypeOK
  BY EnvInitType
<1>2. \A t \in Task : task[t].at = "idle" /\ ~task[t].again
  BY NoneTyped DEF EnvInit, NoTask
<1>3. BundleStages
  BY <1>2 DEF BundleStages
<1>4. DeliveryStages
  BY <1>2 DEF DeliveryStages
<1>5. OverrideIsWhole /\ DeliveredValues
  BY DEF EnvInit, OverrideIsWhole, DeliveredValues, NoEnv
<1> QED BY <1>1, <1>3, <1>4, <1>5 DEF BundleInv

\* A step that leaves the host and the last up alone, and takes the request
\* where nothing is asked of it or where what is asked holds.
LEMMA QuietKeeps ==
  ASSUME BundleInv, EnvTypeOK', UNCHANGED <<hostVars, running>>,
         \A t \in Task :
           \/ task'[t] = task[t]
           \/ /\ task'[t].at \in {"idle", "resolving", "inspecting", "withdrawing", "verifying"}
              /\ task'[t].at = "withdrawing" /\ (task'[t].kind = "start" \/ task'[t].again)
                   => task'[t].want = task'[t].put
              /\ task'[t].again \/ task'[t].at \in {"inspecting", "verifying"}
                   => task'[t].kind = "redeploy"
           \/ /\ task'[t].at \in {"gating", "launching", "opening"}
              /\ Delivers(task'[t].want)
              /\ task'[t].at = "opening" => task'[t].overlay = override
              /\ task'[t].again \/ task'[t].at = "gating" => task'[t].kind = "redeploy"
  PROVE  BundleInv'
<1>1. BundleStages'
  BY DEF BundleInv, BundleStages, Filed, hostVars
<1>2. OverrideIsWhole'
  BY DEF BundleInv, OverrideIsWhole, hostVars
<1>3. DeliveryStages'
  BY DEF BundleInv, DeliveryStages, Delivers, hostVars
<1>4. DeliveredValues'
  BY DEF BundleInv, DeliveredValues
<1> QED BY <1>1, <1>2, <1>3, <1>4 DEF BundleInv

\* Writers do not touch the host.
LEMMA WriterKeepsBundle ==
  ASSUME BundleInv, NEW w \in Writer, EnvTypeOK',
         \/ CommitSet(w) \/ NumberMarker(w) \/ MarkDeleted(w) \/ DropRow(w) \/ AbortWrite(w)
         \/ \E s \in Slot : BeginSet(w, s) \/ BeginDelete(w, s)
  PROVE  BundleInv'
<1>1. UNCHANGED <<hostVars, task, running>>
  BY VaultTypes DEF BundleInv
<1> QED BY <1>1, QuietKeeps

\* The host drops a file, and it is known to have.
LEMMA LoseFileKeepsBundle ==
  ASSUME BundleInv, NEW c \in Component, EnvTypeOK', LoseFile(c)
  PROVE  BundleInv'
<1>1. /\ file \in [Component -> Nat] /\ override \in [Component -> Nat]
      /\ lost \in SUBSET Component
  BY DEF BundleInv, EnvTypeOK
<1>2. /\ UNCHANGED <<dotenv, manifest, override, task, running>>
      /\ lost' = lost \cup {c} /\ file' = [file EXCEPT ![c] = 0]
  BY DEF LoseFile
<1>3. \A d \in Component, v \in Nat : Filed(d, v) => Filed(d, v)'
  BY <1>1, <1>2 DEF Filed
<1>4. \A t \in Task : \A d \in Component : task[t].put[d] \in Nat
  <2>1. \A t \in Task : task[t] \in TaskRecord
    BY DEF BundleInv, EnvTypeOK
  <2>2. \A t \in Task : task[t].put \in [Slot -> Nat]
    BY <2>1 DEF TaskRecord, Env
  <2> QED BY <2>2 DEF Slot
<1>5. BundleStages'
  BY <1>1, <1>2, <1>3, <1>4 DEF BundleInv, BundleStages, Components
<1>6. OverrideIsWhole'
  <2>1. override # NoOverride =>
          manifest = Components(override) /\ \A d \in manifest : Filed(d, override[d])
    BY DEF BundleInv, OverrideIsWhole, Filed
  <2>2. Components(override) \in SUBSET Component
    BY DEF Components
  <2>3. override # NoOverride => \A d \in manifest : Filed(d, override[d])'
    BY <1>1, <1>2, <1>3, <2>1, <2>2
  <2>4. Components(override)' = Components(override)
    BY <1>2 DEF Components
  <2> QED BY <1>2, <2>1, <2>3, <2>4 DEF OverrideIsWhole, Filed
<1>7. DeliveryStages' /\ DeliveredValues'
  BY <1>2 DEF BundleInv, DeliveryStages, Delivers, DeliveredValues
<1> QED BY <1>5, <1>6, <1>7 DEF BundleInv

\* Steps of a request that only read.
LEMMA ReadersKeepBundle ==
  ASSUME BundleInv, NEW t \in Task, EnvTypeOK',
         \/ BeginApply(t, "apply") \/ BeginApply(t, "start") \/ BeginRedeploy(t)
         \/ Resolve(t) \/ Fail(t) \/ Inspect(t) \/ Verify(t) \/ Gate(t) \/ Launch(t)
  PROVE  BundleInv'
<1>1. /\ UNCHANGED <<hostVars, running>>
      /\ \A u \in Task : u # t => task'[u] = task[u]
  BY DEF BundleInv, EnvTypeOK, BeginApply, BeginRedeploy, Resolve, Fail, Inspect, Verify, Gate,
         Launch, Goto
<1>2. task \in [Task -> TaskRecord] /\ task[t] \in TaskRecord
  BY DEF BundleInv, EnvTypeOK
<1>3. NoTask \in TaskRecord /\ ~NoTask.again
  BY NoneTyped DEF NoTask
<1>4. task[t].again \/ task[t].at \in {"inspecting", "verifying", "gating"}
      => task[t].kind = "redeploy"
  BY DEF BundleInv, DeliveryStages
<1>5. ASSUME NEW kind \in {"apply", "start"}, BeginApply(t, kind) PROVE BundleInv'
  <2>1. task'[t] = [NoTask EXCEPT !.at = "resolving", !.kind = kind]
    BY <1>2, <1>5 DEF BeginApply
  <2>2. task'[t].at = "resolving" /\ ~task'[t].again
    BY <1>3, <2>1 DEF TaskRecord
  <2> QED BY <1>1, <2>2, QuietKeeps
<1>6. CASE BeginRedeploy(t)
  <2>1. task'[t] = [NoTask EXCEPT !.at = "inspecting", !.kind = "redeploy", !.want = row]
    BY <1>2, <1>6 DEF BeginRedeploy
  <2>2. task'[t].at = "inspecting" /\ task'[t].kind = "redeploy"
    BY <1>3, <2>1 DEF TaskRecord
  <2> QED BY <1>1, <2>2, QuietKeeps
<1>7. CASE Resolve(t)
  <2>1. task'[t] = [task[t] EXCEPT !.at = "withdrawing", !.put = row, !.removed = Removed,
                      !.want = IF task[t].kind = "redeploy" /\ ~task[t].again THEN @ ELSE row]
    BY <1>2, <1>7 DEF Resolve
  <2>2. /\ task'[t].at = "withdrawing" /\ task'[t].put = row
        /\ task'[t].kind = task[t].kind /\ task'[t].again = task[t].again
        /\ ~(task[t].kind = "redeploy" /\ ~task[t].again) => task'[t].want = row
    BY <1>2, <2>1 DEF TaskRecord
  <2> QED BY <1>1, <1>4, <2>2, QuietKeeps
<1>8. CASE Fail(t)
  <2>1. CASE Goto(t, "idle")
    <3>1. task'[t].at = "idle" /\ task'[t].again = task[t].again /\ task'[t].kind = task[t].kind
      BY <2>1, <1>2 DEF Goto, TaskRecord
    <3> QED BY <3>1, <1>1, <1>4, QuietKeeps
  <2>2. CASE task' = [task EXCEPT ![t].at = "resolving", ![t].retried = TRUE]
    <3>1. /\ task'[t].at = "resolving" /\ task'[t].again = task[t].again
          /\ task'[t].kind = task[t].kind
      BY <2>2, <1>2 DEF TaskRecord
    <3> QED BY <3>1, <1>1, <1>4, QuietKeeps
  <2> QED BY <2>1, <2>2, <1>8 DEF Fail
<1>9. CASE Inspect(t) \/ Verify(t)
  <2>1. \/ Goto(t, "resolving") \/ Goto(t, "idle")
        \/ Goto(t, "gating") /\ Matches(task[t].want)
    BY <1>9 DEF Inspect, Verify
  <2>2. Matches(task[t].want) => Delivers(task[t].want)
    BY DEF Matches, Delivers, Components
  <2>3. \A stage \in Doing : Goto(t, stage) =>
          /\ task'[t].at = stage /\ task'[t].want = task[t].want
          /\ task'[t].again = task[t].again /\ task'[t].kind = task[t].kind
    BY <1>2 DEF Goto, TaskRecord
  <2>4. {"resolving", "idle", "gating"} \subseteq Doing
    BY DEF Doing
  <2>5. task[t].kind = "redeploy"
    BY <1>4, <1>9 DEF Inspect, Verify
  <2> QED BY <2>1, <2>2, <2>3, <2>4, <2>5, <1>1, QuietKeeps
<1>10. CASE Gate(t)
  <2>1. Delivers(task[t].want)
    BY <1>10 DEF Gate, BundleInv, DeliveryStages
  <2>2. CASE Goto(t, "launching") \/ Goto(t, "idle")
    <3>1. /\ task'[t].at \in {"launching", "idle"} /\ task'[t].want = task[t].want
          /\ task'[t].again = task[t].again /\ task'[t].kind = task[t].kind
      BY <2>2, <1>2 DEF Goto, TaskRecord
    <3> QED BY <3>1, <2>1, <1>1, <1>4, QuietKeeps
  <2>3. CASE task' = [task EXCEPT ![t].at = "resolving", ![t].again = TRUE]
    <3>1. task'[t].at = "resolving" /\ task'[t].kind = "redeploy"
      BY <2>3, <1>2, <1>4, <1>10 DEF TaskRecord, Gate
    <3> QED BY <3>1, <1>1, QuietKeeps
  <2> QED BY <2>2, <2>3, <1>10 DEF Gate
<1>11. CASE Launch(t)
  <2>1. Delivers(task[t].want)
    BY <1>11 DEF Launch, BundleInv, DeliveryStages
  <2>2. /\ task'[t].at \in {"opening", "idle"} /\ task'[t].want = task[t].want
        /\ task'[t].overlay = override
        /\ task'[t].again = task[t].again /\ task'[t].kind = task[t].kind
    BY <1>2, <1>11 DEF Launch, TaskRecord
  <2> QED BY <2>1, <2>2, <1>1, <1>4, QuietKeeps
<1> QED BY <1>5, <1>6, <1>7, <1>8, <1>9, <1>10, <1>11

\* Steps of the only request there is that write on the host.
LEMMA WritersKeepBundle ==
  ASSUME OneTask, BundleInv, NEW t \in Task, EnvTypeOK',
         \/ Withdraw(t) \/ EraseFiles(t) \/ MergeDotenv(t) \/ WriteFile(t)
         \/ ListFiles(t) \/ WriteOverride(t)
  PROVE  BundleInv'
<1>1. /\ task \in [Task -> TaskRecord] /\ task[t] \in TaskRecord
      /\ dotenv \in [Root -> Nat] /\ file \in [Component -> Nat]
      /\ manifest \in SUBSET Component /\ override \in [Component -> Nat]
  BY DEF BundleInv, EnvTypeOK
<1>2. \A u \in Task : u = t
  BY DEF OneTask
<1>3. /\ task[t].put \in [Slot -> Nat] /\ task[t].left \in SUBSET Component
      /\ \A c \in Component : task[t].put[c] \in Nat
      /\ \A k \in Root : task[t].put[k] \in Nat
  <2>1. task[t].put \in [Slot -> Nat] /\ task[t].left \in SUBSET Component
    BY <1>1 DEF TaskRecord, Env
  <2> QED BY <2>1 DEF Slot
<1>4. \A stage \in Doing : Goto(t, stage) =>
        /\ task'[t].at = stage /\ task'[t].want = task[t].want /\ task'[t].put = task[t].put
        /\ task'[t].left = task[t].left /\ task'[t].overlay = task[t].overlay
        /\ task'[t].again = task[t].again /\ task'[t].kind = task[t].kind
  BY <1>1 DEF Goto, TaskRecord
<1>5. /\ task[t].again => task[t].kind = "redeploy"
      /\ /\ task[t].at \in {"withdrawing", "erasing", "merging", "filing", "overriding"}
         /\ task[t].kind = "start" \/ task[t].again
         => task[t].want = task[t].put
  BY DEF BundleInv, DeliveryStages
<1>6. {"erasing", "merging", "overriding"} \subseteq Doing
  BY DEF Doing
<1>7. UNCHANGED running
  BY DEF Withdraw, EraseFiles, MergeDotenv, WriteFile, ListFiles, WriteOverride
<1>8. DeliveredValues'
  BY <1>7 DEF BundleInv, DeliveredValues
<1>9. CASE Withdraw(t)
  <2>1. /\ task'[t].at = "erasing" /\ task'[t].want = task[t].want /\ task'[t].put = task[t].put
        /\ task'[t].again = task[t].again /\ task'[t].kind = task[t].kind
    BY <1>4, <1>6, <1>9 DEF Withdraw
  <2>2. override' = NoOverride
    BY <1>9 DEF Withdraw
  <2>3. task[t].at = "withdrawing"
    BY <1>9 DEF Withdraw
  <2>4. BundleStages'
    BY <1>2, <2>1, <2>2 DEF BundleStages
  <2>5. OverrideIsWhole'
    BY <2>2 DEF OverrideIsWhole, NoOverride
  <2>6. DeliveryStages'
    BY <1>2, <1>5, <2>1, <2>3 DEF DeliveryStages
  <2> QED BY <1>8, <2>4, <2>5, <2>6 DEF BundleInv
<1>10. CASE EraseFiles(t)
  <2>1. /\ task'[t].at = "merging" /\ task'[t].want = task[t].want /\ task'[t].put = task[t].put
        /\ task'[t].again = task[t].again /\ task'[t].kind = task[t].kind
    BY <1>4, <1>6, <1>10 DEF EraseFiles
  <2>2. override' = NoOverride
    BY <1>10 DEF EraseFiles, BundleInv, BundleStages
  <2>3. task[t].at = "erasing"
    BY <1>10 DEF EraseFiles
  <2>4. BundleStages'
    BY <1>2, <2>1, <2>2 DEF BundleStages
  <2>5. OverrideIsWhole'
    BY <2>2 DEF OverrideIsWhole, NoOverride
  <2>6. DeliveryStages'
    BY <1>2, <1>5, <2>1, <2>3 DEF DeliveryStages
  <2> QED BY <1>8, <2>4, <2>5, <2>6 DEF BundleInv
<1>11. CASE MergeDotenv(t)
  <2>1. task'[t] = [task[t] EXCEPT !.at = "filing", !.left = Components(task[t].put)]
    BY <1>1, <1>11 DEF MergeDotenv
  <2>2. /\ task'[t].at = "filing" /\ task'[t].want = task[t].want /\ task'[t].put = task[t].put
        /\ task'[t].left = Components(task[t].put)
        /\ task'[t].again = task[t].again /\ task'[t].kind = task[t].kind
    BY <1>1, <2>1 DEF TaskRecord
  <2>3. task[t].at = "merging" /\ UNCHANGED <<file, manifest, override, lost>>
    BY <1>11 DEF MergeDotenv
  <2>4. override' = NoOverride
    BY <2>3 DEF BundleInv, BundleStages
  <2>5. \A k \in Root : task[t].put[k] # 0 => dotenv'[k] = task[t].put[k]
    BY <1>11 DEF MergeDotenv
  <2>6. BundleStages'
    BY <1>2, <2>2, <2>4 DEF BundleStages
  <2>7. OverrideIsWhole'
    BY <2>4 DEF OverrideIsWhole, NoOverride
  <2>8. DeliveryStages'
    BY <1>2, <1>5, <2>2, <2>3, <2>5 DEF DeliveryStages
  <2> QED BY <1>8, <2>6, <2>7, <2>8 DEF BundleInv
<1>12. CASE WriteFile(t)
  <2>1. PICK c \in task[t].left :
          /\ file' = [file EXCEPT ![c] = task[t].put[c]]
          /\ task' = [task EXCEPT ![t].left = @ \ {c}]
    BY <1>12 DEF WriteFile
  <2>2. /\ task'[t].at = task[t].at /\ task'[t].want = task[t].want /\ task'[t].put = task[t].put
        /\ task'[t].left = task[t].left \ {c}
        /\ task'[t].again = task[t].again /\ task'[t].kind = task[t].kind
    BY <1>1, <2>1 DEF TaskRecord
  <2>3. /\ task[t].at = "filing" /\ UNCHANGED <<dotenv, manifest, override, lost>>
    BY <1>12 DEF WriteFile
  <2>4. override' = NoOverride
    BY <2>3 DEF BundleInv, BundleStages
  <2>5. /\ c \in Component /\ file'[c] = task[t].put[c]
        /\ \A d \in Component : d # c => file'[d] = file[d]
    BY <1>1, <1>3, <2>1
  <2>6. \A d \in Components(task[t].put) \ task'[t].left : Filed(d, task[t].put[d])'
    <3> SUFFICES ASSUME NEW d \in Components(task[t].put), d \notin task'[t].left
                 PROVE  file'[d] = task[t].put[d] \/ (file'[d] = 0 /\ d \in lost)
      BY <2>2, <2>3 DEF Filed
    <3>1. CASE d = c
      BY <3>1, <2>5
    <3>2. CASE d # c
      <4>1. d \in Component /\ d \notin task[t].left
        BY <3>2, <2>2 DEF Components
      <4>2. Filed(d, task[t].put[d])
        BY <4>1, <2>3 DEF BundleInv, BundleStages
      <4> QED BY <4>1, <4>2, <3>2, <2>5 DEF Filed
    <3> QED BY <3>1, <3>2
  <2>7. BundleStages'
    BY <1>2, <2>2, <2>3, <2>4, <2>6 DEF BundleStages, Components
  <2>8. OverrideIsWhole'
    BY <2>4 DEF OverrideIsWhole, NoOverride
  <2>9. DeliveryStages'
    BY <1>2, <1>5, <2>2, <2>3 DEF BundleInv, DeliveryStages
  <2> QED BY <1>8, <2>7, <2>8, <2>9 DEF BundleInv
<1>13. ASSUME task[t].at \in {"filing", "overriding"}, Goto(t, Materialized(t)),
              UNCHANGED <<dotenv, file, lost>>,
              \A c \in Component : task[t].put[c] # 0 => override'[c] = task[t].put[c],
              OverrideIsWhole'
       PROVE  BundleInv'
  <2>1. Materialized(t) \in Doing
    BY MaterializedTyped DEF BundleInv
  <2>2. /\ task'[t].at = Materialized(t) /\ task'[t].want = task[t].want
        /\ task'[t].put = task[t].put
        /\ task'[t].again = task[t].again /\ task'[t].kind = task[t].kind
    BY <1>4, <1>13, <2>1
  <2>3. /\ task[t].kind = "apply" => Materialized(t) = "idle"
        /\ task[t].kind = "start" => Materialized(t) = "launching"
        /\ task[t].kind = "redeploy" =>
             Materialized(t) = IF task[t].again THEN "gating" ELSE "verifying"
        /\ task[t].kind \in {"apply", "start", "redeploy"}
    BY <1>1 DEF Materialized, TaskRecord
  <2>4. \A k \in Root : task[t].put[k] # 0 => dotenv'[k] = task[t].put[k]
    BY <1>13 DEF BundleInv, DeliveryStages
  <2>5. task[t].kind = "start" \/ task[t].again => task[t].want = task[t].put
    BY <1>5, <1>13
  <2>6. Materialized(t) \in {"gating", "launching"} => Delivers(task[t].want)'
    BY <1>13, <2>2, <2>3, <2>4, <2>5 DEF Delivers
  <2>7. BundleStages'
    BY <1>2, <2>2, <2>3 DEF BundleStages
  <2>8. DeliveryStages'
    BY <1>2, <1>5, <2>2, <2>3, <2>6 DEF DeliveryStages, Delivers
  <2> QED BY <1>8, <1>13, <2>7, <2>8 DEF BundleInv
<1>14. CASE ListFiles(t)
  <2>1. task[t].at = "filing" /\ task[t].left = {} /\ UNCHANGED <<dotenv, file, override, lost>>
    BY <1>14 DEF ListFiles
  <2>2. override = NoOverride
    BY <2>1 DEF BundleInv, BundleStages
  <2>3. OverrideIsWhole'
    BY <2>1, <2>2 DEF OverrideIsWhole
  <2>4. CASE Components(task[t].put) = {}
    <3>1. \A c \in Component : task[t].put[c] = 0
      BY <2>4 DEF Components
    <3>2. Goto(t, Materialized(t))
      BY <2>4, <1>14 DEF ListFiles
    <3> QED BY <3>1, <3>2, <2>1, <2>3, <1>13
  <2>5. CASE Components(task[t].put) # {}
    <3>1. Goto(t, "overriding") /\ manifest' = Components(task[t].put)
      BY <2>5, <1>14 DEF ListFiles
    <3>2. /\ task'[t].at = "overriding" /\ task'[t].want = task[t].want
          /\ task'[t].put = task[t].put
          /\ task'[t].again = task[t].again /\ task'[t].kind = task[t].kind
      BY <3>1, <1>4, <1>6
    <3>3. \A c \in Components(task[t].put) : Filed(c, task[t].put[c])
      BY <2>1 DEF BundleInv, BundleStages
    <3>4. BundleStages'
      BY <1>2, <2>1, <2>2, <3>1, <3>2, <3>3 DEF BundleStages, Filed, Components
    <3>5. DeliveryStages'
      BY <1>2, <1>5, <2>1, <3>2 DEF BundleInv, DeliveryStages
    <3> QED BY <1>8, <2>3, <3>4, <3>5 DEF BundleInv
  <2> QED BY <2>4, <2>5
<1>15. CASE WriteOverride(t)
  <2>1. /\ task[t].at = "overriding" /\ UNCHANGED <<dotenv, file, manifest, lost>>
        /\ override' = [c \in Component |-> task[t].put[c]] /\ Goto(t, Materialized(t))
    BY <1>15 DEF WriteOverride
  <2>2. /\ manifest = Components(task[t].put)
        /\ \A c \in manifest : Filed(c, task[t].put[c])
    BY <2>1 DEF BundleInv, BundleStages
  <2>3. Components(override)' = Components(task[t].put)
    BY <2>1 DEF Components
  <2>4. OverrideIsWhole'
    BY <1>1, <2>1, <2>2, <2>3 DEF OverrideIsWhole, Filed
  <2> QED BY <2>1, <2>4, <1>13
<1> QED BY <1>9, <1>10, <1>11, <1>12, <1>14, <1>15

\* Compose delivers what the host does, or nothing happens.
LEMMA UpKeepsBundle ==
  ASSUME OneTask, BundleInv, NEW t \in Task, EnvTypeOK', Up(t)
  PROVE  BundleInv'
<1>1. task \in [Task -> TaskRecord] /\ task[t] \in TaskRecord /\ override \in [Component -> Nat]
  BY DEF BundleInv, EnvTypeOK
<1>2. \A u \in Task : u = t
  BY DEF OneTask
<1>3. UNCHANGED hostVars /\ task[t].at = "opening"
  BY DEF Up
<1>4. task'[t].at = "idle" /\ task'[t].again = task[t].again /\ task'[t].kind = task[t].kind
  BY <1>1 DEF Up, Goto, TaskRecord
<1>5. BundleStages'
  BY <1>2, <1>4 DEF BundleStages
<1>6. OverrideIsWhole'
  BY <1>3 DEF BundleInv, OverrideIsWhole, hostVars
<1>7. DeliveryStages'
  BY <1>2, <1>4 DEF BundleInv, DeliveryStages
<1>8. Delivers(task[t].want) /\ task[t].overlay = override
  BY <1>3 DEF BundleInv, DeliveryStages
<1>9. DeliveredValues'
  <2>1. CASE running' = running
    BY <2>1 DEF BundleInv, DeliveredValues
  <2>2. CASE running' # running
    <3> DEFINE got == [s \in Slot |-> IF s \in Root THEN dotenv[s]
                                      ELSE IF task[t].overlay # NoOverride THEN override[s]
                                      ELSE 0]
    <3>1. running' = [want |-> task[t].want, got |-> got]
      BY <2>2 DEF Up
    <3>2. running'.want = task[t].want /\ running'.got = got
      BY <3>1
    <3>3. \A c \in Component : task[t].want[c] # 0 => task[t].overlay # NoOverride
      BY <1>8 DEF Delivers, NoOverride
    <3>4. \A s \in Slot : s \in Root \/ s \in Component
      BY DEF Slot
    <3>5. ASSUME NEW s \in Slot, task[t].want[s] # 0 PROVE got[s] = task[t].want[s]
      <4>1. CASE s \in Root
        BY <4>1, <3>5, <1>8 DEF Delivers
      <4>2. CASE s \notin Root
        BY <4>2, <3>3, <3>4, <3>5, <1>8 DEF Delivers
      <4> QED BY <4>1, <4>2
    <3> HIDE DEF got
    <3> QED BY <3>2, <3>5 DEF DeliveredValues
  <2> QED BY <2>1, <2>2
<1> QED BY <1>5, <1>6, <1>7, <1>9 DEF BundleInv

LEMMA BundleStep ==
  ASSUME OneTask PROVE BundleInv /\ [EnvNext]_envVars => BundleInv'
<1> SUFFICES ASSUME BundleInv, [EnvNext]_envVars PROVE BundleInv'
  OBVIOUS
<1>1. EnvTypeOK'
  BY EnvStepType DEF BundleInv
<1>2. CASE UNCHANGED envVars
  <2>1. UNCHANGED <<hostVars, running, task>>
    BY <1>2 DEF envVars
  <2> QED BY <2>1, <1>1, QuietKeeps
<1>3. ASSUME NEW t \in Task, HostStepOf(t) PROVE BundleInv'
  <2>1. CASE \/ BeginApply(t, "apply") \/ BeginApply(t, "start") \/ BeginRedeploy(t)
             \/ Resolve(t) \/ Fail(t) \/ Inspect(t) \/ Verify(t) \/ Gate(t) \/ Launch(t)
    BY <2>1, <1>1, ReadersKeepBundle
  <2>2. CASE \/ Withdraw(t) \/ EraseFiles(t) \/ MergeDotenv(t) \/ WriteFile(t)
             \/ ListFiles(t) \/ WriteOverride(t)
    BY <2>2, <1>1, WritersKeepBundle
  <2>3. CASE Up(t)
    BY <2>3, <1>1, UpKeepsBundle
  <2> QED BY <2>1, <2>2, <2>3, <1>3 DEF HostStepOf
<1> QED BY <1>1, <1>2, <1>3, WriterKeepsBundle, LoseFileKeepsBundle, EnvCases

LEMMA BundleInvariance == ASSUME OneTask PROVE EnvSpec => []BundleInv
BY BundleInit, BundleStep, PTL DEF EnvSpec

\* While one request at a time uses the host, an override that is there has its
\* manifest and its files, for any number of components, writers and failures.
THEOREM OverrideIsWholeHolds == ASSUME OneTask PROVE EnvSpec => []OverrideIsWhole
<1>1. BundleInv => OverrideIsWhole
  BY DEF BundleInv
<1> QED BY <1>1, BundleInvariance, PTL

\* The same request starts containers with every value it wanted.
THEOREM DeliveredValuesHolds == ASSUME OneTask PROVE EnvSpec => []DeliveredValues
<1>1. BundleInv => DeliveredValues
  BY DEF BundleInv
<1> QED BY <1>1, BundleInvariance, PTL
=============================================================================
