------------------------- MODULE ManagedEnvironment -------------------------
(***************************************************************************)
(* A deployment's managed environment: the vault of versioned values in    *)
(* the database, the artifacts a shell script materialises on the host     *)
(* (.env, one file per component, the manifest of those files and, last,   *)
(* the Compose override), and the requests that materialise, start and     *)
(* redeploy.  Requests interleave at every await, with each other and with *)
(* the lines of a script that is running; each may fail at any of them.    *)
(*                                                                         *)
(* A slot is a managed key: a root key of the deployment, or a component   *)
(* (its keys live and die together here).  A value is the number of the    *)
(* version that set it, 0 for none.                                        *)
(***************************************************************************)
EXTENDS Naturals, Sequences

CONSTANTS
  Root,           (* deployment-wide keys                                   *)
  Component,      (* Compose services that may have values of their own     *)
  Writer,         (* requests that may change the vault at a time           *)
  Task,           (* requests that may materialise, start, redeploy         *)
  MaxVersion      (* bound on the versions of a slot                        *)

Slot == Root \cup Component

ASSUME EnvAssumption ==
  /\ Slot # {}
  /\ Root \cap Component = {}
  /\ MaxVersion \in Nat

VARIABLES
  row,            (* DeploymentEnvValue                                     *)
  history,        (* DeploymentEnvValueVersion: the states, by version      *)
  writer,         (* control state of the requests that change the vault    *)
  dotenv, file, manifest, override,          \* on the host
  lost,           (* component files a host has ever dropped by itself      *)
  task,           (* control state of the requests that use the host        *)
  running         (* history: the last up: its request wanted, it delivered *)

vaultVars == <<row, history, writer>>
hostVars == <<dotenv, file, manifest, override, lost>>
envVars == <<vaultVars, hostVars, task, running>>

Env == [Slot -> Nat]
NoEnv == [s \in Slot |-> 0]

Doing == {"idle", "inspecting", "resolving", "withdrawing", "erasing", "merging",
          "filing", "listing", "overriding", "verifying", "gating", "launching", "opening"}

WriterRecord ==
  [at : {"idle", "committing", "numbering", "marking", "dropping"},
   slot : Slot, version : Nat]

\* What it is to deliver (want) and what it puts on the host (put), which
\* differ when values change between the two reads.
TaskRecord ==
  [at : Doing, kind : {"apply", "start", "redeploy"}, want : Env, put : Env,
   removed : SUBSET Root, left : SUBSET Component, retried : BOOLEAN, again : BOOLEAN,
   overlay : [Component -> Nat]]

EnvTypeOK ==
  /\ row \in Env
  /\ history \in [Slot -> Seq({"active", "deleted"})]
  /\ writer \in [Writer -> WriterRecord]
  /\ dotenv \in [Root -> Nat]
  /\ file \in [Component -> Nat]
  /\ manifest \in SUBSET Component
  /\ override \in [Component -> Nat]
  /\ lost \in SUBSET Component
  /\ task \in [Task -> TaskRecord]
  /\ running \in [want : Env, got : Env]

NoWrite == [at |-> "idle", slot |-> CHOOSE s \in Slot : TRUE, version |-> 0]
NoOverride == [c \in Component |-> 0]
NoTask == [at |-> "idle", kind |-> "apply", want |-> NoEnv, put |-> NoEnv,
           removed |-> {}, left |-> {}, retried |-> FALSE, again |-> FALSE,
           overlay |-> NoOverride]

EnvInit ==
  /\ row = NoEnv
  /\ history = [s \in Slot |-> <<>>]
  /\ writer = [w \in Writer |-> NoWrite]
  /\ dotenv = [k \in Root |-> 0]
  /\ file = [c \in Component |-> 0]
  /\ manifest = {}
  /\ override = NoOverride
  /\ lost = {}
  /\ task = [t \in Task |-> NoTask]
  /\ running = [want |-> NoEnv, got |-> NoEnv]

-----------------------------------------------------------------------------
(* The vault.  @@unique([profileId, component, key, version]) makes a      *)
(* writer throw whose version number was taken meanwhile.                  *)

ToWriter(w, record) == writer' = [writer EXCEPT ![w] = record]

NextVersion(s) == Len(history[s]) + 1

\* setLocalEnvValues: the newest version is read, ...
BeginSet(w, s) ==
  /\ writer[w].at = "idle" /\ NextVersion(s) <= MaxVersion
  /\ ToWriter(w, [at |-> "committing", slot |-> s, version |-> NextVersion(s)])
  /\ UNCHANGED <<row, history, hostVars, task, running>>

\* Mutant of CommitSet: a version number may be used twice.
CommitAnyway(w) ==
  /\ writer[w].at = "committing"
  /\ LET s == writer[w].slot
         v == writer[w].version
     IN /\ history' = IF v = NextVersion(s) THEN [history EXCEPT ![s] = Append(@, "active")]
                      ELSE history
        /\ row' = [row EXCEPT ![s] = v]
  /\ ToWriter(w, NoWrite)
  /\ UNCHANGED <<hostVars, task, running>>

\* ... then one transaction creates the next and updates the row.
CommitSet(w) ==
  /\ writer[w].at = "committing"
  /\ LET s == writer[w].slot
         v == writer[w].version
     IN IF v = NextVersion(s)
        THEN /\ history' = [history EXCEPT ![s] = Append(@, "active")]
             /\ row' = [row EXCEPT ![s] = v]
        ELSE UNCHANGED <<row, history>>
  /\ ToWriter(w, NoWrite)
  /\ UNCHANGED <<hostVars, task, running>>

\* deleteLocalEnvValues: a row there is gets a deletion marker, in steps of
\* their own; then rows are deleted, there or not.
BeginDelete(w, s) ==
  /\ writer[w].at = "idle"
  /\ ToWriter(w, [at |-> IF row[s] # 0 THEN "numbering" ELSE "dropping",
                  slot |-> s, version |-> 0])
  /\ UNCHANGED <<row, history, hostVars, task, running>>

NumberMarker(w) ==
  /\ writer[w].at = "numbering" /\ NextVersion(writer[w].slot) <= MaxVersion
  /\ ToWriter(w, [writer[w] EXCEPT !.at = "marking", !.version = NextVersion(writer[w].slot)])
  /\ UNCHANGED <<row, history, hostVars, task, running>>

MarkDeleted(w) ==
  /\ writer[w].at = "marking"
  /\ IF writer[w].version = NextVersion(writer[w].slot)
     THEN /\ history' = [history EXCEPT ![writer[w].slot] = Append(@, "deleted")]
          /\ ToWriter(w, [writer[w] EXCEPT !.at = "dropping"])
     ELSE ToWriter(w, NoWrite) /\ UNCHANGED history
  /\ UNCHANGED <<row, hostVars, task, running>>

DropRow(w) ==
  /\ writer[w].at = "dropping"
  /\ row' = [row EXCEPT ![writer[w].slot] = 0]
  /\ ToWriter(w, NoWrite)
  /\ UNCHANGED <<history, hostVars, task, running>>

AbortWrite(w) ==
  /\ writer[w].at # "idle"
  /\ ToWriter(w, NoWrite)
  /\ UNCHANGED <<row, history, hostVars, task, running>>

-----------------------------------------------------------------------------
(* Materialisation: resolve, then one script on the host.                  *)

Goto(t, stage) == task' = [task EXCEPT ![t].at = stage]

\* Mutant of Removed: a key of any scope counts as one of the deployment.
RemovedAnywhere ==
  {k \in Slot : history[k] # <<>> /\ history[k][Len(history[k])] = "deleted"}

\* getRemovedProfileKeysByScope, of root keys: the newest version is a marker.
Removed == {k \in Root : history[k] # <<>> /\ history[k][Len(history[k])] = "deleted"}

BeginApply(t, kind) ==
  /\ task[t].at = "idle"
  /\ task' = [task EXCEPT ![t] = [NoTask EXCEPT !.at = "resolving", !.kind = kind]]
  /\ UNCHANGED <<vaultVars, hostVars, running>>

\* resolveDeploymentEnv.
Resolve(t) ==
  /\ task[t].at = "resolving"
  /\ task' = [task EXCEPT ![t].at = "withdrawing", ![t].put = row, ![t].removed = Removed,
                          ![t].want = IF task[t].kind = "redeploy" /\ ~task[t].again
                                      THEN @ ELSE row]
  /\ UNCHANGED <<vaultVars, hostVars, running>>

\* Mutant of Withdraw: the override stays until its successor is there.
WithdrawLate(t) ==
  /\ task[t].at = "withdrawing"
  /\ manifest' = {}
  /\ Goto(t, "erasing")
  /\ UNCHANGED <<vaultVars, dotenv, file, override, lost, running>>

Withdraw(t) ==
  /\ task[t].at = "withdrawing"
  /\ override' = NoOverride
  /\ manifest' = {}
  /\ Goto(t, "erasing")
  /\ UNCHANGED <<vaultVars, dotenv, file, lost, running>>

\* find .groundcontrol/env -name '*.env' -delete.
EraseFiles(t) ==
  /\ task[t].at = "erasing"
  /\ file' = [c \in Component |-> 0]
  /\ Goto(t, "merging")
  /\ UNCHANGED <<vaultVars, dotenv, manifest, override, lost, running>>

Components(env) == {c \in Component : env[c] # 0}

\* Into .env: the values, over what is there without the removed keys.
MergeDotenv(t) ==
  /\ task[t].at = "merging"
  /\ dotenv' = [k \in Root |-> IF task[t].put[k] # 0 THEN task[t].put[k]
                               ELSE IF k \in task[t].removed THEN 0 ELSE dotenv[k]]
  /\ task' = [task EXCEPT ![t].at = "filing", ![t].left = Components(task[t].put)]
  /\ UNCHANGED <<vaultVars, file, manifest, override, lost, running>>

WriteFile(t) ==
  /\ task[t].at = "filing"
  /\ \E c \in task[t].left :
        /\ file' = [file EXCEPT ![c] = task[t].put[c]]
        /\ task' = [task EXCEPT ![t].left = @ \ {c}]
  /\ UNCHANGED <<vaultVars, dotenv, manifest, override, lost, running>>

\* What follows a successful materialisation.
Materialized(t) ==
  CASE task[t].kind = "apply" -> "idle"
    [] task[t].kind = "start" -> "launching"
    [] task[t].kind = "redeploy" -> IF task[t].again THEN "gating" ELSE "verifying"

ListFiles(t) ==
  /\ task[t].at = "filing" /\ task[t].left = {}
  /\ IF Components(task[t].put) = {}
     THEN Goto(t, Materialized(t)) /\ UNCHANGED manifest
     ELSE Goto(t, "overriding") /\ manifest' = Components(task[t].put)
  /\ UNCHANGED <<vaultVars, dotenv, file, override, lost, running>>

WriteOverride(t) ==
  /\ task[t].at = "overriding"
  /\ override' = [c \in Component |-> task[t].put[c]]
  /\ Goto(t, Materialized(t))
  /\ UNCHANGED <<vaultVars, dotenv, file, manifest, lost, running>>

\* An await throws, a line of the script fails, or either dies.  The first
\* failure of a redeploy's materialisation may be one it recovers from.
Fail(t) ==
  /\ task[t].at # "idle"
  /\ \/ Goto(t, "idle")
     \/ /\ task[t].kind = "redeploy" /\ ~task[t].retried /\ ~task[t].again
        /\ task[t].at \in {"resolving", "withdrawing", "erasing", "merging", "filing",
                           "overriding"}
        /\ task' = [task EXCEPT ![t].at = "resolving", ![t].retried = TRUE]
  /\ UNCHANGED <<vaultVars, hostVars, running>>

-----------------------------------------------------------------------------
(* Redeploy: reconcile, then Compose.                                      *)

BeginRedeploy(t) ==
  /\ task[t].at = "idle"
  /\ task' = [task EXCEPT ![t] = [NoTask EXCEPT !.at = "inspecting", !.kind = "redeploy",
                                                !.want = row]]
  /\ UNCHANGED <<vaultVars, hostVars, running>>

\* expectedManagedEnvironmentArtifacts: .env and the component files are asked
\* for the wanted values, manifest and override (if there are any) for equality.
Matches(env) ==
  /\ \A k \in Root : env[k] # 0 => dotenv[k] = env[k]
  /\ \A c \in Components(env) : file[c] = env[c]
  /\ Components(env) # {} =>
       manifest = Components(env) /\ override = [c \in Component |-> env[c]]

\* Mutant of Inspect: what is there counts, whatever it says.
InspectPresence(t) ==
  /\ task[t].at = "inspecting"
  /\ Goto(t, IF /\ \A k \in Root : task[t].want[k] # 0 => dotenv[k] # 0
                /\ \A c \in Components(task[t].want) : file[c] # 0 /\ override[c] # 0
             THEN "gating" ELSE "resolving")
  /\ UNCHANGED <<vaultVars, hostVars, running>>

Inspect(t) ==
  /\ task[t].at = "inspecting"
  /\ Goto(t, IF Matches(task[t].want) THEN "gating" ELSE "resolving")
  /\ UNCHANGED <<vaultVars, hostVars, running>>

\* ENV_VERIFICATION_FAILED ends the redeploy.
Verify(t) ==
  /\ task[t].at = "verifying"
  /\ Goto(t, IF Matches(task[t].want) THEN "gating" ELSE "idle")
  /\ UNCHANGED <<vaultVars, hostVars, running>>

\* The shell of buildManagedComposeInvocation: an override needs its manifest
\* and every file of it, or the command exits with 46.
GateOpen ==
  override # NoOverride => manifest # {} /\ \A c \in manifest : file[c] # 0

\* compose config; exit 46 is answered by one more materialisation.
Gate(t) ==
  /\ task[t].at = "gating"
  /\ IF GateOpen THEN Goto(t, "launching")
     ELSE IF task[t].again THEN Goto(t, "idle")
     ELSE task' = [task EXCEPT ![t].at = "resolving", ![t].again = TRUE]
  /\ UNCHANGED <<vaultVars, hostVars, running>>

\* compose up: the same gate, then Compose opens the files it was given.
Launch(t) ==
  /\ task[t].at = "launching"
  /\ task' = [task EXCEPT ![t].at = IF GateOpen THEN "opening" ELSE "idle",
                          ![t].overlay = override]
  /\ UNCHANGED <<vaultVars, hostVars, running>>

\* What Compose was given is there.
Openable(t) ==
  task[t].overlay # NoOverride =>
    override # NoOverride /\ \A c \in Components(override) : file[c] # 0

Up(t) ==
  /\ task[t].at = "opening"
  /\ running' = IF ~Openable(t) THEN running
                ELSE [want |-> task[t].want,
                      got |-> [s \in Slot |->
                                IF s \in Root THEN dotenv[s]
                                ELSE IF task[t].overlay # NoOverride THEN override[s]
                                ELSE 0]]
  /\ Goto(t, "idle")
  /\ UNCHANGED <<vaultVars, hostVars>>

\* A host restart, or anybody, removes a component's file.
LoseFile(c) ==
  /\ c \notin lost /\ file[c] # 0
  /\ file' = [file EXCEPT ![c] = 0]
  /\ lost' = lost \cup {c}
  /\ UNCHANGED <<vaultVars, dotenv, manifest, override, task, running>>

-----------------------------------------------------------------------------

EnvNext ==
  \/ \E w \in Writer :
        \/ CommitSet(w) \/ NumberMarker(w) \/ MarkDeleted(w) \/ DropRow(w) \/ AbortWrite(w)
        \/ \E s \in Slot : BeginSet(w, s) \/ BeginDelete(w, s)
  \/ \E t \in Task :
        \/ BeginApply(t, "apply") \/ BeginApply(t, "start") \/ BeginRedeploy(t)
        \/ Resolve(t) \/ Withdraw(t) \/ EraseFiles(t) \/ MergeDotenv(t) \/ WriteFile(t)
        \/ ListFiles(t) \/ WriteOverride(t) \/ Fail(t)
        \/ Inspect(t) \/ Verify(t) \/ Gate(t) \/ Launch(t) \/ Up(t)
  \/ \E c \in Component : LoseFile(c)

EnvSpec == EnvInit /\ [][EnvNext]_envVars

-----------------------------------------------------------------------------
(* Properties.                                                             *)

\* However writers overlap and wherever one dies, a value in force is the
\* newest one anybody set: only deletion markers may be newer.
RowIsNewestActive ==
  \A s \in Slot : row[s] # 0 =>
    /\ row[s] \in DOMAIN history[s] /\ history[s][row[s]] = "active"
    /\ \A v \in DOMAIN history[s] : v > row[s] => history[s][v] = "deleted"

\* While one request at a time uses the host, Compose never sees half a bundle:
\* an override that is there has its manifest, and the files it names have its
\* values, unless the host itself dropped one.
OverrideIsWhole ==
  override # NoOverride =>
    /\ manifest = Components(override)
    /\ \A c \in manifest : file[c] = override[c] \/ (file[c] = 0 /\ c \in lost)

\* The same requests: containers get every value the redeploy that recreated
\* them had resolved, although values change while it runs.
DeliveredValues ==
  \A s \in Slot : running.want[s] # 0 => running.got[s] = running.want[s]

\* Unless the host itself dropped one, a run that passed its gate still finds the
\* files it was given.
GatedRunFindsFiles ==
  lost = {} =>
    \A t \in Task : task[t].at = "opening" =>
      \A c \in Components(task[t].overlay) : file[c] # 0

=============================================================================
