---------------------------- MODULE ComposeRuns ----------------------------
(***************************************************************************)
(* The Compose endpoints of GroundControl and the host they act on:        *)
(* POST /api/projects/compose (redeploy, source-deploy), its GET .../log   *)
(* companion, POST .../build-publish, POST .../release and POST .../image. *)
(*                                                                         *)
(* A run is one such request.  Runs of the same project slug share one log *)
(* file on the host, /tmp/gc-redeploy-<slug>.log, whose last control       *)
(* marker is the only evidence a detached redeploy leaves, and one managed *)
(* image override file, from which Compose takes the images to start; no   *)
(* lock guards either.                                                     *)
(* On the local server the recreation is a detached host process that      *)
(* outlives the request and the GroundControl process itself.              *)
(***************************************************************************)
EXTENDS Naturals, Sequences, FiniteSets

CONSTANTS
  Slug,         (* project slugs                                           *)
  WorkerRun,    (* identities of the runs the agent worker may request     *)
  OperatorRun,  (* identities of the runs an operator requests from the UI *)
  Revision,     (* image revisions a build can produce                     *)
  None,         (* no value; as an image: what the Compose file names      *)
  Reader,       (* requests of the log endpoint that are open at once      *)
  Own,          (* the one among them that is the agent worker's           *)
  LocalVps,     (* TRUE: the active server is local, redeploys detach      *)
  MaxFaults,    (* bound on failed calls, writes and inserts               *)
  MaxCrashes    (* bound on process crashes and host restarts              *)

Run == WorkerRun \cup OperatorRun

ASSUME ComposeAssumption ==
  /\ WorkerRun \subseteq Nat
  /\ OperatorRun \subseteq Nat
  /\ None \notin Slug \cup Run \cup Revision
  /\ "unclear" \notin Revision \cup {None}
  /\ Own \in Reader
  /\ LocalVps \in BOOLEAN
  /\ MaxFaults \in Nat
  /\ MaxCrashes \in Nat

VARIABLES
  run,          (* the requests, the host process each started, the answer *)
  log,          (* the shared log file of each slug                        *)
  rows,         (* DeploymentLog and Deployment rows, in creation order    *)
  reader,       (* the log requests between their awaits                   *)
  override,     (* the managed image override file of each slug            *)
  serving,      (* the image the containers of each slug were made from    *)
  faults,       (* failed calls, writes and inserts so far                 *)
  crashes,      (* process crashes and host restarts so far                *)
  intended      (* history: the override last asked for, by a release or an
                   operator; "unclear" after writes that met or broke off  *)

hostVars == <<run, log, override, serving, crashes, intended>>
composeVars == <<hostVars, rows, reader, faults>>

-----------------------------------------------------------------------------
Image == Revision \cup {None}
Verdict == {"none", "success", "failed"}

RunRecord ==
  [kind    : {"redeploy", "build", "sandbox", "pin", "edit"},
   slug    : Slug,
   stage   : {"accepted", "resolved", "deploying", "recording",
              "building", "saved", "written", "answered", "lost"},
   process : {"none", "executing", "recreated", "ended"},
   verdict : Verdict,
   answer  : {"none", "ok", "detached", "failed"},
   image   : Image,   \* expected by verification, built, or to be written
   saved   : Image]   \* the override a build or edit read and may restore

Unused == [kind |-> "none", slug |-> None, stage |-> "unused",
           process |-> "none", verdict |-> "none", answer |-> "none",
           image |-> None, saved |-> None]

LogRecord == [exists : BOOLEAN, marker : Verdict, stale : BOOLEAN]
RowRecord == [run : Run, slug : Slug, status : {"running", "success", "failed"}]

\* A log request that has read the log, has looked up the row, has answered.
Idle == [pc |-> "idle", slug |-> None, verdict |-> "none", row |-> 0]
Outcome == {"success", "failed"}
ReaderRecord ==
  {Idle}
  \cup [pc : {"observed"}, slug : Slug, verdict : Outcome, row : {0}]
  \cup [pc : {"found"}, slug : Slug, verdict : Outcome, row : Nat]
  \cup [pc : {"answered"}, slug : Slug, verdict : Outcome \cup {"running"}, row : {0}]

RowHeld(p) ==
  reader[p].pc = "found" =>
    reader[p].row \in DOMAIN rows /\ rows[reader[p].row].slug = reader[p].slug

ComposeTypeOK ==
  /\ run \in [Run -> RunRecord \cup {Unused}]
  /\ log \in [Slug -> LogRecord]
  /\ rows \in Seq(RowRecord)
  /\ reader \in [Reader -> ReaderRecord]
  /\ \A p \in Reader : RowHeld(p)
  /\ override \in [Slug -> Image]
  /\ serving \in [Slug -> Image]
  /\ intended \in [Slug -> Image \cup {"unclear"}]
  /\ faults \in 0..MaxFaults
  /\ crashes \in 0..MaxCrashes

ComposeInit ==
  /\ run = [r \in Run |-> Unused]
  /\ log = [s \in Slug |-> [exists |-> FALSE, marker |-> "none", stale |-> FALSE]]
  /\ rows = <<>>
  /\ reader = [p \in Reader |-> Idle]
  /\ override = [s \in Slug |-> None]
  /\ serving = [s \in Slug |-> None]
  /\ intended = [s \in Slug |-> None]
  /\ faults = 0
  /\ crashes = 0

-----------------------------------------------------------------------------
(* Helpers.                                                                *)

\* The next request identity of a pool; identities are used in order.
Fresh(r, pool) ==
  /\ r \in pool
  /\ run[r].stage = "unused"
  /\ \A q \in pool : q < r => run[q].stage # "unused"

Fault == faults < MaxFaults /\ faults' = faults + 1
CrashCounted == crashes < MaxCrashes /\ crashes' = crashes + 1

\* Mutant of Reading: silence is never taken for failure.
ReadingNeverStalls(s) == IF log[s].marker # "none" THEN log[s].marker ELSE "running"

\* What a reader of the log concludes: the last marker, else "failed" once the
\* file has not been written for ten minutes, else still "running".  A missing
\* file reads as empty with modification time zero, so it is never stalled.
Reading(s) ==
  IF log[s].marker # "none" THEN log[s].marker
  ELSE IF log[s].exists /\ log[s].stale THEN "failed"
  ELSE "running"

EmptyLog == [exists |-> TRUE, marker |-> "none", stale |-> FALSE]

\* A line without a marker was appended; the previous marker, if any, remains
\* the last one.
Touched(s) == [log EXCEPT ![s] = [exists |-> TRUE, marker |-> @.marker, stale |-> FALSE]]

\* A control marker was appended and is now the last one.
Marked(s, v) == [log EXCEPT ![s] = [exists |-> TRUE, marker |-> v, stale |-> FALSE]]

Answered(r, a) == [run EXCEPT ![r].stage = "answered", ![r].answer = a]

-----------------------------------------------------------------------------
(* POST /api/projects/compose, action "redeploy" or "source-deploy": the   *)
(* two differ in where the images come from, not in their control.         *)

\* The log of the slug is truncated before anything else happens, whoever is
\* still writing to it or waiting for its verdict.
Accept(r, s) ==
  /\ run' = [run EXCEPT ![r] = [Unused EXCEPT !.kind = "redeploy", !.slug = s,
                                              !.stage = "accepted"]]
  /\ log' = [log EXCEPT ![s] = EmptyLog]
  /\ UNCHANGED <<rows, reader, override, serving, faults, crashes, intended>>

\* The truncation fails; the failure handler may still manage to append its
\* marker to whatever the file held.
AcceptFails(r, s) ==
  /\ Fault
  /\ run' = [run EXCEPT ![r] = [Unused EXCEPT !.kind = "redeploy", !.slug = s,
                                              !.stage = "answered",
                                              !.answer = "failed"]]
  /\ log' \in {log, Marked(s, "failed")}
  /\ UNCHANGED <<rows, reader, override, serving, crashes, intended>>

\* Source sync, environment reconciliation and validation of the effective
\* Compose configuration, which fixes the images verification will expect.
Resolve(r) ==
  /\ run[r].stage = "accepted"
  /\ run' = [run EXCEPT ![r].stage = "resolved",
                        ![r].image = override[run[r].slug]]
  /\ log' = Touched(run[r].slug)
  /\ UNCHANGED <<rows, reader, override, serving, faults, crashes, intended>>

\* Build or pull succeeded and the recreation is started: detached on the
\* local server, inside the request on a remote one.
StartRecreate(r) ==
  /\ run[r].stage = "resolved"
  /\ run' = [run EXCEPT ![r].stage = IF LocalVps THEN "recording" ELSE "deploying",
                        ![r].process = "executing"]
  /\ log' = Touched(run[r].slug)
  /\ UNCHANGED <<rows, reader, override, serving, faults, crashes, intended>>

\* The host went away under the process.
Killed(r) == run[r].process = "ended" /\ run[r].verdict = "none"

\* The failure handler appends a line and then its marker; either may fail.
FailureEvidence(r) == {log, Touched(run[r].slug), Marked(run[r].slug, "failed")}

\* Any phase throws.  After the launch of a detached process this answers
\* "failed" although the process goes on.
FailRun(r) ==
  /\ run[r].stage \in {"accepted", "resolved", "deploying", "recording"}
  /\ run' = Answered(r, "failed")
  /\ \/ /\ run[r].stage \in {"accepted", "resolved"}
        /\ log' = Marked(run[r].slug, "failed")
        /\ UNCHANGED faults
     \/ /\ Killed(r)
        /\ log' \in FailureEvidence(r)
        /\ UNCHANGED faults
     \/ /\ Fault
        /\ log' \in FailureEvidence(r)
  /\ UNCHANGED <<rows, reader, override, serving, crashes, intended>>

-----------------------------------------------------------------------------
(* The host process of a recreation.                                       *)

\* docker compose up --force-recreate, from the override as it is now.
Recreate(r) ==
  /\ run[r].process = "executing"
  /\ run' = [run EXCEPT ![r].process = "recreated"]
  /\ serving' = [serving EXCEPT ![run[r].slug] = override[run[r].slug]]
  /\ log' = IF LocalVps THEN Touched(run[r].slug) ELSE log
  /\ UNCHANGED <<rows, reader, override, faults, crashes, intended>>

\* Mutant of EndProcess: the exit status is lost before the marker is written.
EndProcessBlindly(r, v) ==
  /\ run' = [run EXCEPT ![r].process = "ended", ![r].verdict = v]
  /\ log' = IF LocalVps THEN Marked(run[r].slug, "success") ELSE log
  /\ UNCHANGED <<rows, reader, override, faults, crashes, intended>>

\* The process is over.  Only the detached script writes its own marker.
EndProcess(r, v) ==
  /\ run' = [run EXCEPT ![r].process = "ended", ![r].verdict = v]
  /\ log' = IF LocalVps THEN Marked(run[r].slug, v) ELSE log
  /\ UNCHANGED <<rows, reader, override, faults, crashes, intended>>

RecreateFails(r) ==
  /\ run[r].process = "executing"
  /\ serving' \in {serving, [serving EXCEPT ![run[r].slug] = override[run[r].slug]]}
  /\ EndProcess(r, "failed")

\* Every service must run the expected image; then the public endpoint is
\* probed, which may fail for reasons of its own.
Verify(r) ==
  /\ run[r].process = "recreated"
  /\ LocalVps \/ run[r].stage = "deploying"
  /\ \E v \in {"success", "failed"} :
        /\ v = "success" => serving[run[r].slug] = run[r].image
        /\ EndProcess(r, v)
  /\ UNCHANGED serving

\* A synchronous recreation returned to the request, which writes the marker.
RemoteEnded(r) ==
  /\ run[r].stage = "deploying"
  /\ run[r].verdict # "none"
  /\ run' = [run EXCEPT ![r].stage = "recording"]
  /\ log' = Marked(run[r].slug, run[r].verdict)
  /\ UNCHANGED <<rows, reader, override, serving, faults, crashes, intended>>

\* The release rows are created after the launch and then the request answers.
\* A failing insert is swallowed.
Record(r) ==
  /\ run[r].stage = "recording"
  /\ LET row == [run |-> r, slug |-> run[r].slug,
                 status |-> IF LocalVps THEN "running"
                            ELSE IF run[r].verdict = "success" THEN "success" ELSE "failed"]
     IN \/ rows' = Append(rows, row) /\ UNCHANGED faults
        \/ Fault /\ UNCHANGED rows
  /\ run' = Answered(r, IF LocalVps THEN "detached"
                        ELSE IF run[r].verdict = "success" THEN "ok" ELSE "failed")
  /\ UNCHANGED <<log, reader, override, serving, crashes, intended>>

-----------------------------------------------------------------------------
(* GET /api/projects/compose/log: read the log, look up the newest row     *)
(* still in flight, update that row.  The two tables are advanced one      *)
(* after the other in the same way; a row of "rows" stands for either.     *)

\* The request is over; only the worker waits for what it says.
Reported(p, s, v) ==
  [reader EXCEPT ![p] = IF p # Own THEN Idle
                        ELSE [pc |-> "answered", slug |-> s, verdict |-> v, row |-> 0]]

\* The log and its age, two commands at once: a truncation between them could
\* only make a fresh log look stalled.  A log still running ends the request.
LogRead(p, s) ==
  /\ reader[p].pc = "idle"
  /\ reader' = IF Reading(s) = "running" THEN Reported(p, s, "running")
               ELSE [reader EXCEPT ![p] = [pc |-> "observed", slug |-> s,
                                           verdict |-> Reading(s), row |-> 0]]
  /\ UNCHANGED <<hostVars, rows, faults>>

InFlight(s) == {i \in DOMAIN rows : rows[i].slug = s /\ rows[i].status = "running"}

RowFound(p) ==
  /\ reader[p].pc = "observed"
  /\ LET open == InFlight(reader[p].slug)
     IN reader' = IF open = {} THEN Reported(p, reader[p].slug, reader[p].verdict)
                  ELSE [reader EXCEPT ![p].pc = "found",
                          ![p].row = CHOOSE i \in open : \A j \in open : j <= i]
  /\ UNCHANGED <<hostVars, rows, faults>>

\* The row is updated by its identity, whatever became of it since the lookup.
RowSettled(p) ==
  /\ reader[p].pc = "found"
  /\ rows' = [rows EXCEPT ![reader[p].row].status = reader[p].verdict]
  /\ reader' = Reported(p, reader[p].slug, reader[p].verdict)
  /\ UNCHANGED <<hostVars, faults>>

ReadStep(p) == RowFound(p) \/ RowSettled(p)

-----------------------------------------------------------------------------
(* POST .../build-publish, POST .../release and POST .../image, which       *)
(* write the override.                                                     *)

\* The writers between their read of the override of s and their last write.
Holders(s) == {r \in Run : run[r].stage \in {"saved", "written"} /\ run[r].slug = s}

Unclear(s) == [intended EXCEPT ![s] = "unclear"]

\* A build or an edit reads the file it will put back.  A read that fails is
\* taken for an empty file.
OverrideRead(r, kind, s, image) ==
  /\ \E found \in {override[s], None} :
       /\ IF found = override[s] THEN UNCHANGED faults ELSE Fault
       /\ run' = [run EXCEPT ![r] = [Unused EXCEPT !.kind = kind, !.slug = s,
                     !.stage = "saved", !.image = image, !.saved = found]]
       /\ intended' = IF Holders(s) # {} \/ found # override[s] THEN Unclear(s) ELSE intended
  /\ UNCHANGED <<log, rows, reader, override, serving, crashes>>

\* Its own content replaces the file.  A write that fails may have replaced it
\* all the same, and nobody puts the old one back.
OverrideWritten(r) ==
  /\ run[r].stage = "saved"
  /\ LET own == [override EXCEPT ![run[r].slug] = run[r].image]
     IN \/ /\ run' = [run EXCEPT ![r].stage = "written"]
           /\ override' = own
           /\ UNCHANGED <<faults, intended>>
        \/ /\ Fault
           /\ run' = Answered(r, "failed")
           /\ override' \in {override, own}
           /\ intended' = Unclear(run[r].slug)
  /\ UNCHANGED <<log, rows, reader, serving, crashes>>

\* The build writes its own images into the shared override for the duration
\* of the build.
BuildStarts(r, s, image) == OverrideRead(r, "build", s, image)

\* The docker-agentic builder builds off the host and leaves the override alone.
SandboxStarts(r, s, image) ==
  /\ run' = [run EXCEPT ![r] = [Unused EXCEPT !.kind = "sandbox", !.slug = s,
                !.stage = "building", !.image = image]]
  /\ UNCHANGED <<log, rows, reader, override, serving, faults, crashes, intended>>

SandboxEnds(r) ==
  /\ run[r].stage = "building"
  /\ \E a \in {"ok", "failed"} : run' = Answered(r, a)
  /\ UNCHANGED <<log, rows, reader, override, serving, faults, crashes, intended>>

Restored(r) == [override EXCEPT ![run[r].slug] = run[r].saved]

\* Mutant of BuildEnds: only a successful build puts the override back.
BuildEndsRestoring(r) ==
  /\ run[r].stage = "written" /\ run[r].kind = "build"
  /\ \/ /\ run' = Answered(r, "ok")
        /\ override' = Restored(r)
     \/ /\ run' = Answered(r, "failed")
        /\ UNCHANGED override
  /\ UNCHANGED <<log, rows, reader, serving, faults, crashes, intended>>

\* Success or failure, the finally block puts the saved override back; if even
\* that fails the request answers "failed".
BuildEnds(r) ==
  /\ run[r].stage = "written" /\ run[r].kind = "build"
  /\ \/ /\ \E a \in {"ok", "failed"} : run' = Answered(r, a)
        /\ override' = Restored(r)
        /\ UNCHANGED <<faults, intended>>
     \/ /\ Fault
        /\ run' = Answered(r, "failed")
        /\ intended' = Unclear(run[r].slug)
        /\ UNCHANGED override
  /\ UNCHANGED <<log, rows, reader, serving, crashes>>

\* The operator's image: refused before it is written, accepted by Compose, or
\* rejected and replaced by what was read; a failing replacement is swallowed.
EditEnds(r) ==
  /\ run[r].kind = "edit"
  /\ LET s == run[r].slug
     IN \/ /\ run[r].stage = "saved"
           /\ run' = Answered(r, "failed")
           /\ UNCHANGED <<override, faults, intended>>
        \/ /\ run[r].stage = "written"
           /\ run' = Answered(r, "ok")
           /\ intended' = IF intended[s] = "unclear" THEN intended
                           ELSE [intended EXCEPT ![s] = run[r].image]
           /\ UNCHANGED <<override, faults>>
        \/ /\ run[r].stage = "written"
           /\ run' = Answered(r, "failed")
           /\ override' = Restored(r)
           /\ UNCHANGED <<faults, intended>>
        \/ /\ run[r].stage = "written"
           /\ Fault
           /\ run' = Answered(r, "failed")
           /\ intended' = Unclear(s)
           /\ UNCHANGED override
  /\ UNCHANGED <<log, rows, reader, serving, crashes>>

\* The build is refused before it touched the host.
BuildRefused(r, s, image) ==
  /\ run' = [run EXCEPT ![r] = [Unused EXCEPT !.kind = "build", !.slug = s,
                !.stage = "answered", !.answer = "failed", !.image = image]]
  /\ UNCHANGED <<log, rows, reader, override, serving, faults, crashes, intended>>

\* The release endpoint only writes the pin.  The environment update that
\* follows the write may throw: the pin stays and the answer is "failed".
Pin(r, s, image) ==
  /\ \E a \in {"ok", "failed"}, written \in BOOLEAN :
        /\ a = "ok" => written
        /\ run' = [run EXCEPT ![r] = [Unused EXCEPT !.kind = "pin", !.slug = s,
                      !.stage = "answered", !.answer = a, !.image = image]]
        /\ override' = IF written THEN [override EXCEPT ![s] = image] ELSE override
        /\ intended' = IF ~written THEN intended
                        ELSE IF Holders(s) # {} THEN Unclear(s)
                        ELSE [intended EXCEPT ![s] = image]
  /\ UNCHANGED <<log, rows, reader, serving, faults, crashes>>

-----------------------------------------------------------------------------
(* Time, crashes and the operator.                                         *)

\* Ten minutes without a new line.
Stall(s) ==
  /\ log[s].exists /\ ~log[s].stale /\ log[s].marker = "none"
  /\ log' = [log EXCEPT ![s].stale = TRUE]
  /\ UNCHANGED <<run, rows, reader, override, serving, faults, crashes, intended>>

Open(r) == run[r].stage \notin {"unused", "answered", "lost"}

\* GroundControl dies: its open requests are gone, host processes go on.
RequestsLost == [r \in Run |-> IF Open(r) THEN [run[r] EXCEPT !.stage = "lost"] ELSE run[r]]

\* What a writer had replaced stays.
WritesLost == [s \in Slug |-> IF Holders(s) # {} THEN "unclear" ELSE intended[s]]

ServerCrash ==
  /\ CrashCounted
  /\ run' = RequestsLost
  /\ reader' = [p \in Reader |-> Idle]
  /\ intended' = WritesLost
  /\ UNCHANGED <<log, rows, override, serving, faults>>

\* The host restarts: its processes are killed and /tmp may be cleared.  On
\* the local server GroundControl goes down with it.
HostReboot ==
  /\ CrashCounted
  /\ run' = [r \in Run |->
               LET q == IF LocalVps THEN RequestsLost[r] ELSE run[r]
               IN IF q.process \in {"executing", "recreated"}
                  THEN [q EXCEPT !.process = "ended"] ELSE q]
  /\ log' \in {log, [s \in Slug |-> [exists |-> FALSE, marker |-> "none", stale |-> FALSE]]}
  /\ IF LocalVps
     THEN reader' = [p \in Reader |-> Idle] /\ intended' = WritesLost
     ELSE UNCHANGED <<reader, intended>>
  /\ UNCHANGED <<rows, override, serving, faults>>

\* Steps of requests and host processes that need no caller.
RunStep(r) ==
  \/ Resolve(r)
  \/ StartRecreate(r)
  \/ FailRun(r)
  \/ RemoteEnded(r)
  \/ Record(r)
  \/ SandboxEnds(r)
  \/ OverrideWritten(r)
  \/ BuildEnds(r)
  \/ EditEnds(r)

ProcessStep(r) ==
  \/ Recreate(r)
  \/ RecreateFails(r)
  \/ Verify(r)

\* Actions "start" and "recreate" of the endpoint: containers from the override
\* as it is now, outside the log and the verification of redeploys.
ComposeUp(s) ==
  /\ serving' = [serving EXCEPT ![s] = override[s]]
  /\ UNCHANGED <<run, log, rows, reader, override, faults, crashes, intended>>

\* An operator presses Redeploy or saves another image; opening the live log
\* is LogRead.
OperatorRedeploy(r, s) ==
  /\ Fresh(r, OperatorRun)
  /\ Accept(r, s) \/ AcceptFails(r, s)

OperatorEdit(r, s, image) ==
  /\ Fresh(r, OperatorRun)
  /\ OverrideRead(r, "edit", s, image)

=============================================================================
