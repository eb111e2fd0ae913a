------------------------- MODULE ComposeRunsProofs -------------------------
(***************************************************************************)
(* Every Compose request, host step and crash keeps the state of           *)
(* ComposeRuns well formed.                                                *)
(***************************************************************************)
EXTENDS ComposeRuns, TLAPS, SequenceTheorems, FiniteSetTheorems

\* The requests that read the override before they write it.
Kind == {"build", "edit"}

\* The actions of ComposeRuns, for any caller.
ComposeAction ==
  \/ \E r \in Run : RunStep(r) \/ ProcessStep(r)
  \/ \E r \in Run, s \in Slug :
        \/ Accept(r, s)
        \/ AcceptFails(r, s)
        \/ \E image \in Image :
              \/ \E kind \in Kind : OverrideRead(r, kind, s, image)
              \/ SandboxStarts(r, s, image)
              \/ BuildRefused(r, s, image)
              \/ Pin(r, s, image)
  \/ \E p \in Reader : ReadStep(p) \/ \E s \in Slug : LogRead(p, s)
  \/ \E s \in Slug : Stall(s) \/ ComposeUp(s)
  \/ ServerCrash
  \/ HostReboot

-----------------------------------------------------------------------------
\* A finite set of numbers has a greatest one.
LEMMA GreatestExists ==
  ASSUME NEW S \in SUBSET Nat, IsFiniteSet(S), S # {}
  PROVE  \E i \in S : \A j \in S : j <= i
<1> DEFINE From(j) == {i \in S : j <= i}
           T == {From(j) : j \in S}
           R == StrictSubsetOrdering(S)
<1>1. IsWellFoundedOn(R, FiniteSubsetsOf(S))
  BY FS_StrictSubsetOrderingWellFounded
<1>2. T \subseteq FiniteSubsetsOf(S)
  <2> SUFFICES ASSUME NEW j \in S PROVE From(j) \in FiniteSubsetsOf(S)
    OBVIOUS
  <2>1. From(j) \subseteq S /\ IsFiniteSet(From(j))
    BY FS_Subset
  <2> QED BY <2>1 DEF FiniteSubsetsOf
<1>3. T # {}
  OBVIOUS
<1>4. PICK x \in T : \A y \in T : <<y, x>> \notin R
  <2> HIDE DEF T, R
  <2> QED BY <1>1, <1>2, <1>3, WFMin
<1>5. PICK i \in S : x = From(i)
  OBVIOUS
<1>6. ASSUME NEW j \in S, ~(j <= i) PROVE FALSE
  <2>0. i \in Nat /\ j \in Nat /\ i < j
    BY <1>6
  <2>1. i \in From(i) /\ i \notin From(j)
    BY <2>0
  <2>3. From(j) \subseteq From(i)
    <3>1. \A k \in S : j <= k => i <= k
      BY <2>0
    <3> QED BY <3>1
  <2>2. <<From(j), From(i)>> \in R
    BY <2>1, <2>3 DEF StrictSubsetOrdering
  <2> QED BY <2>2, <1>4, <1>5
<1> QED BY <1>6

\* So there is a newest row among the open ones.
LEMMA NewestOpenRow ==
  ASSUME ComposeTypeOK, NEW open \in SUBSET DOMAIN rows, open # {}
  PROVE  \E i \in open : \A j \in open : j <= i
<1>1. DOMAIN rows = 1..Len(rows) /\ Len(rows) \in Nat
  BY LenProperties DEF ComposeTypeOK
<1>2. IsFiniteSet(open)
  <2>1. IsFiniteSet(1..Len(rows))
    BY <1>1, FS_Interval
  <2> QED BY <1>1, <2>1, FS_Subset
<1>3. open \in SUBSET Nat
  BY <1>1
<1> QED BY <1>2, <1>3, GreatestExists

\* What a request of the log endpoint reports, and that it forgets its row.
LEMMA ReportedType ==
  ASSUME ComposeTypeOK, NEW p \in Reader, NEW s \in Slug, NEW v \in Outcome \cup {"running"}
  PROVE  /\ Reported(p, s, v) \in [Reader -> ReaderRecord]
         /\ Reported(p, s, v)[p].pc # "found"
         /\ \A q \in Reader : q # p => Reported(p, s, v)[q] = reader[q]
<1> DEFINE q == IF p # Own THEN Idle
                ELSE [pc |-> "answered", slug |-> s, verdict |-> v, row |-> 0]
<1>1. q \in ReaderRecord /\ q.pc # "found"
  BY DEF ReaderRecord, Idle
<1>2. Reported(p, s, v) = [reader EXCEPT ![p] = q]
  BY DEF Reported
<1> HIDE DEF q
<1> QED BY <1>1, <1>2 DEF ComposeTypeOK

\* Steps that touch neither the readers nor the rows they hold.
LEMMA RowsHeldStands ==
  ASSUME ComposeTypeOK, UNCHANGED <<reader, rows>>
  PROVE  \A p \in Reader : RowHeld(p)'
BY DEF ComposeTypeOK, RowHeld

\* One reader moves on and holds no row, or one of its slug.
LEMMA ReaderMoves ==
  ASSUME ComposeTypeOK, NEW p \in Reader,
         reader' \in [Reader -> ReaderRecord],
         \A q \in Reader : q # p => reader'[q] = reader[q],
         RowHeld(p)',
         rows' \in Seq(RowRecord), DOMAIN rows' = DOMAIN rows,
         \A i \in DOMAIN rows : rows'[i].slug = rows[i].slug,
         UNCHANGED <<hostVars, faults>>
  PROVE  ComposeTypeOK'
<1>1. \A q \in Reader : RowHeld(q)'
  BY DEF ComposeTypeOK, RowHeld
<1> QED BY <1>1 DEF ComposeTypeOK, hostVars

\* Reading the log and advancing a row keep the state well formed.
LEMMA ReadingType ==
  ASSUME ComposeTypeOK, NEW p \in Reader,
         ReadStep(p) \/ \E s \in Slug : LogRead(p, s)
  PROVE  ComposeTypeOK'
<1>1. /\ rows \in [1..Len(rows) -> RowRecord] /\ Len(rows) \in Nat
      /\ DOMAIN rows = 1..Len(rows)
  BY LenProperties, ElementOfSeq DEF ComposeTypeOK
<1>2. reader[p] \in ReaderRecord /\ reader \in [Reader -> ReaderRecord] /\ RowHeld(p)
  BY DEF ComposeTypeOK
<1>3. CASE \E s \in Slug : LogRead(p, s)
  <2>1. PICK s \in Slug : LogRead(p, s)
    BY <1>3
  <2> DEFINE q == [pc |-> "observed", slug |-> s, verdict |-> Reading(s), row |-> 0]
  <2>2. CASE Reading(s) = "running"
    <3>1. reader' = Reported(p, s, "running")
      BY <2>1, <2>2 DEF LogRead
    <3>2. RowHeld(p)'
      BY <3>1, ReportedType DEF RowHeld
    <3> QED BY <2>1, <3>1, <3>2, ReportedType, ReaderMoves DEF LogRead, ComposeTypeOK
  <2>3. CASE Reading(s) # "running"
    <3>1. Reading(s) \in Outcome
      BY <2>3 DEF Reading, ComposeTypeOK, LogRecord, Verdict, Outcome
    <3>2. q \in ReaderRecord /\ q.pc # "found"
      BY <3>1 DEF ReaderRecord
    <3>3. reader' = [reader EXCEPT ![p] = q]
      BY <2>1, <2>3 DEF LogRead
    <3> HIDE DEF q
    <3>4. reader' \in [Reader -> ReaderRecord] /\ reader'[p] = q
          /\ \A o \in Reader : o # p => reader'[o] = reader[o]
      BY <3>2, <3>3, <1>2
    <3>5. RowHeld(p)'
      BY <3>2, <3>4 DEF RowHeld
    <3> QED BY <2>1, <3>4, <3>5, ReaderMoves DEF LogRead, ComposeTypeOK
  <2> QED BY <2>2, <2>3
<1>4. CASE RowFound(p)
  <2> DEFINE open == InFlight(reader[p].slug)
             last == CHOOSE i \in open : \A j \in open : j <= i
  <2>1. /\ reader[p].slug \in Slug /\ reader[p].verdict \in Outcome
        /\ reader[p] \in [pc : {"observed"}, slug : Slug, verdict : Outcome, row : {0}]
    BY <1>4, <1>2 DEF RowFound, ReaderRecord, Idle
  <2>2. CASE open = {}
    <3>1. reader' = Reported(p, reader[p].slug, reader[p].verdict)
      BY <1>4, <2>2 DEF RowFound
    <3>2. Reported(p, reader[p].slug, reader[p].verdict)[p].pc # "found"
      BY <2>1, ReportedType
    <3>3. RowHeld(p)'
      BY <3>1, <3>2 DEF RowHeld
    <3>4. UNCHANGED <<hostVars, rows, faults>>
      BY <1>4 DEF RowFound
    <3> QED BY <2>1, <3>1, <3>3, <3>4, ReportedType, ReaderMoves DEF ComposeTypeOK
  <2>3. CASE open # {}
    <3>1. open \in SUBSET DOMAIN rows
      BY DEF InFlight
    <3>2. last \in open
      BY <2>3, <3>1, NewestOpenRow
    <3>3. last \in Nat /\ last \in DOMAIN rows /\ rows[last].slug = reader[p].slug
      BY <3>1, <3>2, <1>1 DEF InFlight
    <3>4. reader' = [reader EXCEPT ![p].pc = "found", ![p].row = last]
      BY <1>4, <2>3 DEF RowFound
    <3> HIDE DEF last
    <3> DEFINE q == [reader[p] EXCEPT !.pc = "found", !.row = last]
    <3>5. q \in ReaderRecord /\ q.row = last /\ q.slug = reader[p].slug
      BY <2>1, <3>3 DEF ReaderRecord
    <3>6. reader' = [reader EXCEPT ![p] = q]
      BY <3>4
    <3> HIDE DEF q
    <3>7. reader' \in [Reader -> ReaderRecord] /\ reader'[p] = q
          /\ \A o \in Reader : o # p => reader'[o] = reader[o]
      BY <3>5, <3>6, <1>2
    <3>8. UNCHANGED <<hostVars, rows, faults>>
      BY <1>4 DEF RowFound
    <3>9. RowHeld(p)'
      BY <3>3, <3>5, <3>7, <3>8 DEF RowHeld
    <3> QED BY <3>7, <3>8, <3>9, ReaderMoves DEF ComposeTypeOK
  <2> QED BY <2>2, <2>3
<1>5. CASE RowSettled(p)
  <2>1. /\ reader[p].slug \in Slug /\ reader[p].verdict \in Outcome
        /\ reader[p].row \in DOMAIN rows
    BY <1>5, <1>2 DEF RowSettled, ReaderRecord, Idle, RowHeld
  <2> DEFINE after == [rows EXCEPT ![reader[p].row].status = reader[p].verdict]
  <2>2. rows' = after /\ reader' = Reported(p, reader[p].slug, reader[p].verdict)
    BY <1>5 DEF RowSettled
  <2>3. /\ after \in [1..Len(rows) -> RowRecord]
        /\ \A i \in DOMAIN rows : after[i].slug = rows[i].slug
    BY <1>1, <2>1 DEF RowRecord, Outcome
  <2> HIDE DEF after
  <2>4. rows' \in Seq(RowRecord) /\ DOMAIN rows' = DOMAIN rows
    BY <1>1, <2>2, <2>3, IsASeq
  <2>5. RowHeld(p)'
    BY <2>1, <2>2, ReportedType DEF RowHeld
  <2> QED BY <1>5, <2>1, <2>2, <2>3, <2>4, <2>5, ReportedType, ReaderMoves DEF RowSettled
<1> QED BY <1>3, <1>4, <1>5 DEF ReadStep

\* A request that has begun carries a full record.
LEMMA UsedRun ==
  ASSUME ComposeTypeOK, NEW r \in Run, run[r] # Unused
  PROVE  run[r] \in RunRecord
BY DEF ComposeTypeOK

LEMMA StageUsed ==
  ASSUME ComposeTypeOK, NEW r \in Run,
         run[r].stage # "unused" \/ run[r].process # "none"
  PROVE  run[r] \in RunRecord /\ run[r].slug \in Slug
<1>1. run[r] # Unused
  BY DEF Unused
<1>2. run[r] \in RunRecord
  BY <1>1, UsedRun
<1> QED BY <1>2 DEF RunRecord

LEMMA RunUpdateType ==
  ASSUME ComposeTypeOK, NEW r \in Run, NEW q \in RunRecord
  PROVE  [run EXCEPT ![r] = q] \in [Run -> RunRecord \cup {Unused}]
BY DEF ComposeTypeOK

LEMMA LogTypes ==
  ASSUME ComposeTypeOK, NEW s \in Slug
  PROVE  /\ Touched(s) \in [Slug -> LogRecord]
         /\ \A v \in Verdict : Marked(s, v) \in [Slug -> LogRecord]
         /\ [log EXCEPT ![s] = EmptyLog] \in [Slug -> LogRecord]
BY DEF ComposeTypeOK, LogRecord, Touched, Marked, Verdict, EmptyLog

LEMMA ImageUpdateType ==
  ASSUME ComposeTypeOK, NEW s \in Slug, NEW image \in Image
  PROVE  /\ [override EXCEPT ![s] = image] \in [Slug -> Image]
         /\ [serving EXCEPT ![s] = image] \in [Slug -> Image]
         /\ [intended EXCEPT ![s] = image] \in [Slug -> Image \cup {"unclear"}]
         /\ Unclear(s) \in [Slug -> Image \cup {"unclear"}]
BY DEF ComposeTypeOK, Unclear

LEMMA FaultType ==
  ASSUME ComposeTypeOK, Fault
  PROVE  faults' \in 0..MaxFaults
BY ComposeAssumption DEF ComposeTypeOK, Fault

\* An open request answers.
LEMMA AnsweredType ==
  ASSUME ComposeTypeOK, NEW r \in Run, run[r].stage # "unused",
         NEW a \in {"ok", "detached", "failed"}
  PROVE  Answered(r, a) \in [Run -> RunRecord \cup {Unused}]
<1>1. run[r] \in RunRecord
  BY StageUsed
<1>2. [run[r] EXCEPT !.stage = "answered", !.answer = a] \in RunRecord
  BY <1>1 DEF RunRecord
<1>3. Answered(r, a) = [run EXCEPT ![r] = [run[r] EXCEPT !.stage = "answered", !.answer = a]]
  BY DEF Answered
<1> QED BY <1>2, <1>3, RunUpdateType

-----------------------------------------------------------------------------
\* Every step of an open request keeps the state well formed.
LEMMA RunStepType ==
  ASSUME ComposeTypeOK, NEW r \in Run, RunStep(r)
  PROVE  ComposeTypeOK'
<1>1. run[r].stage # "unused"
  BY DEF RunStep, Resolve, StartRecreate, FailRun, RemoteEnded, Record, SandboxEnds,
         OverrideWritten, BuildEnds, EditEnds
<1>2. run[r] \in RunRecord /\ run[r].slug \in Slug
  BY <1>1, StageUsed
<1>3. /\ Touched(run[r].slug) \in [Slug -> LogRecord]
      /\ \A v \in Verdict : Marked(run[r].slug, v) \in [Slug -> LogRecord]
  BY <1>2, LogTypes
<1>10. UNCHANGED <<reader, rows>> => \A p \in Reader : RowHeld(p)'
  BY RowsHeldStands
<1>4. CASE Resolve(r)
  <2> DEFINE q == [run[r] EXCEPT !.stage = "resolved", !.image = override[run[r].slug]]
  <2>1. q \in RunRecord
    BY <1>2 DEF RunRecord, ComposeTypeOK
  <2>2. run' = [run EXCEPT ![r] = q]
    BY <1>4 DEF Resolve
  <2>3. run' \in [Run -> RunRecord \cup {Unused}]
    BY <2>1, <2>2, RunUpdateType
  <2> QED BY <1>4, <2>3, <1>3, <1>10 DEF Resolve, ComposeTypeOK
<1>5. CASE StartRecreate(r)
  <2> DEFINE q == [run[r] EXCEPT
                     !.stage = IF LocalVps THEN "recording" ELSE "deploying",
                     !.process = "executing"]
  <2>1. q \in RunRecord
    BY <1>2 DEF RunRecord
  <2>2. run' = [run EXCEPT ![r] = q]
    BY <1>5 DEF StartRecreate
  <2>3. run' \in [Run -> RunRecord \cup {Unused}]
    BY <2>1, <2>2, RunUpdateType
  <2> QED BY <1>5, <2>3, <1>3, <1>10 DEF StartRecreate, ComposeTypeOK
<1>6. CASE FailRun(r)
  <2>1. run' \in [Run -> RunRecord \cup {Unused}]
    BY <1>6, <1>1, AnsweredType DEF FailRun
  <2>2. log' \in [Slug -> LogRecord]
    BY <1>6, <1>3 DEF FailRun, FailureEvidence, Verdict, ComposeTypeOK
  <2>3. faults' \in 0..MaxFaults
    BY <1>6, FaultType DEF FailRun, ComposeTypeOK
  <2> QED BY <1>6, <2>1, <2>2, <2>3, <1>10 DEF FailRun, ComposeTypeOK
<1>7. CASE RemoteEnded(r)
  <2> DEFINE q == [run[r] EXCEPT !.stage = "recording"]
  <2>1. q \in RunRecord /\ run[r].verdict \in Verdict
    BY <1>2 DEF RunRecord
  <2>2. run' = [run EXCEPT ![r] = q]
    BY <1>7 DEF RemoteEnded
  <2>3. run' \in [Run -> RunRecord \cup {Unused}]
    BY <2>1, <2>2, RunUpdateType
  <2> QED BY <1>7, <2>1, <2>3, <1>3, <1>10 DEF RemoteEnded, ComposeTypeOK
<1>8. CASE Record(r)
  <2> DEFINE row == [run |-> r, slug |-> run[r].slug,
                     status |-> IF LocalVps THEN "running"
                                ELSE IF run[r].verdict = "success" THEN "success" ELSE "failed"]
  <2>1. run' \in [Run -> RunRecord \cup {Unused}]
    <3>1. PICK a \in {"ok", "detached", "failed"} : run' = Answered(r, a)
      BY <1>8 DEF Record
    <3> QED BY <3>1, <1>1, AnsweredType
  <2>2. row \in RowRecord
    BY <1>2 DEF RowRecord
  <2>6. UNCHANGED reader /\ (rows' = Append(rows, row) \/ UNCHANGED rows)
    BY <1>8 DEF Record
  <2> HIDE DEF row
  <2>3. rows' \in Seq(RowRecord)
    BY <2>2, <2>6, AppendProperties DEF ComposeTypeOK
  <2>4. faults' \in 0..MaxFaults
    BY <1>8, FaultType DEF Record, ComposeTypeOK
  <2>5. \A p \in Reader : RowHeld(p)'
    <3>1. \A i \in DOMAIN rows : i \in DOMAIN rows' /\ rows'[i] = rows[i]
      BY <2>2, <2>6, AppendProperties, LenProperties DEF ComposeTypeOK
    <3> QED BY <2>6, <3>1 DEF RowHeld, ComposeTypeOK
  <2> QED BY <1>8, <2>1, <2>3, <2>4, <2>5 DEF Record, ComposeTypeOK
<1>9. CASE SandboxEnds(r)
  <2>1. run' \in [Run -> RunRecord \cup {Unused}]
    BY <1>9, <1>1, AnsweredType DEF SandboxEnds
  <2> QED BY <1>9, <2>1, <1>10 DEF SandboxEnds, ComposeTypeOK
<1>11. CASE OverrideWritten(r)
  <2> DEFINE q == [run[r] EXCEPT !.stage = "written"]
             own == [override EXCEPT ![run[r].slug] = run[r].image]
  <2>1. q \in RunRecord /\ run[r].image \in Image
    BY <1>2 DEF RunRecord
  <2>2. [run EXCEPT ![r] = q] \in [Run -> RunRecord \cup {Unused}]
    BY <2>1, RunUpdateType
  <2>3. Answered(r, "failed") \in [Run -> RunRecord \cup {Unused}]
    BY <1>1, AnsweredType
  <2>4. own \in [Slug -> Image] /\ Unclear(run[r].slug) \in [Slug -> Image \cup {"unclear"}]
    BY <1>2, <2>1, ImageUpdateType
  <2>5. /\ run' \in {[run EXCEPT ![r] = q], Answered(r, "failed")}
        /\ override' \in {override, own}
        /\ intended' \in {intended, Unclear(run[r].slug)}
        /\ UNCHANGED faults \/ Fault
        /\ UNCHANGED <<log, rows, reader, serving, crashes>>
    BY <1>11 DEF OverrideWritten
  <2> HIDE DEF q, own
  <2>6. faults' \in 0..MaxFaults
    BY <2>5, FaultType DEF ComposeTypeOK
  <2> QED BY <2>2, <2>3, <2>4, <2>5, <2>6, <1>10 DEF ComposeTypeOK
<1>12. CASE BuildEnds(r) \/ EditEnds(r)
  <2>1. run[r].saved \in Image /\ run[r].image \in Image
    BY <1>2 DEF RunRecord
  <2>2. Restored(r) \in [Slug -> Image]
    BY <1>2, <2>1, ImageUpdateType DEF Restored
  <2>3. /\ Unclear(run[r].slug) \in [Slug -> Image \cup {"unclear"}]
        /\ [intended EXCEPT ![run[r].slug] = run[r].image] \in [Slug -> Image \cup {"unclear"}]
    BY <1>2, <2>1, ImageUpdateType
  <2>4. /\ \E a \in {"ok", "failed"} : run' = Answered(r, a)
        /\ override' \in {override, Restored(r)}
        /\ intended' \in {intended, Unclear(run[r].slug),
                           [intended EXCEPT ![run[r].slug] = run[r].image]}
        /\ UNCHANGED faults \/ Fault
        /\ UNCHANGED <<log, rows, reader, serving, crashes>>
    BY <1>12 DEF BuildEnds, EditEnds
  <2>5. run' \in [Run -> RunRecord \cup {Unused}]
    BY <1>1, <2>4, AnsweredType
  <2>6. faults' \in 0..MaxFaults
    BY <2>4, FaultType DEF ComposeTypeOK
  <2> QED BY <2>2, <2>3, <2>4, <2>5, <2>6, <1>10 DEF ComposeTypeOK
<1> QED BY <1>4, <1>5, <1>6, <1>7, <1>8, <1>9, <1>11, <1>12 DEF RunStep

\* Every step of a host process keeps the state well formed.
LEMMA ProcessStepType ==
  ASSUME ComposeTypeOK, NEW r \in Run, ProcessStep(r)
  PROVE  ComposeTypeOK'
<1>1. run[r].process # "none"
  BY DEF ProcessStep, Recreate, RecreateFails, Verify
<1>2. run[r] \in RunRecord /\ run[r].slug \in Slug
  BY <1>1, StageUsed
<1>3. /\ Touched(run[r].slug) \in [Slug -> LogRecord]
      /\ \A v \in Verdict : Marked(run[r].slug, v) \in [Slug -> LogRecord]
  BY <1>2, LogTypes
<1>4. override[run[r].slug] \in Image
  BY <1>2 DEF ComposeTypeOK
<1>5. [serving EXCEPT ![run[r].slug] = override[run[r].slug]] \in [Slug -> Image]
  BY <1>2, <1>4, ImageUpdateType
<1>10. UNCHANGED <<reader, rows>> => \A p \in Reader : RowHeld(p)'
  BY RowsHeldStands
<1>6. ASSUME NEW v \in {"success", "failed"}, EndProcess(r, v)
      PROVE  /\ run' \in [Run -> RunRecord \cup {Unused}]
             /\ log' \in [Slug -> LogRecord]
  <2> DEFINE q == [run[r] EXCEPT !.process = "ended", !.verdict = v]
  <2>1. q \in RunRecord
    BY <1>2 DEF RunRecord, Verdict
  <2>2. run' = [run EXCEPT ![r] = q]
    BY <1>6 DEF EndProcess
  <2>3. run' \in [Run -> RunRecord \cup {Unused}]
    BY <2>1, <2>2, RunUpdateType
  <2>4. log' \in [Slug -> LogRecord]
    BY <1>6, <1>3 DEF EndProcess, Verdict, ComposeTypeOK
  <2> QED BY <2>3, <2>4
<1>7. CASE Recreate(r)
  <2> DEFINE q == [run[r] EXCEPT !.process = "recreated"]
  <2>1. q \in RunRecord
    BY <1>2 DEF RunRecord
  <2>2. run' = [run EXCEPT ![r] = q]
    BY <1>7 DEF Recreate
  <2>3. run' \in [Run -> RunRecord \cup {Unused}]
    BY <2>1, <2>2, RunUpdateType
  <2>4. log' \in [Slug -> LogRecord] /\ serving' \in [Slug -> Image]
    BY <1>7, <1>3, <1>5 DEF Recreate, ComposeTypeOK
  <2> QED BY <1>7, <2>3, <2>4, <1>10 DEF Recreate, ComposeTypeOK
<1>8. CASE RecreateFails(r)
  <2>1. serving' \in [Slug -> Image]
    BY <1>8, <1>5 DEF RecreateFails, ComposeTypeOK
  <2>2. EndProcess(r, "failed")
    BY <1>8 DEF RecreateFails
  <2> QED BY <2>1, <2>2, <1>6, <1>10 DEF EndProcess, ComposeTypeOK
<1>9. CASE Verify(r)
  <2>1. PICK v \in {"success", "failed"} : EndProcess(r, v)
    BY <1>9 DEF Verify
  <2> QED BY <2>1, <1>6, <1>9, <1>10 DEF EndProcess, Verify, ComposeTypeOK
<1> QED BY <1>7, <1>8, <1>9 DEF ProcessStep

-----------------------------------------------------------------------------
\* A fresh record of each kind of request.
LEMMA FreshRecords ==
  ASSUME NEW s \in Slug, NEW image \in Image
  PROVE  /\ [Unused EXCEPT !.kind = "redeploy", !.slug = s,
                           !.stage = "accepted"] \in RunRecord
         /\ [Unused EXCEPT !.kind = "redeploy", !.slug = s, !.stage = "answered",
                           !.answer = "failed"] \in RunRecord
         /\ [Unused EXCEPT !.kind = "sandbox", !.slug = s, !.stage = "building",
                           !.image = image] \in RunRecord
         /\ [Unused EXCEPT !.kind = "build", !.slug = s, !.stage = "answered",
                           !.answer = "failed", !.image = image] \in RunRecord
BY DEF Unused, RunRecord, Image, Verdict

LEMMA FreshPin ==
  ASSUME NEW s \in Slug, NEW image \in Image, NEW a \in {"ok", "failed"}
  PROVE  [Unused EXCEPT !.kind = "pin", !.slug = s, !.stage = "answered",
                        !.answer = a, !.image = image] \in RunRecord
BY DEF Unused, RunRecord, Image, Verdict

\* What a build or an edit does when it reads the override.
LEMMA ReadFacts ==
  ASSUME NEW r \in Run, NEW s \in Slug, NEW image \in Image, NEW kind \in Kind,
         OverrideRead(r, kind, s, image)
  PROVE  /\ UNCHANGED <<log, rows, reader, override, serving, crashes>>
         /\ UNCHANGED faults \/ Fault
         /\ \E found \in {override[s], None} :
              /\ run' = [run EXCEPT ![r] = [Unused EXCEPT !.kind = kind, !.slug = s,
                           !.stage = "saved", !.image = image, !.saved = found]]
              /\ intended' = IF Holders(s) # {} \/ found # override[s]
                             THEN Unclear(s) ELSE intended
BY Zenon DEF OverrideRead

LEMMA ReadImages ==
  ASSUME ComposeTypeOK, NEW s \in Slug
  PROVE  {override[s], None} \subseteq Image
BY DEF ComposeTypeOK, Image

LEMMA FreshHolder ==
  ASSUME NEW s \in Slug, NEW image \in Image, NEW saved \in Image, NEW kind \in Kind
  PROVE  [Unused EXCEPT !.kind = kind, !.slug = s, !.stage = "saved",
                        !.image = image, !.saved = saved] \in RunRecord
BY DEF Unused, RunRecord, Image, Verdict, Kind

\* Every request that arrives keeps the state well formed.
LEMMA ArrivalType ==
  ASSUME ComposeTypeOK, NEW r \in Run, NEW s \in Slug, NEW image \in Image,
         \/ Accept(r, s)
         \/ AcceptFails(r, s)
         \/ \E kind \in Kind : OverrideRead(r, kind, s, image)
         \/ SandboxStarts(r, s, image)
         \/ BuildRefused(r, s, image)
         \/ Pin(r, s, image)
  PROVE  ComposeTypeOK'
<1>1. override[s] \in Image
  BY DEF ComposeTypeOK
<1>2. /\ [log EXCEPT ![s] = EmptyLog] \in [Slug -> LogRecord]
      /\ Marked(s, "failed") \in [Slug -> LogRecord]
  BY LogTypes DEF Verdict
<1>3. /\ [override EXCEPT ![s] = image] \in [Slug -> Image]
      /\ [intended EXCEPT ![s] = image] \in [Slug -> Image \cup {"unclear"}]
      /\ Unclear(s) \in [Slug -> Image \cup {"unclear"}]
  BY ImageUpdateType
<1>12. UNCHANGED <<reader, rows>>
  <2>1. CASE \E kind \in Kind : OverrideRead(r, kind, s, image)
    BY <2>1, ReadFacts
  <2> QED BY <2>1 DEF Accept, AcceptFails, SandboxStarts, BuildRefused, Pin
<1>13. \A p \in Reader : RowHeld(p)'
  BY <1>12, RowsHeldStands
<1>4. ASSUME \/ Accept(r, s)
             \/ AcceptFails(r, s)
             \/ SandboxStarts(r, s, image)
             \/ BuildRefused(r, s, image)
             \/ Pin(r, s, image)
      PROVE  run' \in [Run -> RunRecord \cup {Unused}]
  <2> DEFINE Begins == \E q \in RunRecord : run' = [run EXCEPT ![r] = q]
  <2>1. Accept(r, s) => Begins
    BY FreshRecords DEF Accept
  <2>2. AcceptFails(r, s) => Begins
    BY FreshRecords DEF AcceptFails
  <2>3. SandboxStarts(r, s, image) => Begins
    BY FreshRecords DEF SandboxStarts
  <2>4. BuildRefused(r, s, image) => Begins
    BY FreshRecords DEF BuildRefused
  <2>5. Pin(r, s, image) => Begins
    BY FreshPin DEF Pin
  <2>6. Begins
    BY <1>4, <2>1, <2>2, <2>3, <2>4, <2>5
  <2> QED BY <2>6, RunUpdateType
<1>6. CASE Accept(r, s)
  BY <1>6, <1>4, <1>2, <1>13 DEF Accept, ComposeTypeOK
<1>7. CASE AcceptFails(r, s)
  <2>1. faults' \in 0..MaxFaults
    BY <1>7, FaultType DEF AcceptFails
  <2> QED BY <1>7, <2>1, <1>4, <1>2, <1>13 DEF AcceptFails, ComposeTypeOK
<1>8. CASE \E kind \in Kind : OverrideRead(r, kind, s, image)
  <2>1. PICK kind \in Kind : OverrideRead(r, kind, s, image)
    BY <1>8
  <2>2. PICK found \in {override[s], None} :
          /\ run' = [run EXCEPT ![r] = [Unused EXCEPT !.kind = kind, !.slug = s,
                        !.stage = "saved", !.image = image, !.saved = found]]
          /\ intended' = IF Holders(s) # {} \/ found # override[s] THEN Unclear(s) ELSE intended
    BY <2>1, ReadFacts
  <2>6. found \in Image /\ intended' \in {Unclear(s), intended}
    BY <2>2, ReadImages
  <2>3. run' \in [Run -> RunRecord \cup {Unused}]
    BY <2>2, <2>6, FreshHolder, RunUpdateType
  <2>4. faults' \in 0..MaxFaults
    BY <2>1, ReadFacts, FaultType DEF ComposeTypeOK
  <2>5. UNCHANGED <<log, rows, reader, override, serving, crashes>>
    BY <2>1, ReadFacts
  <2> QED BY <2>3, <2>4, <2>5, <2>6, <1>3, <1>13 DEF ComposeTypeOK
<1>9. CASE SandboxStarts(r, s, image)
  BY <1>9, <1>4, <1>13 DEF SandboxStarts, ComposeTypeOK
<1>10. CASE BuildRefused(r, s, image)
  BY <1>10, <1>4, <1>13 DEF BuildRefused, ComposeTypeOK
<1>11. CASE Pin(r, s, image)
  <2>1. /\ override' \in [Slug -> Image]
        /\ intended' \in [Slug -> Image \cup {"unclear"}]
    BY <1>11, <1>3 DEF Pin, ComposeTypeOK
  <2> QED BY <1>11, <2>1, <1>4, <1>13 DEF Pin, ComposeTypeOK
<1> QED BY <1>6, <1>7, <1>8, <1>9, <1>10, <1>11

-----------------------------------------------------------------------------
\* Readers of the log, time, and crashes keep the state well formed.
LEMMA EnvironmentType ==
  ASSUME ComposeTypeOK,
         \/ \E s \in Slug : Stall(s) \/ ComposeUp(s)
         \/ ServerCrash
         \/ HostReboot
  PROVE  ComposeTypeOK'
<1>1. RequestsLost \in [Run -> RunRecord \cup {Unused}]
  <2> SUFFICES ASSUME NEW r \in Run
               PROVE  RequestsLost[r] \in RunRecord \cup {Unused}
    BY DEF RequestsLost
  <2>1. CASE Open(r)
    <3>1. run[r] \in RunRecord
      BY <2>1, StageUsed DEF Open
    <3>2. [run[r] EXCEPT !.stage = "lost"] \in RunRecord
      BY <3>1 DEF RunRecord
    <3> QED BY <2>1, <3>2 DEF RequestsLost
  <2>2. CASE ~Open(r)
    BY <2>2 DEF RequestsLost, ComposeTypeOK
  <2> QED BY <2>1, <2>2
<1>2. ASSUME CrashCounted
      PROVE  crashes' \in 0..MaxCrashes
  BY <1>2, ComposeAssumption DEF CrashCounted, ComposeTypeOK
<1>8. UNCHANGED <<reader, rows>> => \A p \in Reader : RowHeld(p)'
  BY RowsHeldStands
<1>9. ASSUME reader' = [p \in Reader |-> Idle]
      PROVE  reader' \in [Reader -> ReaderRecord] /\ \A p \in Reader : RowHeld(p)'
  BY <1>9 DEF ReaderRecord, Idle, RowHeld
<1>10. WritesLost \in [Slug -> Image \cup {"unclear"}]
  BY DEF WritesLost, ComposeTypeOK
<1>4. CASE \E s \in Slug : Stall(s)
  <2>1. PICK s \in Slug : Stall(s)
    BY <1>4
  <2>2. log' \in [Slug -> LogRecord]
    BY <2>1 DEF Stall, ComposeTypeOK, LogRecord
  <2> QED BY <2>1, <2>2, <1>8 DEF Stall, ComposeTypeOK
<1>7. CASE \E s \in Slug : ComposeUp(s)
  <2>1. PICK s \in Slug : ComposeUp(s)
    BY <1>7
  <2>2. serving' \in [Slug -> Image]
    BY <2>1, ImageUpdateType DEF ComposeUp, ComposeTypeOK
  <2> QED BY <2>1, <2>2, <1>8 DEF ComposeUp, ComposeTypeOK
<1>5. CASE ServerCrash
  BY <1>5, <1>1, <1>2, <1>9, <1>10 DEF ServerCrash, ComposeTypeOK
<1>6. CASE HostReboot
  <2> DEFINE before == IF LocalVps THEN RequestsLost ELSE run
             after(q) == IF q.process \in {"executing", "recreated"}
                         THEN [q EXCEPT !.process = "ended"] ELSE q
  <2>1. before \in [Run -> RunRecord \cup {Unused}]
    BY <1>1 DEF ComposeTypeOK
  <2>2. run' = [r \in Run |-> after(before[r])]
    BY <1>6 DEF HostReboot
  <2>3. \A q \in RunRecord \cup {Unused} : after(q) \in RunRecord \cup {Unused}
    BY DEF RunRecord, Unused
  <2>4. run' \in [Run -> RunRecord \cup {Unused}]
    BY <2>1, <2>2, <2>3
  <2>5. log' \in [Slug -> LogRecord]
    <3>1. [exists |-> FALSE, marker |-> "none", stale |-> FALSE] \in LogRecord
      BY DEF LogRecord, Verdict
    <3>2. PICK files \in {log, [s \in Slug |-> [exists |-> FALSE, marker |-> "none",
                                                stale |-> FALSE]]} : log' = files
      BY <1>6 DEF HostReboot
    <3> QED BY <3>1, <3>2 DEF ComposeTypeOK
  <2>6. /\ reader' \in [Reader -> ReaderRecord]
        /\ \A p \in Reader : RowHeld(p)'
        /\ intended' \in [Slug -> Image \cup {"unclear"}]
    BY <1>6, <1>8, <1>9, <1>10 DEF HostReboot, ComposeTypeOK
  <2> QED BY <1>6, <2>4, <2>5, <2>6, <1>2 DEF HostReboot, ComposeTypeOK
<1> QED BY <1>4, <1>5, <1>6, <1>7

\* No step takes a fault or a crash back.
LEMMA FaultsGrow ==
  ASSUME ComposeTypeOK, ComposeAction
  PROVE  /\ UNCHANGED faults \/ Fault
         /\ UNCHANGED crashes \/ CrashCounted
         /\ faults' = 0 => faults = 0
<1>1. faults \in Nat
  BY DEF ComposeTypeOK
<1>2. Fault => faults' # 0
  BY <1>1 DEF Fault
<1>3. ASSUME NEW r \in Run, RunStep(r)
      PROVE  (UNCHANGED faults \/ Fault) /\ UNCHANGED crashes
  <2>1. CASE Resolve(r) \/ StartRecreate(r) \/ RemoteEnded(r) \/ SandboxEnds(r)
    BY <2>1 DEF Resolve, StartRecreate, RemoteEnded, SandboxEnds
  <2>2. CASE FailRun(r) \/ Record(r)
    BY <2>2 DEF FailRun, Record
  <2>3. CASE OverrideWritten(r)
    BY <2>3 DEF OverrideWritten
  <2>4. CASE BuildEnds(r) \/ EditEnds(r)
    BY <2>4 DEF BuildEnds, EditEnds
  <2> QED BY <1>3, <2>1, <2>2, <2>3, <2>4 DEF RunStep
<1>4. ASSUME NEW r \in Run, ProcessStep(r)
      PROVE  UNCHANGED <<faults, crashes>>
  BY <1>4 DEF ProcessStep, Recreate, RecreateFails, Verify, EndProcess
<1>5. ASSUME NEW r \in Run, NEW s \in Slug, NEW image \in Image,
             \/ Accept(r, s)
             \/ AcceptFails(r, s)
             \/ \E kind \in Kind : OverrideRead(r, kind, s, image)
             \/ SandboxStarts(r, s, image)
             \/ BuildRefused(r, s, image)
             \/ Pin(r, s, image)
      PROVE  (UNCHANGED faults \/ Fault) /\ UNCHANGED crashes
  <2>1. CASE \E kind \in Kind : OverrideRead(r, kind, s, image)
    BY <2>1, ReadFacts
  <2> QED BY <1>5, <2>1 DEF Accept, AcceptFails, SandboxStarts, BuildRefused, Pin
<1>6. None \in Image
  BY DEF Image
<1>7. ASSUME \/ \E p \in Reader : ReadStep(p) \/ \E s \in Slug : LogRead(p, s)
             \/ \E s \in Slug : Stall(s) \/ ComposeUp(s)
             \/ ServerCrash
             \/ HostReboot
      PROVE  UNCHANGED faults /\ (UNCHANGED crashes \/ CrashCounted)
  <2>1. CASE \E p \in Reader : ReadStep(p) \/ \E s \in Slug : LogRead(p, s)
    BY <2>1 DEF ReadStep, LogRead, RowFound, RowSettled, hostVars
  <2> QED BY <1>7, <2>1 DEF Stall, ComposeUp, ServerCrash, HostReboot
<1> QED BY <1>2, <1>3, <1>4, <1>5, <1>6, <1>7 DEF ComposeAction

-----------------------------------------------------------------------------
(* How far a request can get: what its answer and its verdict are worth.   *)

Holding(q) == q.stage \in {"saved", "written"}

RunShape(q) ==
  /\ q.stage \in {"accepted", "resolved", "deploying", "recording"} => q.kind = "redeploy"
  /\ q.stage = "building" => q.kind = "sandbox"
  /\ q.stage \in {"saved", "written"} => q.kind \in Kind
  /\ q.stage \in {"accepted", "resolved", "building", "saved", "written"} => q.process = "none"
  /\ q.process # "none" => q.kind = "redeploy"
  /\ q.verdict # "none" => q.process = "ended"
  /\ q.answer # "none" => q.stage = "answered"
  /\ q.answer = "detached" => q.kind = "redeploy"
  /\ q.answer = "ok" /\ q.kind = "redeploy" => q.verdict = "success"

RunsInShape == \A r \in Run : RunShape(run[r])

\* A step makes q of the request p: it never changes its nature, takes back a
\* verdict or an answer, or takes hold of the override.
Advances(p, q) ==
  /\ q.kind = p.kind /\ q.slug = p.slug /\ q.saved = p.saved
  /\ p.verdict # "none" => q.verdict = p.verdict
  /\ p.answer # "none" => q.answer = p.answer
  /\ Holding(q) => Holding(p)

RunsAdvance == \A r \in Run : run[r].stage # "unused" => Advances(run[r], run'[r])

LEMMA StandingRunsAdvance ==
  ASSUME RunsInShape, UNCHANGED run
  PROVE  RunsInShape' /\ RunsAdvance
BY DEF RunsInShape, RunsAdvance, Advances, Holding

\* One request goes on.
LEMMA OneRunAdvances ==
  ASSUME ComposeTypeOK, RunsInShape, NEW r \in Run, NEW q,
         run' = [run EXCEPT ![r] = q], RunShape(q), Advances(run[r], q)
  PROVE  RunsInShape' /\ RunsAdvance
<1>1. run'[r] = q /\ \A p \in Run : p # r => run'[p] = run[p]
  BY DEF ComposeTypeOK
<1>2. RunsInShape'
  BY <1>1 DEF RunsInShape
<1>3. ASSUME NEW p \in Run PROVE Advances(run[p], run'[p])
  BY <1>1, <1>3 DEF Advances, Holding
<1> QED BY <1>2, <1>3 DEF RunsAdvance

\* An open request answers.
LEMMA AnswerAdvances ==
  ASSUME ComposeTypeOK, RunsInShape, NEW r \in Run,
         run[r].stage \notin {"unused", "answered"},
         NEW a \in {"ok", "detached", "failed"},
         a = "detached" => run[r].kind = "redeploy",
         a = "ok" /\ run[r].kind = "redeploy" => run[r].verdict = "success",
         run' = Answered(r, a)
  PROVE  RunsInShape' /\ RunsAdvance
<1> DEFINE q == [run[r] EXCEPT !.stage = "answered", !.answer = a]
<1>1. run[r] \in RunRecord /\ RunShape(run[r])
  BY StageUsed DEF RunsInShape
<1>2. run' = [run EXCEPT ![r] = q]
  BY DEF Answered
<1>3. /\ q.stage = "answered" /\ q.answer = a
      /\ q.kind = run[r].kind /\ q.slug = run[r].slug /\ q.saved = run[r].saved
      /\ q.process = run[r].process /\ q.verdict = run[r].verdict
  BY <1>1 DEF RunRecord
<1> HIDE DEF q
<1>4. RunShape(q)
  BY <1>1, <1>3 DEF RunShape
<1>5. Advances(run[r], q)
  BY <1>1, <1>3 DEF RunShape, Advances, Holding
<1> QED BY <1>2, <1>4, <1>5, OneRunAdvances

\* Every step of an open request.
LEMMA RunStepAdvances ==
  ASSUME ComposeTypeOK, RunsInShape, NEW r \in Run, RunStep(r)
  PROVE  RunsInShape' /\ RunsAdvance
<1>1. run[r].stage # "unused"
  BY DEF RunStep, Resolve, StartRecreate, FailRun, RemoteEnded, Record, SandboxEnds,
         OverrideWritten, BuildEnds, EditEnds
<1>2. run[r] \in RunRecord /\ RunShape(run[r])
  BY <1>1, StageUsed DEF RunsInShape
<1>3. CASE Resolve(r)
  <2> DEFINE q == [run[r] EXCEPT !.stage = "resolved", !.image = override[run[r].slug]]
  <2>1. run' = [run EXCEPT ![r] = q] /\ run[r].stage = "accepted"
    BY <1>3 DEF Resolve
  <2>2. RunShape(q) /\ Advances(run[r], q)
    BY <1>2, <2>1 DEF RunShape, Advances, RunRecord, Holding
  <2> QED BY <2>1, <2>2, OneRunAdvances
<1>4. CASE StartRecreate(r)
  <2> DEFINE q == [run[r] EXCEPT !.stage = IF LocalVps THEN "recording" ELSE "deploying",
                                 !.process = "executing"]
  <2>1. run' = [run EXCEPT ![r] = q] /\ run[r].stage = "resolved"
    BY <1>4 DEF StartRecreate
  <2>2. RunShape(q) /\ Advances(run[r], q)
    BY <1>2, <2>1 DEF RunShape, Advances, RunRecord, Holding
  <2> QED BY <2>1, <2>2, OneRunAdvances
<1>5. CASE RemoteEnded(r)
  <2> DEFINE q == [run[r] EXCEPT !.stage = "recording"]
  <2>1. run' = [run EXCEPT ![r] = q] /\ run[r].stage = "deploying"
    BY <1>5 DEF RemoteEnded
  <2>2. RunShape(q) /\ Advances(run[r], q)
    BY <1>2, <2>1 DEF RunShape, Advances, RunRecord, Holding
  <2> QED BY <2>1, <2>2, OneRunAdvances
<1>6. CASE FailRun(r)
  <2>1. run' = Answered(r, "failed") /\ run[r].stage # "answered"
    BY <1>6 DEF FailRun
  <2> QED BY <1>1, <2>1, AnswerAdvances
<1>7. CASE Record(r)
  <2>1. run[r].stage = "recording" /\ run[r].kind = "redeploy"
    BY <1>7, <1>2 DEF Record, RunShape
  <2>2. PICK a \in {"ok", "detached", "failed"} :
          run' = Answered(r, a) /\ (a = "ok" => run[r].verdict = "success")
    BY <1>7 DEF Record
  <2> QED BY <2>1, <2>2, AnswerAdvances
<1>8. CASE SandboxEnds(r) \/ BuildEnds(r) \/ EditEnds(r)
  <2>1. run[r].stage \in {"building", "saved", "written"} /\ run[r].kind # "redeploy"
    BY <1>8, <1>2 DEF SandboxEnds, BuildEnds, EditEnds, RunShape, Kind
  <2>2. PICK a \in {"ok", "failed"} : run' = Answered(r, a)
    BY <1>8 DEF SandboxEnds, BuildEnds, EditEnds
  <2> QED BY <2>1, <2>2, AnswerAdvances
<1>9. CASE OverrideWritten(r)
  <2> DEFINE q == [run[r] EXCEPT !.stage = "written"]
  <2>1. run[r].stage = "saved" /\ run[r].kind # "redeploy"
    BY <1>9, <1>2 DEF OverrideWritten, RunShape, Kind
  <2>2. run' = [run EXCEPT ![r] = q] \/ run' = Answered(r, "failed")
    BY <1>9 DEF OverrideWritten
  <2>3. RunShape(q) /\ Advances(run[r], q)
    BY <1>2, <2>1 DEF RunShape, Advances, RunRecord, Holding
  <2>4. CASE run' = [run EXCEPT ![r] = q]
    BY <2>3, <2>4, OneRunAdvances
  <2>5. CASE run' = Answered(r, "failed")
    BY <2>1, <2>5, AnswerAdvances
  <2> QED BY <2>2, <2>4, <2>5
<1> QED BY <1>3, <1>4, <1>5, <1>6, <1>7, <1>8, <1>9 DEF RunStep

\* Every step of a host process.
LEMMA ProcessStepAdvances ==
  ASSUME ComposeTypeOK, RunsInShape, NEW r \in Run, ProcessStep(r)
  PROVE  RunsInShape' /\ RunsAdvance
<1>1. run[r].process \in {"executing", "recreated"}
  BY DEF ProcessStep, Recreate, RecreateFails, Verify
<1>2. run[r] \in RunRecord /\ RunShape(run[r])
  BY <1>1, StageUsed DEF RunsInShape
<1>3. run[r].verdict = "none" /\ ~(run[r].answer = "ok" /\ run[r].kind = "redeploy")
  BY <1>1, <1>2 DEF RunShape
<1>4. CASE Recreate(r)
  <2> DEFINE q == [run[r] EXCEPT !.process = "recreated"]
  <2>1. run' = [run EXCEPT ![r] = q]
    BY <1>4 DEF Recreate
  <2>2. RunShape(q) /\ Advances(run[r], q)
    BY <1>1, <1>2, <1>3 DEF RunShape, Advances, RunRecord, Holding
  <2> QED BY <2>1, <2>2, OneRunAdvances
<1>5. CASE RecreateFails(r) \/ Verify(r)
  <2>1. PICK v \in {"success", "failed"} : EndProcess(r, v)
    BY <1>5 DEF RecreateFails, Verify
  <2> DEFINE q == [run[r] EXCEPT !.process = "ended", !.verdict = v]
  <2>2. run' = [run EXCEPT ![r] = q]
    BY <2>1 DEF EndProcess
  <2>3. RunShape(q) /\ Advances(run[r], q)
    BY <1>1, <1>2, <1>3 DEF RunShape, Advances, RunRecord, Holding
  <2> QED BY <2>2, <2>3, OneRunAdvances
<1> QED BY <1>4, <1>5 DEF ProcessStep

\* Time, crashes.
LEMMA EnvironmentAdvances ==
  ASSUME ComposeTypeOK, RunsInShape,
         \/ \E s \in Slug : Stall(s) \/ ComposeUp(s)
         \/ ServerCrash
         \/ HostReboot
  PROVE  RunsInShape' /\ RunsAdvance
<1>1. CASE \E s \in Slug : Stall(s) \/ ComposeUp(s)
  BY <1>1, StandingRunsAdvance DEF Stall, ComposeUp
<1>2. CASE ServerCrash \/ HostReboot
  <2>1. ASSUME NEW r \in Run
        PROVE  RunShape(run'[r]) /\ (run[r].stage # "unused" => Advances(run[r], run'[r]))
    <3>1. run[r] \in RunRecord \cup {Unused} /\ RunShape(run[r])
      BY DEF ComposeTypeOK, RunsInShape
    <3>2. PICK lost \in BOOLEAN, killed \in BOOLEAN :
            /\ lost => Open(r)
            /\ killed => run[r].process \in {"executing", "recreated"}
            /\ run'[r] = LET q == IF lost THEN [run[r] EXCEPT !.stage = "lost"] ELSE run[r]
                         IN IF killed THEN [q EXCEPT !.process = "ended"] ELSE q
      <4>0. /\ RequestsLost[r] = IF Open(r) THEN [run[r] EXCEPT !.stage = "lost"] ELSE run[r]
            /\ RequestsLost[r].process = run[r].process
        BY <3>1 DEF RequestsLost, RunRecord, Unused
      <4>1. CASE ServerCrash
        <5>1. run'[r] = RequestsLost[r]
          BY <4>1 DEF ServerCrash
        <5> QED BY <4>0, <5>1
      <4>2. CASE HostReboot
        <5> DEFINE q == IF LocalVps THEN RequestsLost[r] ELSE run[r]
                   lost == LocalVps /\ Open(r)
                   killed == run[r].process \in {"executing", "recreated"}
        <5>1. run'[r] = IF q.process \in {"executing", "recreated"}
                        THEN [q EXCEPT !.process = "ended"] ELSE q
          BY <4>2 DEF HostReboot
        <5>2. q.process = run[r].process
          BY <4>0
        <5>3. q = IF lost THEN [run[r] EXCEPT !.stage = "lost"] ELSE run[r]
          BY <4>0, ComposeAssumption
        <5>4. lost \in BOOLEAN /\ killed \in BOOLEAN
          BY DEF Open
        <5>5. run'[r] = IF killed THEN [q EXCEPT !.process = "ended"] ELSE q
          BY <5>1, <5>2
        <5> HIDE DEF q, lost, killed
        <5>6. (lost => Open(r)) /\ (killed => run[r].process \in {"executing", "recreated"})
          BY DEF lost, killed
        <5> QED BY <5>3, <5>4, <5>5, <5>6
      <4> QED BY <1>2, <4>1, <4>2
    <3>3. CASE run[r] = Unused
      BY <3>2, <3>3, <3>1 DEF Unused, Open
    <3>4. CASE run[r] \in RunRecord
      <4>1. CASE lost
        BY <3>1, <3>2, <3>4, <4>1 DEF RunRecord, RunShape, Advances, Holding, Open
      <4>2. CASE ~lost
        BY <3>1, <3>2, <3>4, <4>2 DEF RunRecord, RunShape, Advances, Holding
      <4> QED BY <4>1, <4>2
    <3> QED BY <3>1, <3>3, <3>4
  <2> QED BY <2>1 DEF RunsInShape, RunsAdvance
<1> QED BY <1>1, <1>2

\* A request that arrives takes an identity nobody has used.
LEMMA ArrivalAdvances ==
  ASSUME ComposeTypeOK, RunsInShape, NEW r \in Run, NEW s \in Slug, NEW image \in Image,
         run[r].stage = "unused",
         \/ Accept(r, s)
         \/ AcceptFails(r, s)
         \/ \E kind \in Kind : OverrideRead(r, kind, s, image)
         \/ SandboxStarts(r, s, image)
         \/ BuildRefused(r, s, image)
         \/ Pin(r, s, image)
  PROVE  /\ RunsInShape' /\ RunsAdvance
         /\ \A p \in Run : p # r => run'[p] = run[p]
         /\ run'[r].slug = s
         /\ Accept(r, s) \/ AcceptFails(r, s) => run'[r].kind = "redeploy"
         /\ \/ OverrideRead(r, "build", s, image)
            \/ SandboxStarts(r, s, image)
            \/ BuildRefused(r, s, image)
            => run'[r].kind \in {"build", "sandbox"}
<1>1. run \in [Run -> RunRecord \cup {Unused}]
  BY DEF ComposeTypeOK
<1>2. \A p \in Run : p # r => run'[p] = run[p]
  <2>1. CASE \E kind \in Kind : OverrideRead(r, kind, s, image)
    BY <1>1, <2>1, ReadFacts
  <2> QED BY <1>1, <2>1 DEF Accept, AcceptFails, SandboxStarts, BuildRefused, Pin
<1>3. ASSUME Accept(r, s) \/ AcceptFails(r, s)
      PROVE  RunShape(run'[r]) /\ run'[r].slug = s /\ run'[r].kind = "redeploy"
  <2>1. CASE Accept(r, s)
    BY <1>1, <2>1 DEF Accept, Unused, RunShape
  <2>2. CASE AcceptFails(r, s)
    BY <1>1, <2>2 DEF AcceptFails, Unused, RunShape
  <2> QED BY <1>3, <2>1, <2>2
<1>4. ASSUME SandboxStarts(r, s, image) \/ BuildRefused(r, s, image)
      PROVE  /\ RunShape(run'[r]) /\ run'[r].slug = s
             /\ run'[r].kind \in {"build", "sandbox"}
  <2>1. CASE SandboxStarts(r, s, image)
    BY <1>1, <2>1 DEF SandboxStarts, Unused, RunShape
  <2>2. CASE BuildRefused(r, s, image)
    BY <1>1, <2>2 DEF BuildRefused, Unused, RunShape
  <2> QED BY <1>4, <2>1, <2>2
<1>9. ASSUME NEW kind \in Kind, OverrideRead(r, kind, s, image)
      PROVE  RunShape(run'[r]) /\ run'[r].slug = s /\ run'[r].kind = kind
  <2>1. PICK found \in {override[s], None} :
          /\ run' = [run EXCEPT ![r] = [Unused EXCEPT !.kind = kind, !.slug = s,
                       !.stage = "saved", !.image = image, !.saved = found]]
          /\ intended' = IF Holders(s) # {} \/ found # override[s] THEN Unclear(s) ELSE intended
    BY <1>9, ReadFacts
  <2> QED BY <1>1, <2>1 DEF Unused, RunShape
<1>5. ASSUME Pin(r, s, image)
      PROVE  RunShape(run'[r]) /\ run'[r].slug = s
  <2>1. PICK a \in {"ok", "failed"} :
          run' = [run EXCEPT ![r] = [Unused EXCEPT !.kind = "pin", !.slug = s,
                    !.stage = "answered", !.answer = a, !.image = image]]
    BY <1>5 DEF Pin
  <2> QED BY <1>1, <2>1 DEF Unused, RunShape
<1>6. RunShape(run'[r]) /\ run'[r].slug = s
  BY <1>3, <1>4, <1>5, <1>9
<1>7. RunsInShape'
  BY <1>2, <1>6 DEF RunsInShape
<1>8. RunsAdvance
  BY <1>2 DEF RunsAdvance, Advances, Holding
<1>10. OverrideRead(r, "build", s, image) => run'[r].kind = "build"
  BY <1>9 DEF Kind
<1> QED BY <1>2, <1>3, <1>4, <1>6, <1>7, <1>8, <1>10

-----------------------------------------------------------------------------
(* The override.  While one build or edit holds it, it will put back what  *)
(* is intended; while none has written, the file is what is intended.      *)

HeldInOrder(s) ==
  intended[s] # "unclear" =>
    /\ \A q, r \in Holders(s) : q = r
    /\ \A r \in Holders(s) : run[r].saved = intended[s]
    /\ \A r \in Holders(s) : run[r].stage = "written" => override[s] = run[r].image
    /\ (\A r \in Holders(s) : run[r].stage = "saved") => override[s] = intended[s]

OverridesInOrder == \A s \in Slug : HeldInOrder(s)

\* Nothing about q that matters to the override is different from p.
HoldsAlike(p, q) ==
  q.stage = p.stage /\ q.slug = p.slug /\ q.saved = p.saved /\ q.image = p.image

\* Steps that write nothing: no holder comes, and one that goes while its write
\* is in place leaves the file unclear.
LEMMA OrderStands ==
  ASSUME ComposeTypeOK, OverridesInOrder, UNCHANGED override,
         \A s \in Slug : intended'[s] \in {intended[s], "unclear"},
         \A r \in Run : Holding(run'[r]) => HoldsAlike(run[r], run'[r]),
         \A r \in Run : run[r].stage = "written" =>
            HoldsAlike(run[r], run'[r]) \/ intended'[run[r].slug] = "unclear"
  PROVE  OverridesInOrder'
<1> SUFFICES ASSUME NEW s \in Slug, intended'[s] # "unclear"
             PROVE  HeldInOrder(s)'
  BY DEF OverridesInOrder, HeldInOrder
<1>1. intended'[s] = intended[s] /\ HeldInOrder(s)
  BY DEF OverridesInOrder
<1>2. \A r \in Holders(s)' : r \in Holders(s) /\ HoldsAlike(run[r], run'[r])
  BY DEF Holders, Holding, HoldsAlike
<1>3. \A r \in Holders(s) : run[r].stage = "saved" \/ (r \in Holders(s)' /\ run'[r].stage = "written")
  BY DEF Holders, HoldsAlike
<1> QED BY <1>1, <1>2, <1>3 DEF HeldInOrder, HoldsAlike

\* One holder or writer of s moves; the other projects keep theirs.
LEMMA OtherSlugs ==
  ASSUME ComposeTypeOK, OverridesInOrder, NEW r \in Run, NEW s \in Slug,
         run[r].slug = s \/ ~Holding(run[r]),
         run'[r].slug = s,
         \A q \in Run : q # r => run'[q] = run[q],
         \A z \in Slug : z # s => override'[z] = override[z] /\ intended'[z] = intended[z],
         HeldInOrder(s)'
  PROVE  OverridesInOrder'
<1> SUFFICES ASSUME NEW z \in Slug, z # s
             PROVE  HeldInOrder(z)'
  BY DEF OverridesInOrder
<1>1. HeldInOrder(z)
  BY DEF OverridesInOrder
<1>2. Holders(z)' = Holders(z) /\ r \notin Holders(z)
  BY DEF Holders, Holding
<1>3. \A q \in Holders(z) : run'[q] = run[q]
  BY <1>2 DEF Holders
<1> QED BY <1>1, <1>2, <1>3 DEF HeldInOrder

\* A request that answers lets go of the override.
LEMMA AnsweredHolds ==
  ASSUME ComposeTypeOK, NEW r \in Run, NEW a, run[r].stage # "unused", run' = Answered(r, a)
  PROVE  /\ ~Holding(run'[r]) /\ run'[r].slug = run[r].slug
         /\ \A q \in Run : q # r => run'[q] = run[q]
<1>1. run[r] \in RunRecord
  BY StageUsed
<1> QED BY <1>1 DEF ComposeTypeOK, Answered, Holding, RunRecord

\* A holder lets go of the file as it found it, or as it says it is.
LEMMA HolderLeaves ==
  ASSUME ComposeTypeOK, OverridesInOrder, NEW r \in Run, NEW s \in Slug,
         Holding(run[r]), run[r].slug = s, NEW a, run' = Answered(r, a),
         override' \in {override, [override EXCEPT ![s] = run[r].saved],
                        [override EXCEPT ![s] = run[r].image]},
         \/ intended' = Unclear(s)
         \/ intended' = intended /\ override' = [override EXCEPT ![s] = run[r].saved]
         \/ intended' = intended /\ override' = override /\ run[r].stage = "saved"
         \/ /\ override' = override /\ run[r].stage = "written"
            /\ intended' = IF intended[s] = "unclear" THEN intended
                            ELSE [intended EXCEPT ![s] = run[r].image]
  PROVE  OverridesInOrder'
<1>1. intended \in [Slug -> Image \cup {"unclear"}] /\ override \in [Slug -> Image]
  BY DEF ComposeTypeOK
<1>2. HeldInOrder(s) /\ r \in Holders(s)
  BY DEF OverridesInOrder, Holders, Holding
<1>3. /\ ~Holding(run'[r]) /\ run'[r].slug = s
      /\ \A q \in Run : q # r => run'[q] = run[q]
  BY AnsweredHolds DEF Holding
<1>4. Holders(s)' = Holders(s) \ {r}
  BY <1>3 DEF Holders, Holding
<1>5. \A z \in Slug : z # s => override'[z] = override[z] /\ intended'[z] = intended[z]
  BY <1>1 DEF Unclear
<1>6. ASSUME intended'[s] # "unclear"
      PROVE  intended[s] # "unclear" /\ Holders(s)' = {} /\ override'[s] = intended'[s]
  <2>1. intended[s] # "unclear"
    BY <1>6, <1>1 DEF Unclear
  <2>2. /\ Holders(s) = {r} /\ run[r].saved = intended[s]
        /\ run[r].stage = "written" => override[s] = run[r].image
        /\ run[r].stage = "saved" => override[s] = intended[s]
    BY <2>1, <1>2 DEF HeldInOrder
  <2>3. override'[s] = intended'[s]
    BY <2>1, <2>2, <1>6, <1>1 DEF Unclear
  <2> QED BY <2>1, <2>2, <2>3, <1>4
<1>7. HeldInOrder(s)'
  BY <1>6 DEF HeldInOrder
<1> QED BY <1>3, <1>5, <1>7, OtherSlugs

\* A holder's own content is in place.
LEMMA HolderWrites ==
  ASSUME ComposeTypeOK, OverridesInOrder, NEW r \in Run, NEW s \in Slug,
         run[r].stage = "saved", run[r].slug = s,
         run' = [run EXCEPT ![r].stage = "written"],
         override' = [override EXCEPT ![s] = run[r].image],
         UNCHANGED intended
  PROVE  OverridesInOrder'
<1>1. intended \in [Slug -> Image \cup {"unclear"}] /\ override \in [Slug -> Image]
  BY DEF ComposeTypeOK
<1>2. HeldInOrder(s) /\ r \in Holders(s)
  BY DEF OverridesInOrder, Holders
<1>3. run[r] \in RunRecord /\ run \in [Run -> RunRecord \cup {Unused}]
  BY StageUsed DEF ComposeTypeOK
<1>4. /\ run'[r].stage = "written" /\ run'[r].slug = s
      /\ run'[r].saved = run[r].saved /\ run'[r].image = run[r].image
      /\ \A q \in Run : q # r => run'[q] = run[q]
  BY <1>3 DEF RunRecord
<1>5. Holders(s)' = Holders(s)
  BY <1>2, <1>4 DEF Holders
<1>6. \A z \in Slug : z # s => override'[z] = override[z] /\ intended'[z] = intended[z]
  BY <1>1
<1>7. override'[s] = run'[r].image
  BY <1>1, <1>4
<1>8. HeldInOrder(s)'
  BY <1>2, <1>4, <1>5, <1>7 DEF HeldInOrder
<1> QED BY <1>4, <1>6, <1>8, OtherSlugs

\* A holder writes or ends.
LEMMA HolderKeepsOrder ==
  ASSUME ComposeTypeOK, OverridesInOrder, NEW r \in Run,
         OverrideWritten(r) \/ BuildEnds(r) \/ EditEnds(r)
  PROVE  OverridesInOrder'
<1>1. run[r].stage \in {"saved", "written"} /\ Holding(run[r])
  BY DEF OverrideWritten, BuildEnds, EditEnds, Holding
<1>2. run[r] \in RunRecord
  BY <1>1, StageUsed
<1>3. PICK s \in Slug : run[r].slug = s
  BY <1>2 DEF RunRecord
<1>4. CASE OverrideWritten(r)
  <2>1. run[r].stage = "saved"
    BY <1>4 DEF OverrideWritten
  <2>2. CASE /\ run' = [run EXCEPT ![r].stage = "written"]
             /\ override' = [override EXCEPT ![s] = run[r].image]
             /\ UNCHANGED intended
    BY <2>1, <2>2, <1>3, HolderWrites
  <2>3. CASE /\ run' = Answered(r, "failed")
             /\ override' \in {override, [override EXCEPT ![s] = run[r].image]}
             /\ intended' = Unclear(s)
    BY <2>3, <1>1, <1>3, HolderLeaves
  <2> QED BY <1>3, <1>4, <2>2, <2>3 DEF OverrideWritten
<1>5. CASE BuildEnds(r)
  <2>1. PICK a \in {"ok", "failed"} : run' = Answered(r, a)
    BY <1>5 DEF BuildEnds
  <2>2. \/ override' = [override EXCEPT ![s] = run[r].saved] /\ intended' = intended
        \/ override' = override /\ intended' = Unclear(s)
    BY <1>3, <1>5 DEF BuildEnds, Restored
  <2> QED BY <2>1, <2>2, <1>1, <1>3, HolderLeaves
<1>6. CASE EditEnds(r)
  <2>1. PICK a \in {"ok", "failed"} : run' = Answered(r, a)
    BY <1>6 DEF EditEnds
  <2>2. \/ run[r].stage = "saved" /\ override' = override /\ intended' = intended
        \/ /\ run[r].stage = "written" /\ override' = override
           /\ intended' = IF intended[s] = "unclear" THEN intended
                           ELSE [intended EXCEPT ![s] = run[r].image]
        \/ override' = [override EXCEPT ![s] = run[r].saved] /\ intended' = intended
        \/ override' = override /\ intended' = Unclear(s)
    BY <1>3, <1>6 DEF EditEnds, Restored
  <2> QED BY <2>1, <2>2, <1>1, <1>3, HolderLeaves
<1> QED BY <1>4, <1>5, <1>6

\* A request that arrives: a build or an edit takes hold, a release writes.
LEMMA ArrivalKeepsOrder ==
  ASSUME ComposeTypeOK, OverridesInOrder, NEW r \in Run, NEW s \in Slug, NEW image \in Image,
         run[r].stage = "unused",
         \/ Accept(r, s)
         \/ AcceptFails(r, s)
         \/ \E kind \in Kind : OverrideRead(r, kind, s, image)
         \/ SandboxStarts(r, s, image)
         \/ BuildRefused(r, s, image)
         \/ Pin(r, s, image)
  PROVE  OverridesInOrder'
<1>1. /\ run \in [Run -> RunRecord \cup {Unused}]
      /\ intended \in [Slug -> Image \cup {"unclear"}] /\ override \in [Slug -> Image]
  BY DEF ComposeTypeOK
<1>2. ~Holding(run[r]) /\ HeldInOrder(s) /\ r \notin Holders(s)
  BY DEF Holding, OverridesInOrder, Holders
<1>3. CASE \/ Accept(r, s) \/ AcceptFails(r, s)
           \/ SandboxStarts(r, s, image) \/ BuildRefused(r, s, image)
  <2>1. /\ ~Holding(run'[r]) /\ \A q \in Run : q # r => run'[q] = run[q]
        /\ UNCHANGED <<override, intended>>
    <3>1. CASE Accept(r, s)
      BY <1>1, <3>1 DEF Accept, Unused, Holding
    <3>2. CASE AcceptFails(r, s)
      BY <1>1, <3>2 DEF AcceptFails, Unused, Holding
    <3>3. CASE SandboxStarts(r, s, image)
      BY <1>1, <3>3 DEF SandboxStarts, Unused, Holding
    <3>4. CASE BuildRefused(r, s, image)
      BY <1>1, <3>4 DEF BuildRefused, Unused, Holding
    <3> QED BY <1>3, <3>1, <3>2, <3>3, <3>4
  <2> QED BY <2>1, OrderStands DEF HoldsAlike
<1>4. CASE \E kind \in Kind : OverrideRead(r, kind, s, image)
  <2>0. PICK kind \in Kind : OverrideRead(r, kind, s, image)
    BY <1>4
  <2>1. PICK found \in {override[s], None} :
          /\ run' = [run EXCEPT ![r] = [Unused EXCEPT !.kind = kind, !.slug = s,
                       !.stage = "saved", !.image = image, !.saved = found]]
          /\ intended' = IF Holders(s) # {} \/ found # override[s] THEN Unclear(s) ELSE intended
    BY <2>0, ReadFacts
  <2>2. /\ run'[r].slug = s /\ run'[r].stage = "saved" /\ run'[r].saved = found
        /\ \A q \in Run : q # r => run'[q] = run[q]
    BY <1>1, <2>1 DEF Unused
  <2>3. UNCHANGED override
    BY <2>0 DEF OverrideRead
  <2>4. Holders(s)' = Holders(s) \cup {r}
    BY <2>2 DEF Holders
  <2>5. \A z \in Slug : z # s => override'[z] = override[z] /\ intended'[z] = intended[z]
    BY <1>1, <2>1, <2>3 DEF Unclear
  <2>6. HeldInOrder(s)'
    <3> SUFFICES ASSUME intended'[s] # "unclear"
                 PROVE  HeldInOrder(s)'
      BY DEF HeldInOrder
    <3>1. intended' = intended /\ Holders(s) = {} /\ found = override[s]
      BY <1>1, <2>1 DEF Unclear
    <3>2. override[s] = intended[s]
      BY <3>1, <1>2 DEF HeldInOrder
    <3> QED BY <3>1, <3>2, <2>2, <2>3, <2>4 DEF HeldInOrder
  <2> QED BY <2>2, <2>5, <2>6, <1>2, OtherSlugs
<1>5. CASE Pin(r, s, image)
  <2>1. PICK a \in {"ok", "failed"}, written \in BOOLEAN :
          /\ run' = [run EXCEPT ![r] = [Unused EXCEPT !.kind = "pin", !.slug = s,
                       !.stage = "answered", !.answer = a, !.image = image]]
          /\ override' = IF written THEN [override EXCEPT ![s] = image] ELSE override
          /\ intended' = IF ~written THEN intended
                          ELSE IF Holders(s) # {} THEN Unclear(s)
                          ELSE [intended EXCEPT ![s] = image]
    BY <1>5 DEF Pin
  <2>2. /\ run'[r].slug = s /\ ~Holding(run'[r])
        /\ \A q \in Run : q # r => run'[q] = run[q]
    BY <1>1, <2>1 DEF Unused, Holding
  <2>3. Holders(s)' = Holders(s) /\ \A q \in Holders(s) : run'[q] = run[q]
    BY <2>2, <1>2 DEF Holders, Holding
  <2>4. \A z \in Slug : z # s => override'[z] = override[z] /\ intended'[z] = intended[z]
    BY <1>1, <2>1 DEF Unclear
  <2>5. HeldInOrder(s)'
    <3>1. CASE ~written
      BY <3>1, <2>1, <2>3, <1>2 DEF HeldInOrder
    <3>2. CASE written /\ Holders(s) # {}
      <4>1. intended'[s] = "unclear"
        BY <3>2, <2>1, <1>1 DEF Unclear
      <4> QED BY <4>1 DEF HeldInOrder
    <3>3. CASE written /\ Holders(s) = {}
      <4>1. override'[s] = image /\ intended'[s] = image
        BY <3>3, <2>1, <1>1
      <4> QED BY <4>1, <3>3, <2>3 DEF HeldInOrder
    <3> QED BY <2>1, <3>1, <3>2, <3>3
  <2> QED BY <2>2, <2>4, <2>5, <1>2, OtherSlugs
<1> QED BY <1>3, <1>4, <1>5

\* A request or a host process that has nothing to do with the override goes on.
LEMMA StepKeepsOrder ==
  ASSUME ComposeTypeOK, RunsInShape, OverridesInOrder, NEW r \in Run,
         RunStep(r) \/ ProcessStep(r)
  PROVE  OverridesInOrder'
<1>1. CASE OverrideWritten(r) \/ BuildEnds(r) \/ EditEnds(r)
  BY <1>1, HolderKeepsOrder
<1>2. ASSUME ~Holding(run[r]), ~Holding(run'[r]), UNCHANGED <<override, intended>>,
             \A q \in Run : q # r => run'[q] = run[q]
      PROVE  OverridesInOrder'
  <2>1. \A q \in Run : Holding(run'[q]) \/ run[q].stage = "written" => run'[q] = run[q]
    BY <1>2 DEF Holding
  <2> QED BY <1>2, <2>1, OrderStands DEF HoldsAlike
<1>3. run \in [Run -> RunRecord \cup {Unused}] /\ RunShape(run[r])
  BY DEF ComposeTypeOK, RunsInShape
<1>4. CASE RunStep(r) /\ ~(OverrideWritten(r) \/ BuildEnds(r) \/ EditEnds(r))
  <2>0. /\ Resolve(r) \/ StartRecreate(r) \/ RemoteEnded(r) \/ FailRun(r)
           \/ Record(r) \/ SandboxEnds(r)
        /\ ~Holding(run[r]) /\ run[r].stage # "unused"
        /\ UNCHANGED <<override, intended>>
    BY <1>4 DEF RunStep, Resolve, StartRecreate, RemoteEnded, FailRun, Record, SandboxEnds, Holding
  <2>1. run[r] \in RunRecord
    BY <2>0, StageUsed
  <2>2. CASE Resolve(r) \/ StartRecreate(r) \/ RemoteEnded(r)
    <3>1. CASE Resolve(r)
      <4>1. run'[r].stage = "resolved" /\ \A q \in Run : q # r => run'[q] = run[q]
        BY <1>3, <2>1, <3>1 DEF Resolve, RunRecord
      <4> QED BY <4>1, <2>0, <1>2 DEF Holding
    <3>2. CASE StartRecreate(r)
      <4>1. run'[r].stage \in {"recording", "deploying"} /\ \A q \in Run : q # r => run'[q] = run[q]
        BY <1>3, <2>1, <3>2 DEF StartRecreate, RunRecord
      <4> QED BY <4>1, <2>0, <1>2 DEF Holding
    <3>3. CASE RemoteEnded(r)
      <4>1. run'[r].stage = "recording" /\ \A q \in Run : q # r => run'[q] = run[q]
        BY <1>3, <2>1, <3>3 DEF RemoteEnded, RunRecord
      <4> QED BY <4>1, <2>0, <1>2 DEF Holding
    <3> QED BY <2>2, <3>1, <3>2, <3>3
  <2>3. CASE FailRun(r) \/ Record(r) \/ SandboxEnds(r)
    <3>1. PICK a \in {"ok", "detached", "failed"} : run' = Answered(r, a)
      BY <2>3 DEF FailRun, Record, SandboxEnds
    <3> QED BY <3>1, <2>0, <1>2, AnsweredHolds
  <2> QED BY <2>0, <2>2, <2>3
<1>5. CASE ProcessStep(r)
  <2>1. /\ run[r].process \in {"executing", "recreated"}
        /\ UNCHANGED <<override, intended>>
    BY <1>5 DEF ProcessStep, Recreate, RecreateFails, Verify, EndProcess
  <2>2. run[r] \in RunRecord /\ ~Holding(run[r])
    BY <2>1, <1>3, StageUsed DEF RunShape, Holding
  <2>3. CASE Recreate(r)
    <3>1. run'[r].stage = run[r].stage /\ \A q \in Run : q # r => run'[q] = run[q]
      BY <1>3, <2>2, <2>3 DEF Recreate, RunRecord
    <3> QED BY <3>1, <2>1, <2>2, <1>2 DEF Holding
  <2>4. CASE RecreateFails(r) \/ Verify(r)
    <3>1. PICK v \in {"success", "failed"} :
            run' = [run EXCEPT ![r].process = "ended", ![r].verdict = v]
      BY <2>4 DEF RecreateFails, Verify, EndProcess
    <3>2. run'[r].stage = run[r].stage /\ \A q \in Run : q # r => run'[q] = run[q]
      BY <1>3, <2>2, <3>1 DEF RunRecord
    <3> QED BY <3>2, <2>1, <2>2, <1>2 DEF Holding
  <2> QED BY <1>5, <2>3, <2>4 DEF ProcessStep
<1> QED BY <1>1, <1>4, <1>5

\* Time, log requests and crashes: what dies with a write in place leaves the
\* file unclear.
LEMMA EnvironmentKeepsOrder ==
  ASSUME ComposeTypeOK, OverridesInOrder,
         \/ \E p \in Reader : ReadStep(p) \/ \E s \in Slug : LogRead(p, s)
         \/ \E s \in Slug : Stall(s) \/ ComposeUp(s)
         \/ ServerCrash
         \/ HostReboot
  PROVE  OverridesInOrder'
<1>1. ASSUME UNCHANGED <<run, override, intended>>
      PROVE  OverridesInOrder'
  BY <1>1, OrderStands DEF HoldsAlike
<1>2. CASE \E p \in Reader : ReadStep(p) \/ \E s \in Slug : LogRead(p, s)
  BY <1>2, <1>1 DEF ReadStep, RowFound, RowSettled, LogRead, hostVars
<1>3. CASE \E s \in Slug : Stall(s) \/ ComposeUp(s)
  BY <1>3, <1>1 DEF Stall, ComposeUp
<1>4. ASSUME NEW r \in Run
      PROVE  Open(r) => /\ ~Holding([run[r] EXCEPT !.stage = "lost"])
                        /\ [run[r] EXCEPT !.stage = "lost"].process = run[r].process
  BY <1>4, StageUsed DEF Open, RunRecord, Holding
<1>5. \A r \in Run : ~Holding(RequestsLost[r])
  BY <1>4 DEF RequestsLost, Open, Holding
<1>6. intended' = WritesLost =>
        /\ \A s \in Slug : intended'[s] \in {intended[s], "unclear"}
        /\ \A r \in Run : run[r].stage = "written" => intended'[run[r].slug] = "unclear"
  <2>1. \A r \in Run : run[r].stage = "written" =>
            run[r].slug \in Slug /\ Holders(run[r].slug) # {}
    BY StageUsed DEF Holders, RunRecord
  <2> QED BY <2>1 DEF WritesLost
<1>7. CASE ServerCrash
  <2>1. run' = RequestsLost /\ intended' = WritesLost /\ UNCHANGED override
    BY <1>7 DEF ServerCrash
  <2> QED BY <2>1, <1>5, <1>6, OrderStands
<1>8. CASE HostReboot
  <2> DEFINE before(r) == IF LocalVps THEN RequestsLost[r] ELSE run[r]
  <2>1. UNCHANGED override
    BY <1>8 DEF HostReboot
  <2>2. \A r \in Run : run'[r] = IF before(r).process \in {"executing", "recreated"}
                                  THEN [before(r) EXCEPT !.process = "ended"] ELSE before(r)
    BY <1>8 DEF HostReboot
  <2>3. \A q \in RunRecord \cup {Unused} : HoldsAlike(q, [q EXCEPT !.process = "ended"])
    BY DEF RunRecord, Unused, HoldsAlike
  <2>4. \A r \in Run : before(r) \in RunRecord \cup {Unused}
    <3>1. ASSUME NEW r \in Run
          PROVE  RequestsLost[r] \in RunRecord \cup {Unused}
      <4>1. CASE Open(r)
        <5>1. run[r] \in RunRecord
          BY <4>1, StageUsed DEF Open
        <5>2. [run[r] EXCEPT !.stage = "lost"] \in RunRecord
          BY <5>1 DEF RunRecord
        <5> QED BY <4>1, <5>2 DEF RequestsLost
      <4>2. CASE ~Open(r)
        BY <4>2 DEF RequestsLost, ComposeTypeOK
      <4> QED BY <4>1, <4>2
    <3> QED BY <3>1 DEF ComposeTypeOK
  <2>5. \A r \in Run : HoldsAlike(before(r), run'[r])
    BY <2>2, <2>3, <2>4 DEF HoldsAlike
  <2> HIDE DEF before
  <2>6. CASE LocalVps
    <3>1. \A r \in Run : ~Holding(run'[r])
      BY <2>5, <2>6, <1>5 DEF before, HoldsAlike, Holding
    <3>2. intended' = WritesLost
      BY <1>8, <2>6 DEF HostReboot
    <3> QED BY <3>1, <3>2, <1>6, <2>1, OrderStands
  <2>7. CASE ~LocalVps
    <3>1. \A r \in Run : HoldsAlike(run[r], run'[r])
      BY <2>5, <2>7 DEF before
    <3>2. UNCHANGED intended
      BY <1>8, <2>7 DEF HostReboot
    <3> QED BY <3>1, <3>2, <2>1, OrderStands
  <2> QED BY <2>6, <2>7
<1> QED BY <1>2, <1>3, <1>7, <1>8

\* The state of the Compose endpoints and their host is well formed after every
\* action of any caller, for any number of runs, slugs, faults and crashes.
THEOREM ComposeTypeCorrect ==
  /\ ComposeInit => ComposeTypeOK
  /\ ComposeTypeOK /\ ComposeAction => ComposeTypeOK'
<1>1. ComposeInit => ComposeTypeOK
  BY ComposeAssumption DEF ComposeInit, ComposeTypeOK, LogRecord, Verdict, Image,
                           ReaderRecord, Idle, RowHeld
<1>2. ASSUME ComposeTypeOK, ComposeAction
      PROVE  ComposeTypeOK'
  <2>1. ASSUME NEW r \in Run, RunStep(r)
        PROVE  ComposeTypeOK'
    BY <1>2, <2>1, RunStepType
  <2>2. ASSUME NEW r \in Run, ProcessStep(r)
        PROVE  ComposeTypeOK'
    BY <1>2, <2>2, ProcessStepType
  <2>3. ASSUME NEW r \in Run, NEW s \in Slug, Accept(r, s) \/ AcceptFails(r, s)
        PROVE  ComposeTypeOK'
    <3>1. None \in Image
      BY DEF Image
    <3> QED BY <1>2, <2>3, <3>1, ArrivalType
  <2>4. ASSUME NEW r \in Run, NEW s \in Slug, NEW image \in Image,
               \/ \E kind \in Kind : OverrideRead(r, kind, s, image)
               \/ SandboxStarts(r, s, image)
               \/ BuildRefused(r, s, image)
               \/ Pin(r, s, image)
        PROVE  ComposeTypeOK'
    BY <1>2, <2>4, ArrivalType
  <2>5. ASSUME NEW p \in Reader, ReadStep(p) \/ \E s \in Slug : LogRead(p, s)
        PROVE  ComposeTypeOK'
    BY <1>2, <2>5, ReadingType
  <2> QED BY <1>2, <2>1, <2>2, <2>3, <2>4, <2>5, EnvironmentType DEF ComposeAction
<1> QED BY <1>1, <1>2
=============================================================================
