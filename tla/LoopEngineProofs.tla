-------------------------- MODULE LoopEngineProofs --------------------------
(***************************************************************************)
(* Whatever requests overlap and whatever host calls throw, every saved    *)
(* run of the Loop engine is coherent and no handler asks for a transition *)
(* the state machine does not have, for any number of requests and runs.   *)
(* If requests come one at a time and host calls do not throw, a plan is   *)
(* executed at most once, no saved run goes back, what was acted upon is   *)
(* decided, a rollback writes what could be known of the proxy the action  *)
(* found, and the revision of a run remembered as recovered is installed.  *)
(***************************************************************************)
EXTENDS LoopEngine, FiniteSetTheorems, TLAPS

\* Where a handler works on a run that is not saved in the state it has.
Stages == {"exercising", "applying", "verifying", "rolling_back"}

\* A run of the engine, or of a copy in which nobody works on it.
Saved(copy, r) ==
  /\ Coherent(copy, r)
  /\ copy.runs[r].state = "none" => copy.runs[r].effects = {}

\* The run a handler works on, in its copy.
Worked(copy, r, stage) ==
  LET run == copy.runs[r] IN
  /\ run.state = stage
  /\ run.plan \in Run => copy.revisions[run.plan] # <<>>
  /\ stage = "exercising" => run.effects = {}
  /\ "rollbackDone" \notin run.effects
  /\ stage \in {"verifying", "rolling_back"} => "mutationApplied" \in run.effects
  /\ stage = "rolling_back" =>
       "verificationDone" \in run.effects /\ copy.revisions[r] # <<>>

Others(copy, own) == \A r \in Run : r # own => Saved(copy, r)

\* What a handler at some stage may rely on about its copy.
Fits(copy, r, stage) ==
  /\ stage \in {"observing", "probing"} => \A x \in Run : Saved(copy, x)
  /\ stage \in Stages => r \in Run /\ Worked(copy, r, stage) /\ Others(copy, r)

HostOK ==
  /\ seen \in [Request -> Content]
  /\ proxy \in Proxy
  /\ edits \in 0..MaxEdits
  /\ mutated \in [Request -> SUBSET Proxy]
  /\ drift \in BOOLEAN

IInv ==
  /\ Types
  /\ \A r \in Run : Saved(engine, r)
  /\ \A q \in Request : pc[q] # "invalid" /\ Fits(held[q], about[q], pc[q])

-----------------------------------------------------------------------------
(* The paths handlers take are paths of the state machine.                 *)

LEMMA OneMove ==
  ASSUME NEW from, NEW a, a \in Transitions[from]
  PROVE  Legal(from, <<a>>)
BY DEF Legal

LEMMA TwoMoves ==
  ASSUME NEW from, NEW a, NEW b, a \in Transitions[from], b \in Transitions[a]
  PROVE  Legal(from, <<a, b>>)
BY DEF Legal

LEMMA ThreeMoves ==
  ASSUME NEW from, NEW a, NEW b, NEW c,
         a \in Transitions[from], b \in Transitions[a], c \in Transitions[b]
  PROVE  Legal(from, <<a, b, c>>)
BY DEF Legal

LEMMA PathsAreLegal ==
  /\ Legal("exercising", <<"verified_healthy", "remembered">>)
  /\ Legal("exercising", <<"investigating", "guided">>)
  /\ Legal("exercising", <<"investigating", "planning", "awaiting_approval">>)
  /\ Legal("applying", <<"failed", "guided">>)
  /\ Legal("applying", <<"verifying">>)
  /\ Legal("verifying", <<"recovered", "remembered">>)
  /\ Legal("verifying", <<"rolling_back", "guided">>)
  /\ Legal("verifying", <<"rolling_back">>)
  /\ Legal("rolling_back", <<"guided">>)
  /\ Legal("rolling_back", <<"failed", "guided">>)
<1>1. /\ Transitions["exercising"] = {"verified_healthy", "investigating", "cancelled"}
      /\ Transitions["verified_healthy"] = {"remembered", "cancelled"}
      /\ Transitions["investigating"] = {"guided", "planning", "failed", "cancelled"}
      /\ Transitions["planning"] = {"awaiting_approval", "guided", "cancelled"}
      /\ Transitions["applying"] = {"verifying", "failed", "guided", "cancelled"}
      /\ Transitions["verifying"] = {"recovered", "rolling_back", "failed", "cancelled"}
      /\ Transitions["rolling_back"] = {"investigating", "guided", "failed", "cancelled"}
      /\ Transitions["recovered"] = {"remembered", "cancelled"}
      /\ Transitions["failed"] = {"guided", "cancelled"}
  BY DEF Transitions
<1> QED
  BY <1>1, OneMove, TwoMoves, ThreeMoves

LEMMA RunStates ==
  RunState = {"none", "observed", "correlating", "stabilized", "exercising", "verified_healthy",
              "investigating", "guided", "planning", "awaiting_approval", "applying",
              "verifying", "rolling_back", "recovered", "remembered", "failed", "cancelled"}
BY DEF RunState, Transitions

-----------------------------------------------------------------------------
(* The proxy and what is known of it.                                      *)

LEMMA EmptyContent == <<>> \in Content
BY DEF Content

LEMMA ProxyShape ==
  ASSUME NEW p \in Proxy
  PROVE  /\ p.main \in Content
         /\ Observed(p) \in Content
<1>1. /\ p.main \in Seq(Block) /\ p.sites \in Seq(Block) /\ p.nginx \in Seq(Block)
  BY DEF Proxy, Content
<1>2. p.main \o p.sites \in Seq(Block)
  BY <1>1
<1> QED
  BY <1>1, <1>2 DEF Observed, Content

LEMMA InstalledShape ==
  ASSUME proxy \in Proxy, NEW content \in Content
  PROVE  Installed(content) \in Proxy /\ Installed(content).main = content
BY DEF Installed, Proxy

\* Only the mirror and the last observation change with what is seen or restored.
LEMMA IngestedShape ==
  ASSUME NEW copy \in Engine, NEW content \in Content
  PROVE  /\ Ingested(copy, content) \in Engine
         /\ Ingested(copy, content).runs = copy.runs
         /\ Ingested(copy, content).revisions = copy.revisions
         /\ Ingested(copy, content).mirror =
              IF content = <<>> THEN copy.mirror ELSE content
BY DEF Ingested, Engine

LEMMA MirroringShape ==
  ASSUME NEW copy \in Engine, NEW content \in Content
  PROVE  /\ Mirroring(copy, content) \in Engine
         /\ Mirroring(copy, content).runs = copy.runs
         /\ Mirroring(copy, content).revisions = copy.revisions
         /\ Mirroring(copy, content).mirror = content
BY DEF Mirroring, Engine

-----------------------------------------------------------------------------
(* Copies of the engine.                                                   *)

LEMMA CopyShape ==
  ASSUME NEW copy \in Engine, NEW r \in Run
  PROVE  /\ copy.runs \in [Run -> RunRecord]
         /\ copy.runs[r] \in RunRecord
         /\ copy.runs[r].state \in RunState
         /\ copy.runs[r].effects \in SUBSET Effect
         /\ copy.runs[r].plan \in Plan
         /\ copy.scanned \in BOOLEAN
         /\ copy.last \in Content
         /\ copy.mirror \in Content
         /\ copy.revisions \in [Run -> Content]
         /\ copy.revisions[r] \in Content
         /\ copy.events \in SUBSET Request
BY DEF Engine, RunRecord

LEMMA MovedShape ==
  ASSUME NEW copy \in Engine, NEW r \in Run, NEW state \in RunState,
         NEW effects \in SUBSET Effect
  PROVE  /\ Moved(copy, r, state, effects) \in Engine
         /\ Moved(copy, r, state, effects).runs[r].state = state
         /\ Moved(copy, r, state, effects).runs[r].effects = copy.runs[r].effects \cup effects
         /\ Moved(copy, r, state, effects).runs[r].plan = copy.runs[r].plan
         /\ Moved(copy, r, state, effects).revisions = copy.revisions
         /\ \A x \in Run : x # r => Moved(copy, r, state, effects).runs[x] = copy.runs[x]
<1>1. /\ copy.runs \in [Run -> RunRecord]
      /\ copy.runs[r] \in RunRecord
  BY CopyShape
<1> DEFINE own == [copy.runs[r] EXCEPT !.state = state, !.effects = @ \cup effects]
<1>2. /\ own \in RunRecord
      /\ own.state = state
      /\ own.effects = copy.runs[r].effects \cup effects
      /\ own.plan = copy.runs[r].plan
  BY <1>1 DEF RunRecord
<1>3. Moved(copy, r, state, effects) = [copy EXCEPT !.runs = [copy.runs EXCEPT ![r] = own]]
  BY <1>1 DEF Moved, Engine, RunRecord
<1> HIDE DEF own
<1>4. [copy.runs EXCEPT ![r] = own] \in [Run -> RunRecord]
  BY <1>1, <1>2
<1>5. /\ Moved(copy, r, state, effects) \in Engine
      /\ Moved(copy, r, state, effects).runs = [copy.runs EXCEPT ![r] = own]
      /\ Moved(copy, r, state, effects).revisions = copy.revisions
  BY <1>3, <1>4 DEF Engine
<1> QED
  BY <1>1, <1>2, <1>5

\* Being coherent depends on the run and the revisions only.
LEMMA SavedDepends ==
  ASSUME NEW copy, NEW other, NEW r \in Run, Saved(copy, r),
         other.runs[r] = copy.runs[r],
         \A x \in Run : copy.revisions[x] # <<>> => other.revisions[x] # <<>>
  PROVE  Saved(other, r)
BY DEF Saved, Coherent

LEMMA EmptyIsSaved ==
  /\ EmptyEngine \in Engine
  /\ \A r \in Run : Saved(EmptyEngine, r)
<1>1. [state |-> "none", effects |-> {}, plan |-> None] \in RunRecord
  BY RunStates DEF RunRecord, Plan
<1>2. EmptyEngine \in Engine
  BY <1>1, EmptyContent DEF EmptyEngine, Engine
<1>3. ASSUME NEW r \in Run PROVE Saved(EmptyEngine, r)
  BY LoopAssumption DEF Saved, Coherent, EmptyEngine
<1> QED
  BY <1>2, <1>3

-----------------------------------------------------------------------------
(* What every way to end a step keeps.                                     *)

LEMMA TypeShape ==
  ASSUME Types, NEW q \in Request
  PROVE  /\ engine \in Engine
         /\ pc \in [Request -> Open \cup {"new", "done", "invalid"}]
         /\ about \in [Request -> Run \cup {None}]
         /\ mode \in [Request -> Mode \cup {None}]
         /\ held \in [Request -> Engine] /\ held[q] \in Engine
         /\ HostOK
BY DEF Types, HostOK

LEMMA SaveKeeps ==
  ASSUME IInv, NEW q \in Request, NEW copy \in Engine, \A r \in Run : Saved(copy, r),
         Save(q, copy), UNCHANGED about, HostOK'
  PROVE  IInv'
<1>0. /\ Types
      /\ \A p \in Request : pc[p] # "invalid" /\ Fits(held[p], about[p], pc[p])
  BY DEF IInv
<1>1. /\ engine' = copy
      /\ pc' = [pc EXCEPT ![q] = "done"]
      /\ held' = [held EXCEPT ![q] = EmptyEngine]
      /\ mode' = [mode EXCEPT ![q] = None]
      /\ about' = about
  BY DEF Save
<1>2. Types'
  BY <1>0, <1>1, TypeShape, EmptyIsSaved DEF Types, HostOK
<1>3. (\A r \in Run : Saved(engine, r))'
  BY <1>1 DEF Saved, Coherent
<1>4. ASSUME NEW p \in Request
      PROVE  pc'[p] # "invalid" /\ Fits(held'[p], about'[p], pc'[p])
  <2>1. CASE p = q
    <3>1. pc'[q] = "done"
      BY <1>0, <1>1, TypeShape
    <3> QED
      BY <2>1, <3>1 DEF Fits, Stages
  <2>2. CASE p # q
    <3>1. pc'[p] = pc[p] /\ held'[p] = held[p]
      BY <2>2, <1>0, <1>1, TypeShape
    <3> QED
      BY <3>1, <1>0, <1>1
  <2> QED
    BY <2>1, <2>2
<1> QED
  BY <1>2, <1>3, <1>4 DEF IInv

LEMMA GoOnKeeps ==
  ASSUME IInv, NEW q \in Request, NEW stage \in Open \cup {"done"}, NEW copy \in Engine,
         Fits(copy, about[q], stage), GoOn(q, stage, copy), UNCHANGED about, HostOK'
  PROVE  IInv'
<1>0. /\ Types
      /\ \A r \in Run : Saved(engine, r)
      /\ \A p \in Request : pc[p] # "invalid" /\ Fits(held[p], about[p], pc[p])
  BY DEF IInv
<1>1. /\ engine' = engine
      /\ pc' = [pc EXCEPT ![q] = stage]
      /\ held' = [held EXCEPT ![q] = copy]
      /\ mode' \in {mode, [mode EXCEPT ![q] = None]}
      /\ about' = about
  BY DEF GoOn
<1>2. Types'
  BY <1>0, <1>1, TypeShape DEF Types, HostOK
<1>3. (\A r \in Run : Saved(engine, r))'
  BY <1>0, <1>1 DEF Saved, Coherent
<1>4. ASSUME NEW p \in Request
      PROVE  pc'[p] # "invalid" /\ Fits(held'[p], about'[p], pc'[p])
  <2>1. CASE p = q
    <3>1. pc'[q] = stage /\ held'[q] = copy /\ stage # "invalid"
      BY <1>0, <1>1, TypeShape DEF Open
    <3> QED
      BY <2>1, <3>1, <1>1
  <2>2. CASE p # q
    <3>1. pc'[p] = pc[p] /\ held'[p] = held[p]
      BY <2>2, <1>0, <1>1, TypeShape
    <3> QED
      BY <3>1, <1>0, <1>1
  <2> QED
    BY <2>1, <2>2
<1> QED
  BY <1>2, <1>3, <1>4 DEF IInv

LEMMA TakeKeeps ==
  ASSUME IInv, NEW q \in Request, NEW stage \in Open, NEW copy \in Engine,
         NEW r \in Run \cup {None}, NEW m \in Mode \cup {None},
         Fits(copy, r, stage), Take(q, stage, copy),
         about' = [about EXCEPT ![q] = r] \/ (about' = about /\ r = about[q]),
         mode' = [mode EXCEPT ![q] = m] \/ mode' = mode,
         UNCHANGED <<engine, seen, hostVars>>
  PROVE  IInv'
<1>0. /\ Types
      /\ \A x \in Run : Saved(engine, x)
      /\ \A p \in Request : pc[p] # "invalid" /\ Fits(held[p], about[p], pc[p])
  BY DEF IInv
<1>1. /\ engine' = engine
      /\ pc' = [pc EXCEPT ![q] = stage]
      /\ held' = [held EXCEPT ![q] = copy]
  BY DEF Take
<1>2. Types'
  <2>1. HostOK'
    BY <1>0, TypeShape DEF HostOK, hostVars
  <2>2. /\ about' \in [Request -> Run \cup {None}]
        /\ mode' \in [Request -> Mode \cup {None}]
    BY <1>0, TypeShape
  <2>3. /\ pc' \in [Request -> Open \cup {"new", "done", "invalid"}]
        /\ held' \in [Request -> Engine]
        /\ engine' \in Engine
    BY <1>0, <1>1, TypeShape
  <2> QED
    BY <2>1, <2>2, <2>3 DEF Types, HostOK
<1>3. (\A x \in Run : Saved(engine, x))'
  BY <1>0, <1>1 DEF Saved, Coherent
<1>4. ASSUME NEW p \in Request
      PROVE  pc'[p] # "invalid" /\ Fits(held'[p], about'[p], pc'[p])
  <2>1. CASE p = q
    <3>1. pc'[q] = stage /\ held'[q] = copy /\ about'[q] = r /\ stage # "invalid"
      BY <1>0, <1>1, TypeShape DEF Open
    <3> QED
      BY <2>1, <3>1
  <2>2. CASE p # q
    <3>1. pc'[p] = pc[p] /\ held'[p] = held[p] /\ about'[p] = about[p]
      BY <2>2, <1>0, <1>1, TypeShape
    <3> QED
      BY <3>1, <1>0
  <2> QED
    BY <2>1, <2>2
<1> QED
  BY <1>2, <1>3, <1>4 DEF IInv

\* A handler whose run can be moved along the path saves it, if it fits then.
LEMMA SaveMovedKeeps ==
  ASSUME IInv, NEW q \in Request, about[q] \in Run, NEW copy \in Engine, NEW path,
         NEW effects \in SUBSET Effect, NEW end \in RunState, path[Len(path)] = end,
         Legal(copy.runs[about[q]].state, path), Others(copy, about[q]),
         Saved(Moved(copy, about[q], end, effects), about[q]),
         SaveMoved(q, copy, path, effects), UNCHANGED about, HostOK'
  PROVE  IInv'
<1> DEFINE next == Moved(copy, about[q], end, effects)
<1>1. Save(q, next)
  BY DEF SaveMoved
<1>2. /\ next \in Engine
      /\ next.revisions = copy.revisions
      /\ \A x \in Run : x # about[q] => next.runs[x] = copy.runs[x]
  BY MovedShape
<1>3. Saved(next, about[q])
  OBVIOUS
<1> HIDE DEF next
<1>4. ASSUME NEW r \in Run PROVE Saved(next, r)
  <2>1. CASE r = about[q]
    BY <1>3, <2>1
  <2>2. CASE r # about[q]
    <3>1. Saved(copy, r)
      BY <2>2 DEF Others
    <3> QED
      BY <2>2, <3>1, <1>2, SavedDepends
  <2> QED
    BY <2>1, <2>2
<1> QED
  BY <1>1, <1>2, <1>4, SaveKeeps

\* The same for a handler that goes on.
LEMMA GoOnMovedKeeps ==
  ASSUME IInv, NEW q \in Request, about[q] \in Run, NEW copy \in Engine,
         NEW stage \in Stages, NEW effects \in SUBSET Effect,
         Legal(copy.runs[about[q]].state, <<stage>>), Others(copy, about[q]),
         Worked(Moved(copy, about[q], stage, effects), about[q], stage),
         GoOnMoved(q, copy, stage, effects), UNCHANGED about, HostOK'
  PROVE  IInv'
<1> DEFINE next == Moved(copy, about[q], stage, effects)
<1>1. GoOn(q, stage, next)
  BY DEF GoOnMoved
<1>2. stage \in RunState /\ stage \in Open /\ stage \notin {"observing", "probing"}
  BY RunStates DEF Stages, Open
<1>3. /\ next \in Engine
      /\ next.revisions = copy.revisions
      /\ \A x \in Run : x # about[q] => next.runs[x] = copy.runs[x]
  BY <1>2, MovedShape
<1>4. Worked(next, about[q], stage)
  OBVIOUS
<1> HIDE DEF next
<1>5. Others(next, about[q])
  <2> SUFFICES ASSUME NEW r \in Run, r # about[q] PROVE Saved(next, r)
    BY DEF Others
  <2>1. Saved(copy, r)
    BY DEF Others
  <2> QED
    BY <2>1, <1>3, SavedDepends
<1>6. Fits(next, about[q], stage)
  BY <1>2, <1>4, <1>5 DEF Fits
<1> QED
  BY <1>1, <1>2, <1>3, <1>6, GoOnKeeps

\* What a handler in the middle of a run knows.
LEMMA AtStage ==
  ASSUME IInv, NEW q \in Request, pc[q] \in Stages
  PROVE  /\ about[q] \in Run
         /\ held[q] \in Engine
         /\ Worked(held[q], about[q], pc[q])
         /\ Others(held[q], about[q])
         /\ Types
         /\ HostOK
BY TypeShape DEF IInv, Fits

LEMMA PathEnds ==
  /\ \A a : <<a>>[Len(<<a>>)] = a
  /\ \A a, b : <<a, b>>[Len(<<a, b>>)] = b
  /\ \A a, b, c : <<a, b, c>>[Len(<<a, b, c>>)] = c
OBVIOUS

-----------------------------------------------------------------------------
(* One lemma per action.                                                   *)

LEMMA InitInv == Init => IInv
<1> SUFFICES ASSUME Init PROVE IInv
  OBVIOUS
<1>1. Types
  <2>1. engine \in Engine /\ held \in [Request -> Engine]
    BY EmptyIsSaved DEF Init
  <2>2. /\ pc \in [Request -> Open \cup {"new", "done", "invalid"}]
        /\ about \in [Request -> Run \cup {None}]
        /\ mode \in [Request -> Mode \cup {None}]
        /\ seen \in [Request -> Content]
        /\ mutated \in [Request -> SUBSET Proxy]
    BY EmptyContent DEF Init
  <2>3. proxy \in Proxy /\ edits \in 0..MaxEdits
    BY LoopAssumption DEF Init
  <2>4. drift \in BOOLEAN
    BY DEF Init
  <2> QED
    BY <2>1, <2>2, <2>3, <2>4 DEF Types
<1>2. \A r \in Run : Saved(engine, r)
  BY EmptyIsSaved DEF Init
<1>3. \A q \in Request : pc[q] # "invalid" /\ Fits(held[q], about[q], pc[q])
  BY DEF Init, Fits, Stages
<1> QED
  BY <1>1, <1>2, <1>3 DEF IInv

LEMMA WebhookInv ==
  ASSUME IInv, NEW q \in Request, Webhook(q)
  PROVE  IInv'
<1>0. /\ Types
      /\ \A r \in Run : Saved(engine, r)
      /\ \A p \in Request : pc[p] # "invalid" /\ Fits(held[p], about[p], pc[p])
  BY DEF IInv
<1>1. /\ engine' = [engine EXCEPT !.events = @ \cup {q}]
      /\ pc' = [pc EXCEPT ![q] = "done"]
      /\ UNCHANGED <<about, mode, held, seen, hostVars>>
  BY DEF Webhook
<1>2. /\ engine' \in Engine
      /\ engine'.runs = engine.runs
      /\ engine'.revisions = engine.revisions
  BY <1>0, <1>1, TypeShape DEF Engine
<1>3. Types'
  BY <1>0, <1>1, <1>2 DEF Types, hostVars
<1>4. (\A r \in Run : Saved(engine, r))'
  BY <1>0, <1>2 DEF Saved, Coherent
<1>5. ASSUME NEW p \in Request
      PROVE  pc'[p] # "invalid" /\ Fits(held'[p], about'[p], pc'[p])
  <2>1. held'[p] = held[p] /\ about'[p] = about[p]
    BY <1>1
  <2>2. pc'[p] = "done" \/ pc'[p] = pc[p]
    BY <1>0, <1>1, TypeShape
  <2> QED
    BY <2>1, <2>2, <1>0 DEF Fits, Stages
<1> QED
  BY <1>3, <1>4, <1>5 DEF IInv

\* What a scan saves is the copy it took, with what it saw.
LEMMA ScanSaved ==
  ASSUME Types, NEW q \in Request, ScanSaves(q)
  PROVE  \E next \in Engine :
           /\ Save(q, next)
           /\ next.runs = held[q].runs
           /\ next.revisions = held[q].revisions
           /\ next.mirror = IF seen[q] = <<>> THEN held[q].mirror ELSE seen[q]
<1> DEFINE told == Ingested(held[q], seen[q])
<1>1. PICK found \in BOOLEAN :
        Save(q, [told EXCEPT !.events = IF found THEN @ \cup {q} ELSE @])
  BY DEF ScanSaves
<1>2. /\ told \in Engine
      /\ told.runs = held[q].runs
      /\ told.revisions = held[q].revisions
      /\ told.mirror = IF seen[q] = <<>> THEN held[q].mirror ELSE seen[q]
  BY IngestedShape DEF Types
<1>3. (IF found THEN told.events \cup {q} ELSE told.events) \in SUBSET Request
  BY <1>2 DEF Engine
<1> HIDE DEF told
<1> DEFINE events == IF found THEN told.events \cup {q} ELSE told.events
<1>4. Save(q, [told EXCEPT !.events = events])
  BY <1>1
<1>5. events \in SUBSET Request
  BY <1>3
<1> HIDE DEF events
<1> QED
  BY <1>2, <1>4, <1>5 DEF Engine

LEMMA ScanInv ==
  ASSUME IInv, NEW q \in Request, ScanStarts(q) \/ ScanObserves(q) \/ ScanSaves(q)
  PROVE  IInv'
<1>0. Types /\ HostOK /\ engine \in Engine /\ held[q] \in Engine
  BY TypeShape DEF IInv
<1>1. CASE ScanStarts(q)
  <2>1. Fits(engine, about[q], "observing")
    BY DEF IInv, Fits, Stages
  <2>2. about[q] \in Run \cup {None}
    BY <1>0, TypeShape
  <2>3. /\ Take(q, "observing", engine)
        /\ about' = about /\ mode' = mode
        /\ UNCHANGED <<engine, seen, hostVars>>
    BY <1>1 DEF ScanStarts
  <2>4. "observing" \in Open
    BY DEF Open
  <2> QED
    BY <1>0, <2>1, <2>2, <2>3, <2>4, TakeKeeps
<1>2. CASE ScanObserves(q)
  <2>1. Fits(held[q], about[q], "probing")
    BY <1>2 DEF IInv, Fits, ScanObserves, Stages
  <2>2. HostOK'
    <3>1. Observed(proxy) \in Content
      BY <1>0, ProxyShape DEF HostOK
    <3> QED
      BY <1>0, <1>2, <3>1 DEF HostOK, ScanObserves
  <2>3. GoOn(q, "probing", held[q]) /\ about' = about
    BY <1>2 DEF ScanObserves
  <2>4. "probing" \in Open
    BY DEF Open
  <2> QED
    BY <1>0, <2>1, <2>2, <2>3, <2>4, GoOnKeeps
<1>3. CASE ScanSaves(q)
  <2>1. PICK next \in Engine :
          /\ Save(q, next) /\ next.runs = held[q].runs
          /\ next.revisions = held[q].revisions
    BY <1>3, <1>0, ScanSaved
  <2>2. \A r \in Run : Saved(held[q], r)
    BY <1>3 DEF IInv, Fits, ScanSaves
  <2>3. \A r \in Run : Saved(next, r)
    BY <2>1, <2>2, SavedDepends
  <2>4. HostOK' /\ about' = about
    BY <1>0, <1>3, EmptyContent DEF HostOK, ScanSaves, hostVars
  <2> QED
    BY <2>1, <2>3, <2>4, SaveKeeps
<1> QED
  BY <1>1, <1>2, <1>3

\* A handler that begins to work on a run marks no side effect yet.
LEMMA BegunShape ==
  ASSUME NEW copy \in Engine, NEW r \in Run, NEW stage \in RunState
  PROVE  /\ Moved(copy, r, stage, {}) \in Engine
         /\ Moved(copy, r, stage, {}).runs[r].state = stage
         /\ Moved(copy, r, stage, {}).runs[r].effects = copy.runs[r].effects
         /\ Moved(copy, r, stage, {}).runs[r].plan = copy.runs[r].plan
         /\ Moved(copy, r, stage, {}).revisions = copy.revisions
         /\ \A x \in Run : x # r => Moved(copy, r, stage, {}).runs[x] = copy.runs[x]
<1>1. {} \in SUBSET Effect
  OBVIOUS
<1>2. copy.runs[r].effects \cup {} = copy.runs[r].effects
  OBVIOUS
<1>3. Moved(copy, r, stage, {}) \in Engine
  BY <1>1, MovedShape
<1>4. /\ Moved(copy, r, stage, {}).runs[r].state = stage
      /\ Moved(copy, r, stage, {}).runs[r].plan = copy.runs[r].plan
      /\ Moved(copy, r, stage, {}).revisions = copy.revisions
  BY <1>1, MovedShape
<1>5. Moved(copy, r, stage, {}).runs[r].effects = copy.runs[r].effects
  <2> DEFINE none == {}
  <2>1. none \in SUBSET Effect /\ copy.runs[r].effects \cup none = copy.runs[r].effects
    BY <1>1, <1>2
  <2> HIDE DEF none
  <2>2. Moved(copy, r, stage, none).runs[r].effects = copy.runs[r].effects \cup none
    BY <2>1, MovedShape
  <2>3. Moved(copy, r, stage, none).runs[r].effects = copy.runs[r].effects
    BY <2>1, <2>2
  <2> QED
    BY <2>3 DEF none
<1>6. \A x \in Run : x # r => Moved(copy, r, stage, {}).runs[x] = copy.runs[x]
  BY <1>1, MovedShape
<1> QED
  BY <1>3, <1>4, <1>5, <1>6

LEMMA AdvanceStartsInv ==
  ASSUME IInv, NEW q \in Request, NEW r \in Run, AdvanceStarts(q, r)
  PROVE  IInv'
<1> DEFINE next == Moved(engine, r, "exercising", {})
<1>0. Types /\ engine \in Engine /\ \A x \in Run : Saved(engine, x)
  BY TypeShape DEF IInv
<1>1. /\ Take(q, "exercising", next)
      /\ about' = [about EXCEPT ![q] = r] /\ mode' = mode
      /\ UNCHANGED <<engine, seen, hostVars>>
      /\ engine.runs[r].state = "none"
  BY DEF AdvanceStarts
<1>2. /\ next \in Engine
      /\ next.runs[r].state = "exercising"
      /\ next.runs[r].effects = engine.runs[r].effects
      /\ next.runs[r].plan = engine.runs[r].plan
      /\ next.revisions = engine.revisions
      /\ \A x \in Run : x # r => next.runs[x] = engine.runs[x]
  <2>1. "exercising" \in RunState
    BY RunStates
  <2> QED
    BY <1>0, <2>1, BegunShape
<1> HIDE DEF next
<1>3. Worked(next, r, "exercising")
  BY <1>0, <1>1, <1>2 DEF Worked, Saved, Coherent
<1>4. Others(next, r)
  BY <1>0, <1>2, SavedDepends DEF Others
<1>5. Fits(next, r, "exercising") /\ "exercising" \in Open
  BY <1>3, <1>4 DEF Fits, Open
<1> QED
  BY <1>1, <1>2, <1>5, TakeKeeps

LEMMA ApproveStartsInv ==
  ASSUME IInv, NEW q \in Request, NEW r \in Run, NEW m \in Mode, ApproveStarts(q, r, m)
  PROVE  IInv'
<1> DEFINE copy == [engine EXCEPT !.revisions[r] = IF engine.mirror = <<>> THEN @ ELSE engine.mirror]
           next == Moved(copy, r, "applying", {})
<1>0. Types /\ engine \in Engine /\ \A x \in Run : Saved(engine, x)
  BY TypeShape DEF IInv
<1>1. /\ Take(q, "applying", next)
      /\ about' = [about EXCEPT ![q] = r] /\ mode' = [mode EXCEPT ![q] = m]
      /\ UNCHANGED <<engine, seen, hostVars>>
      /\ engine.runs[r].state = "awaiting_approval"
  BY DEF ApproveStarts
<1>2. /\ engine.revisions \in [Run -> Content]
      /\ engine.mirror \in Content
  BY <1>0, CopyShape
<1>3. /\ copy \in Engine
      /\ copy.runs = engine.runs
      /\ \A x \in Run : engine.revisions[x] # <<>> => copy.revisions[x] # <<>>
  BY <1>0, <1>2 DEF Engine
<1> HIDE DEF copy
<1>4. /\ next \in Engine
      /\ next.runs[r].state = "applying"
      /\ next.runs[r].effects = copy.runs[r].effects
      /\ next.runs[r].plan = copy.runs[r].plan
      /\ next.revisions = copy.revisions
      /\ \A x \in Run : x # r => next.runs[x] = copy.runs[x]
  <2>1. "applying" \in RunState
    BY RunStates
  <2> QED
    BY <1>3, <2>1, BegunShape
<1> HIDE DEF next
<1>5. Worked(next, r, "applying")
  <2>1. /\ engine.runs[r].effects = {"journeysRun", "investigationDone"}
        /\ engine.runs[r].plan \in Run => engine.revisions[engine.runs[r].plan] # <<>>
    BY <1>0, <1>1 DEF Saved, Coherent
  <2> QED
    BY <2>1, <1>3, <1>4 DEF Worked
<1>6. Others(next, r)
  BY <1>0, <1>3, <1>4, SavedDepends DEF Others
<1>7. Fits(next, r, "applying") /\ "applying" \in Open
  BY <1>5, <1>6 DEF Fits, Open
<1> QED
  BY <1>1, <1>4, <1>7, TakeKeeps

\* When the run a handler leaves behind is coherent.
LEMMA EndIsSaved ==
  ASSUME NEW copy \in Engine, NEW r \in Run, NEW effects \in SUBSET Effect,
         NEW state \in {"remembered", "guided", "awaiting_approval"},
         NEW all, all = copy.runs[r].effects \cup effects,
         state = "awaiting_approval" =>
           copy.runs[r].plan # None /\ all = {"journeysRun", "investigationDone"},
         copy.runs[r].plan \in Run => copy.revisions[copy.runs[r].plan] # <<>>,
         "verificationDone" \in all => "mutationApplied" \in all,
         "rollbackDone" \in all => "verificationDone" \in all /\ state = "guided",
         "mutationApplied" \in all /\ state = "remembered" => "verificationDone" \in all
  PROVE  Saved(Moved(copy, r, state, effects), r)
<1> DEFINE next == Moved(copy, r, state, effects)
<1>1. state \in RunState
  BY RunStates
<1>2. next.runs[r].state = state
  BY <1>1, MovedShape
<1>3. next.runs[r].effects = all
  BY <1>1, MovedShape
<1>4. next.runs[r].plan = copy.runs[r].plan /\ next.revisions = copy.revisions
  BY <1>1, MovedShape
<1> HIDE DEF next
<1>5. Saved(next, r)
  BY <1>2, <1>3, <1>4 DEF Saved, Coherent
<1> QED
  BY <1>5 DEF next

\* Giving a run a plan changes nothing else.
LEMMA PlannedShape ==
  ASSUME NEW copy \in Engine, NEW r \in Run, NEW plan \in Plan
  PROVE  /\ [copy EXCEPT !.runs[r].plan = plan] \in Engine
         /\ [copy EXCEPT !.runs[r].plan = plan].runs[r].state = copy.runs[r].state
         /\ [copy EXCEPT !.runs[r].plan = plan].runs[r].effects = copy.runs[r].effects
         /\ [copy EXCEPT !.runs[r].plan = plan].runs[r].plan = plan
         /\ [copy EXCEPT !.runs[r].plan = plan].revisions = copy.revisions
         /\ \A x \in Run :
              x # r => [copy EXCEPT !.runs[r].plan = plan].runs[x] = copy.runs[x]
<1> DEFINE next == [copy EXCEPT !.runs[r].plan = plan]
           own == [copy.runs[r] EXCEPT !.plan = plan]
<1>1. copy.runs \in [Run -> RunRecord] /\ copy.runs[r] \in RunRecord
  BY CopyShape
<1>2. /\ own \in RunRecord
      /\ own.state = copy.runs[r].state
      /\ own.effects = copy.runs[r].effects
      /\ own.plan = plan
  BY <1>1 DEF RunRecord
<1>3. next = [copy EXCEPT !.runs = [copy.runs EXCEPT ![r] = own]]
  BY <1>1 DEF Engine, RunRecord
<1> HIDE DEF own, next
<1>4. [copy.runs EXCEPT ![r] = own] \in [Run -> RunRecord]
  BY <1>1, <1>2
<1>5. /\ next \in Engine
      /\ next.runs = [copy.runs EXCEPT ![r] = own]
      /\ next.revisions = copy.revisions
  BY <1>3, <1>4 DEF Engine
<1>6. /\ next \in Engine
      /\ next.runs[r].state = copy.runs[r].state
      /\ next.runs[r].effects = copy.runs[r].effects
      /\ next.runs[r].plan = plan
      /\ next.revisions = copy.revisions
      /\ \A x \in Run : x # r => next.runs[x] = copy.runs[x]
  BY <1>1, <1>2, <1>5
<1> QED
  BY <1>6 DEF next

LEMMA AdvanceEndsInv ==
  ASSUME IInv, NEW q \in Request, AdvanceEnds(q)
  PROVE  IInv'
<1> DEFINE r == about[q]
           run == held[q].runs[about[q]]
<1>1. pc[q] = "exercising" /\ about' = about /\ UNCHANGED <<seen, hostVars>>
  BY DEF AdvanceEnds
<1>2. /\ r \in Run /\ held[q] \in Engine
      /\ Worked(held[q], r, "exercising") /\ Others(held[q], r)
      /\ Types /\ HostOK
  BY <1>1, AtStage DEF Stages
<1>3. HostOK'
  BY <1>1, <1>2 DEF HostOK, hostVars
<1>4. /\ run.state = "exercising" /\ run.effects = {}
      /\ run.plan \in Run => held[q].revisions[run.plan] # <<>>
  BY <1>2 DEF Worked
<1>5. CASE SaveMoved(q, held[q], <<"verified_healthy", "remembered">>,
                     {"journeysRun", "memoryRecorded"})
  <2>1. Saved(Moved(held[q], r, "remembered", {"journeysRun", "memoryRecorded"}), r)
    <3>1. {"journeysRun", "memoryRecorded"} \in SUBSET Effect
      BY DEF Effect
    <3>2. {"journeysRun", "memoryRecorded"} = run.effects \cup {"journeysRun", "memoryRecorded"}
      BY <1>4
    <3> QED
      BY <1>2, <1>4, <3>1, <3>2, EndIsSaved
  <2>2. "remembered" \in RunState /\ {"journeysRun", "memoryRecorded"} \in SUBSET Effect
    BY RunStates DEF Effect
  <2> DEFINE path == <<"verified_healthy", "remembered">>
             effects == {"journeysRun", "memoryRecorded"}
  <2>3. path[Len(path)] = "remembered" /\ Legal("exercising", path)
    BY PathEnds, PathsAreLegal
  <2>4. SaveMoved(q, held[q], path, effects)
    BY <1>5
  <2>5. effects \in SUBSET Effect /\ Saved(Moved(held[q], r, "remembered", effects), r)
    BY <2>1, <2>2
  <2> HIDE DEF path, effects
  <2> QED
    BY <1>1, <1>2, <1>3, <1>4, <2>2, <2>3, <2>4, <2>5, SaveMovedKeeps
<1>6. CASE SaveMoved(q, held[q], <<"investigating", "guided">>,
                     {"journeysRun", "investigationDone"})
  <2>1. Saved(Moved(held[q], r, "guided", {"journeysRun", "investigationDone"}), r)
    <3>1. {"journeysRun", "investigationDone"} \in SUBSET Effect
      BY DEF Effect
    <3>2. {"journeysRun", "investigationDone"} =
            run.effects \cup {"journeysRun", "investigationDone"}
      BY <1>4
    <3> QED
      BY <1>2, <1>4, <3>1, <3>2, EndIsSaved
  <2>2. "guided" \in RunState /\ {"journeysRun", "investigationDone"} \in SUBSET Effect
    BY RunStates DEF Effect
  <2> DEFINE path == <<"investigating", "guided">>
             effects == {"journeysRun", "investigationDone"}
  <2>3. path[Len(path)] = "guided" /\ Legal("exercising", path)
    BY PathEnds, PathsAreLegal
  <2>4. SaveMoved(q, held[q], path, effects)
    BY <1>6
  <2>5. effects \in SUBSET Effect /\ Saved(Moved(held[q], r, "guided", effects), r)
    BY <2>1, <2>2
  <2> HIDE DEF path, effects
  <2> QED
    BY <1>1, <1>2, <1>3, <1>4, <2>2, <2>3, <2>4, <2>5, SaveMovedKeeps
<1>7. ASSUME NEW plan \in Plans(held[q]),
             SaveMoved(q, [held[q] EXCEPT !.runs[about[q]].plan = plan],
                       <<"investigating", "planning", "awaiting_approval">>,
                       {"journeysRun", "investigationDone"})
      PROVE  IInv'
  <2> DEFINE copy == [held[q] EXCEPT !.runs[about[q]].plan = plan]
  <2>1. plan \in Plan /\ plan # None /\ (plan \in Run => held[q].revisions[plan] # <<>>)
    BY LoopAssumption DEF Plans, Plan
  <2>2. /\ copy \in Engine
        /\ copy.runs[r].state = "exercising"
        /\ copy.runs[r].effects = {}
        /\ copy.runs[r].plan = plan
        /\ copy.revisions = held[q].revisions
        /\ \A x \in Run : x # r => copy.runs[x] = held[q].runs[x]
    BY <1>2, <1>4, <2>1, PlannedShape
  <2>3. SaveMoved(q, copy, <<"investigating", "planning", "awaiting_approval">>,
                  {"journeysRun", "investigationDone"})
    BY <1>7
  <2> HIDE DEF copy
  <2>4. {"journeysRun", "investigationDone"} \in SUBSET Effect
    BY DEF Effect
  <2>5. Saved(Moved(copy, r, "awaiting_approval", {"journeysRun", "investigationDone"}), r)
    <3>1. {"journeysRun", "investigationDone"} =
            copy.runs[r].effects \cup {"journeysRun", "investigationDone"}
      BY <2>2
    <3> QED
      BY <1>2, <2>1, <2>2, <2>4, <3>1, EndIsSaved
  <2>6. Others(copy, r)
    BY <1>2, <2>2, SavedDepends DEF Others
  <2>7. "awaiting_approval" \in RunState
    BY RunStates
  <2> DEFINE path == <<"investigating", "planning", "awaiting_approval">>
             effects == {"journeysRun", "investigationDone"}
  <2>8. path[Len(path)] = "awaiting_approval" /\ Legal("exercising", path)
    BY PathEnds, PathsAreLegal
  <2>9. /\ SaveMoved(q, copy, path, effects) /\ effects \in SUBSET Effect
        /\ Saved(Moved(copy, r, "awaiting_approval", effects), r)
    BY <2>3, <2>4, <2>5
  <2> HIDE DEF path, effects
  <2> QED
    BY <1>1, <1>2, <1>3, <2>2, <2>6, <2>7, <2>8, <2>9, SaveMovedKeeps
<1> QED
  BY <1>5, <1>6, <1>7 DEF AdvanceEnds

\* The last step of an approval, with its run decided.
LEMMA ApprovalEnds ==
  ASSUME IInv, NEW q \in Request, pc[q] \in Stages,
         NEW copy \in Engine, copy.runs = held[q].runs, copy.revisions = held[q].revisions,
         NEW path, NEW end \in {"remembered", "guided"}, path[Len(path)] = end,
         Legal(pc[q], path), NEW effects \in SUBSET Effect,
         NEW all, all = held[q].runs[about[q]].effects \cup effects,
         "verificationDone" \in all => "mutationApplied" \in all,
         "rollbackDone" \in all => "verificationDone" \in all /\ end = "guided",
         "mutationApplied" \in all /\ end = "remembered" => "verificationDone" \in all,
         SaveMoved(q, copy, path, effects), UNCHANGED about, HostOK'
  PROVE  IInv'
<1>1. /\ about[q] \in Run
      /\ Worked(held[q], about[q], pc[q])
      /\ Others(held[q], about[q])
  BY AtStage
<1>2. /\ copy.runs[about[q]].state = pc[q]
      /\ copy.runs[about[q]].plan \in Run => copy.revisions[copy.runs[about[q]].plan] # <<>>
  BY <1>1 DEF Worked
<1>3. Saved(Moved(copy, about[q], end, effects), about[q])
  BY <1>1, <1>2, EndIsSaved
<1>4. Others(copy, about[q])
  BY <1>1, SavedDepends DEF Others
<1>5. end \in RunState
  BY RunStates
<1>6. Legal(copy.runs[about[q]].state, path)
  BY <1>2
<1> QED
  BY <1>1, <1>3, <1>4, <1>5, <1>6, SaveMovedKeeps

LEMMA ApplyFailsInv ==
  ASSUME IInv, NEW q \in Request, ApplyFails(q)
  PROVE  IInv'
<1> DEFINE path == <<"failed", "guided">>
           effects == {"mutationApplied"}
           all == held[q].runs[about[q]].effects \cup effects
<1>1. /\ pc[q] = "applying" /\ UNCHANGED <<about, seen>>
      /\ SaveMoved(q, held[q], path, effects)
      /\ UNCHANGED hostVars \/ Acts(q, proxy)
  BY DEF ApplyFails
<1>2. pc[q] \in Stages
  BY <1>1 DEF Stages
<1>3. held[q] \in Engine /\ HostOK /\ Worked(held[q], about[q], "applying")
  BY <1>1, <1>2, AtStage
<1>4. HostOK'
  BY <1>1, <1>3 DEF HostOK, Acts, hostVars
<1>5. path[Len(path)] = "guided" /\ Legal("applying", path) /\ effects \in SUBSET Effect
  BY PathEnds, PathsAreLegal DEF Effect
<1>6. "mutationApplied" \in all /\ "rollbackDone" \notin all
  BY <1>3 DEF Worked
<1> HIDE DEF path, effects
<1>7. all = held[q].runs[about[q]].effects \cup effects
  OBVIOUS
<1> HIDE DEF all
<1> QED
  BY <1>1, <1>2, <1>3, <1>4, <1>5, <1>6, <1>7, ApprovalEnds

\* What executing a plan does to the proxy and the copy.
LEMMA ExecutedShape ==
  ASSUME proxy \in Proxy, NEW q \in Request, held[q] \in Engine
  PROVE  /\ Executed(q) \in Proxy
         /\ Mirrored(q) \in Engine
         /\ Mirrored(q).runs = held[q].runs
         /\ Mirrored(q).revisions = held[q].revisions
         /\ Restoring(q) => Executed(q).main = Revision(q) /\ Mirrored(q).mirror = Revision(q)
         /\ ~Restoring(q) => Executed(q) = proxy /\ Mirrored(q) = held[q]
<1>1. CASE Restoring(q)
  <2>1. Revision(q) \in Content
    BY <1>1, CopyShape DEF Restoring, Revision
  <2>2. Executed(q) = Installed(Revision(q)) /\ Mirrored(q) = Mirroring(held[q], Revision(q))
    BY <1>1 DEF Executed, Mirrored
  <2> QED
    BY <1>1, <2>1, <2>2, InstalledShape, MirroringShape
<1>2. CASE ~Restoring(q)
  BY <1>2 DEF Executed, Mirrored
<1> QED
  BY <1>1, <1>2

LEMMA AppliesInv ==
  ASSUME IInv, NEW q \in Request, Applies(q)
  PROVE  IInv'
<1> DEFINE next == Moved(Mirrored(q), about[q], "verifying", {"mutationApplied"})
<1>1. /\ pc[q] = "applying" /\ UNCHANGED <<about, seen>>
      /\ Acts(q, Executed(q))
      /\ GoOnMoved(q, Mirrored(q), "verifying", {"mutationApplied"})
  BY DEF Applies
<1>2. /\ held[q] \in Engine /\ HostOK /\ about[q] \in Run
      /\ Worked(held[q], about[q], "applying") /\ Others(held[q], about[q])
  BY <1>1, AtStage DEF Stages
<1>3. Executed(q) \in Proxy
  BY <1>2, ExecutedShape DEF HostOK
<1>4. HostOK'
  BY <1>1, <1>2, <1>3 DEF HostOK, Acts
<1>5. /\ Mirrored(q) \in Engine
      /\ Mirrored(q).runs = held[q].runs /\ Mirrored(q).revisions = held[q].revisions
  BY <1>2, ExecutedShape DEF HostOK
<1>6. Others(Mirrored(q), about[q])
  BY <1>2, <1>5, SavedDepends DEF Others
<1>7. "verifying" \in RunState /\ {"mutationApplied"} \in SUBSET Effect
  BY RunStates DEF Effect
<1>8. Worked(next, about[q], "verifying")
  <2>1. next.runs[about[q]].state = "verifying"
    BY <1>2, <1>5, <1>7, MovedShape
  <2>2. next.runs[about[q]].effects = held[q].runs[about[q]].effects \cup {"mutationApplied"}
    BY <1>2, <1>5, <1>7, MovedShape
  <2>3. /\ next.runs[about[q]].plan = held[q].runs[about[q]].plan
        /\ next.revisions = held[q].revisions
    BY <1>2, <1>5, <1>7, MovedShape
  <2> HIDE DEF next
  <2> QED
    BY <1>2, <2>1, <2>2, <2>3 DEF Worked
<1>9. Legal(Mirrored(q).runs[about[q]].state, <<"verifying">>)
  BY <1>2, <1>5, PathsAreLegal DEF Worked
<1> HIDE DEF next
<1>10. "verifying" \in Stages
  BY DEF Stages
<1> QED
  BY <1>1, <1>2, <1>4, <1>5, <1>6, <1>7, <1>8, <1>9, <1>10, GoOnMovedKeeps DEF next

LEMMA VerifyPassesInv ==
  ASSUME IInv, NEW q \in Request, VerifyPasses(q)
  PROVE  IInv'
<1> DEFINE path == <<"recovered", "remembered">>
           effects == {"verificationDone", "memoryRecorded"}
           all == held[q].runs[about[q]].effects \cup effects
<1>1. /\ pc[q] = "verifying" /\ UNCHANGED <<about, seen, hostVars>>
      /\ SaveMoved(q, held[q], path, effects)
  BY DEF VerifyPasses
<1>2. pc[q] \in Stages
  BY <1>1 DEF Stages
<1>3. held[q] \in Engine /\ HostOK /\ Worked(held[q], about[q], "verifying")
  BY <1>1, <1>2, AtStage
<1>4. HostOK'
  BY <1>1, <1>3 DEF HostOK, hostVars
<1>5. path[Len(path)] = "remembered" /\ Legal("verifying", path) /\ effects \in SUBSET Effect
  BY PathEnds, PathsAreLegal DEF Effect
<1>6. {"mutationApplied", "verificationDone"} \subseteq all /\ "rollbackDone" \notin all
  BY <1>3 DEF Worked
<1> HIDE DEF path, effects
<1>7. all = held[q].runs[about[q]].effects \cup effects
  OBVIOUS
<1> HIDE DEF all
<1> QED
  BY <1>1, <1>2, <1>3, <1>4, <1>5, <1>6, <1>7, ApprovalEnds

LEMMA VerifyFailsInv ==
  ASSUME IInv, NEW q \in Request, VerifyFails(q)
  PROVE  IInv'
<1> DEFINE effects == {"verificationDone"}
           all == held[q].runs[about[q]].effects \cup effects
<1>1. pc[q] = "verifying" /\ UNCHANGED <<about, seen, hostVars>>
  BY DEF VerifyFails
<1>2. pc[q] \in Stages
  BY <1>1 DEF Stages
<1>3. /\ held[q] \in Engine /\ HostOK /\ about[q] \in Run
      /\ Worked(held[q], about[q], "verifying") /\ Others(held[q], about[q])
  BY <1>1, <1>2, AtStage
<1>4. HostOK'
  BY <1>1, <1>3 DEF HostOK, hostVars
<1>5. {"mutationApplied", "verificationDone"} \subseteq all /\ "rollbackDone" \notin all
  BY <1>3 DEF Worked
<1>6. effects \in SUBSET Effect
  BY DEF Effect
<1>7. CASE SaveMoved(q, held[q], <<"rolling_back", "guided">>, effects)
  <2> DEFINE path == <<"rolling_back", "guided">>
  <2>1. path[Len(path)] = "guided" /\ Legal("verifying", path)
    BY PathEnds, PathsAreLegal
  <2>2. SaveMoved(q, held[q], path, effects)
    BY <1>7
  <2> HIDE DEF path, effects
  <2>3. all = held[q].runs[about[q]].effects \cup effects
    OBVIOUS
  <2> HIDE DEF all
  <2> QED
    BY <1>1, <1>2, <1>3, <1>4, <1>5, <1>6, <2>1, <2>2, <2>3, ApprovalEnds
<1>8. CASE /\ held[q].revisions[about[q]] # <<>>
           /\ GoOnMoved(q, held[q], "rolling_back", effects)
  <2> DEFINE next == Moved(held[q], about[q], "rolling_back", effects)
  <2>1. "rolling_back" \in RunState /\ "rolling_back" \in Stages
    BY RunStates DEF Stages
  <2> HIDE DEF effects
  <2>2. next.runs[about[q]].state = "rolling_back"
    BY <1>3, <1>6, <2>1, MovedShape
  <2>3. next.runs[about[q]].effects = all
    BY <1>3, <1>6, <2>1, MovedShape
  <2>4. /\ next.runs[about[q]].plan = held[q].runs[about[q]].plan
        /\ next.revisions = held[q].revisions
    BY <1>3, <1>6, <2>1, MovedShape
  <2> HIDE DEF next, all
  <2>5. Worked(next, about[q], "rolling_back")
    BY <1>3, <1>5, <1>8, <2>2, <2>3, <2>4 DEF Worked
  <2>6. Legal(held[q].runs[about[q]].state, <<"rolling_back">>)
    BY <1>3, PathsAreLegal DEF Worked
  <2> QED
    BY <1>1, <1>3, <1>4, <1>6, <1>8, <2>1, <2>5, <2>6, GoOnMovedKeeps DEF next
<1> QED
  BY <1>7, <1>8 DEF VerifyFails

LEMMA RollsBackInv ==
  ASSUME IInv, NEW q \in Request, RollsBack(q)
  PROVE  IInv'
<1> DEFINE before == held[q].revisions[about[q]]
           copy == Mirroring(held[q], before)
           path == <<"guided">>
           effects == {"rollbackDone"}
           all == held[q].runs[about[q]].effects \cup effects
<1>1. /\ pc[q] = "rolling_back" /\ proxy' = Installed(before)
      /\ SaveMoved(q, copy, path, effects)
      /\ UNCHANGED <<about, seen, edits, mutated, drift>>
  BY DEF RollsBack
<1>2. pc[q] \in Stages
  BY <1>1 DEF Stages
<1>3. /\ held[q] \in Engine /\ HostOK /\ about[q] \in Run
      /\ Worked(held[q], about[q], "rolling_back")
  BY <1>1, <1>2, AtStage
<1>4. before \in Content
  BY <1>3, CopyShape DEF Worked
<1>5. HostOK'
  <2>1. Installed(before) \in Proxy
    BY <1>3, <1>4, InstalledShape DEF HostOK
  <2> QED
    BY <1>1, <1>3, <2>1 DEF HostOK
<1>6. copy \in Engine /\ copy.runs = held[q].runs /\ copy.revisions = held[q].revisions
  BY <1>3, <1>4, MirroringShape
<1>7. path[Len(path)] = "guided" /\ Legal("rolling_back", path) /\ effects \in SUBSET Effect
  BY PathEnds, PathsAreLegal DEF Effect
<1>8. {"mutationApplied", "verificationDone"} \subseteq all
  BY <1>3 DEF Worked
<1> HIDE DEF copy, path, effects
<1>9. all = held[q].runs[about[q]].effects \cup effects
  OBVIOUS
<1> HIDE DEF all
<1> QED
  BY <1>1, <1>2, <1>5, <1>6, <1>7, <1>8, <1>9, ApprovalEnds

LEMMA RollbackFailsInv ==
  ASSUME IInv, NEW q \in Request, RollbackFails(q)
  PROVE  IInv'
<1> DEFINE path == <<"failed", "guided">>
           effects == {}
           all == held[q].runs[about[q]].effects
<1>1. /\ pc[q] = "rolling_back" /\ UNCHANGED <<about, seen, hostVars>>
      /\ SaveMoved(q, held[q], path, effects)
  BY DEF RollbackFails
<1>2. pc[q] \in Stages
  BY <1>1 DEF Stages
<1>3. held[q] \in Engine /\ HostOK /\ Worked(held[q], about[q], "rolling_back")
  BY <1>1, <1>2, AtStage
<1>4. HostOK'
  BY <1>1, <1>3 DEF HostOK, hostVars
<1>5. path[Len(path)] = "guided" /\ Legal("rolling_back", path) /\ effects \in SUBSET Effect
  BY PathEnds, PathsAreLegal
<1>6. /\ {"mutationApplied", "verificationDone"} \subseteq all
      /\ all = held[q].runs[about[q]].effects \cup effects
  BY <1>3 DEF Worked
<1> HIDE DEF path, effects, all
<1> QED
  BY <1>1, <1>2, <1>3, <1>4, <1>5, <1>6, ApprovalEnds

LEMMA HostCallThrowsInv ==
  ASSUME IInv, NEW q \in Request, HostCallThrows(q)
  PROVE  IInv'
<1>1. GoOn(q, "done", EmptyEngine) /\ about' = about /\ seen' = seen
  BY DEF HostCallThrows, Die
<1>2. HostOK /\ held[q] \in Engine
  BY TypeShape DEF IInv
<1>3. HostOK'
  <2>1. CASE UNCHANGED hostVars
    BY <1>1, <1>2, <2>1 DEF HostOK, hostVars
  <2>2. ASSUME NEW p \in {proxy, Executed(q)}, Acts(q, p)
        PROVE  HostOK'
    <3>1. p \in Proxy
      BY <1>2, ExecutedShape DEF HostOK
    <3> QED
      BY <1>1, <1>2, <2>2, <3>1 DEF HostOK, Acts
  <2>3. CASE /\ pc[q] = "rolling_back"
             /\ proxy' \in {proxy, Installed(held[q].revisions[about[q]])}
             /\ UNCHANGED <<edits, mutated, drift>>
    <3>1. about[q] \in Run
      BY <2>3, AtStage DEF Stages
    <3>2. held[q].revisions[about[q]] \in Content
      BY <1>2, <3>1, CopyShape
    <3>3. proxy' \in Proxy
      BY <1>2, <2>3, <3>2, InstalledShape DEF HostOK
    <3> QED
      BY <1>1, <1>2, <2>3, <3>3 DEF HostOK
  <2> QED
    BY <2>1, <2>2, <2>3 DEF HostCallThrows
<1>4. Fits(EmptyEngine, about[q], "done")
  BY DEF Fits, Stages
<1> QED
  BY <1>1, <1>3, <1>4, EmptyIsSaved, GoOnKeeps

LEMMA EditProxyInv ==
  ASSUME IInv, NEW c \in Written, EditProxy(c)
  PROVE  IInv'
<1>1. /\ Types
      /\ \A r \in Run : Saved(engine, r)
      /\ \A p \in Request : pc[p] # "invalid" /\ Fits(held[p], about[p], pc[p])
  BY DEF IInv
<1>2. UNCHANGED <<engine, pc, about, mode, held, seen, mutated>>
  BY DEF EditProxy
<1>3. proxy' \in Proxy
  <2>1. c \in Content /\ proxy \in Proxy
    BY <1>1, LoopAssumption DEF Types
  <2> QED
    BY <2>1 DEF EditProxy, Proxy
<1>4. edits' \in 0..MaxEdits
  BY <1>1, LoopAssumption DEF EditProxy, Types
<1>5. drift' \in BOOLEAN
  BY DEF EditProxy
<1>6. Types'
  BY <1>1, <1>2, <1>3, <1>4, <1>5 DEF Types
<1>7. (\A r \in Run : Saved(engine, r))'
  BY <1>1, <1>2 DEF Saved, Coherent
<1>8. (\A p \in Request : pc[p] # "invalid" /\ Fits(held[p], about[p], pc[p]))'
  BY <1>1, <1>2
<1> QED
  BY <1>6, <1>7, <1>8 DEF IInv

LEMMA StutterInv == IInv /\ UNCHANGED vars => IInv'
<1> SUFFICES ASSUME IInv, UNCHANGED vars PROVE IInv'
  OBVIOUS
<1>1. UNCHANGED <<engine, pc, about, mode, held, seen, proxy, edits, mutated, drift>>
  BY DEF vars, hostVars
<1>2. Types'
  BY <1>1 DEF IInv, Types
<1>3. (\A r \in Run : Saved(engine, r))'
  BY <1>1 DEF IInv, Saved, Coherent
<1>4. (\A p \in Request : pc[p] # "invalid" /\ Fits(held[p], about[p], pc[p]))'
  BY <1>1 DEF IInv
<1> QED
  BY <1>2, <1>3, <1>4 DEF IInv

LEMMA NextInv == IInv /\ [Next]_vars => IInv'
<1> SUFFICES ASSUME IInv, [Next]_vars PROVE IInv'
  OBVIOUS
<1>1. CASE UNCHANGED vars
  BY <1>1, StutterInv
<1>2. ASSUME NEW q \in Request, Proceed(q) PROVE IInv'
  BY <1>2, ScanInv, AdvanceEndsInv, ApplyFailsInv, AppliesInv, VerifyPassesInv, VerifyFailsInv,
     RollsBackInv, RollbackFailsInv, HostCallThrowsInv DEF Proceed
<1>3. CASE Next
  BY <1>2, <1>3, WebhookInv, ScanInv, AdvanceStartsInv, ApproveStartsInv, EditProxyInv DEF Next
<1> QED
  BY <1>1, <1>3

-----------------------------------------------------------------------------
LEMMA Invariance == Spec => []IInv
BY InitInv, NextInv, PTL DEF Spec

\* The state of the engine, of the requests and of the host keeps its types:
\* above all, a rollback always has a content to restore.
THEOREM TypeCorrect == Spec => []TypeOK
<1>1. IInv => TypeOK
  BY DEF IInv, TypeOK, Fits, Worked, Stages
<1> QED
  BY <1>1, Invariance, PTL

\* Whichever copy of the engine is saved last, and whatever throws in between
\* (setLoopEngine), every run in it says coherent things of itself.
THEOREM SavedRunsCoherent == Spec => []RunsAreCoherent
<1>1. IInv => RunsAreCoherent
  BY DEF IInv, Saved, RunsAreCoherent
<1> QED
  BY <1>1, Invariance, PTL

\* transitionRun never throws, so no handler is aborted by it with the host
\* changed and nothing saved.
THEOREM TransitionsValid == Spec => []NoInvalidTransition
<1>1. IInv => NoInvalidTransition
  BY DEF IInv, NoInvalidTransition
<1> QED
  BY <1>1, Invariance, PTL

-----------------------------------------------------------------------------
(* Requests that come one at a time, to a host whose calls do not throw.   *)

Serial == MaxOpen = 1 /\ ~Throws

Alone == \A p, q \in Request : pc[p] \in Open /\ pc[q] \in Open => p = q

\* The copy of a handler at work differs from the engine in its own run only,
\* which the engine still has as it was when the handler took it.
Follows(q) ==
  /\ pc[q] \in {"observing", "probing"} => held[q].runs = engine.runs
  /\ pc[q] \in Stages =>
       /\ \A x \in Run : x # about[q] => held[q].runs[x] = engine.runs[x]
       /\ engine.runs[about[q]].effects \subseteq held[q].runs[about[q]].effects
       /\ engine.runs[about[q]].state =
            IF pc[q] = "exercising" THEN "none" ELSE "awaiting_approval"

\* A request that mutated the host is about to say so in the engine, or has.
Marked(q) ==
  mutated[q] # {} =>
    /\ about[q] \in Run
    /\ \/ pc[q] \in {"verifying", "rolling_back"}
       \/ pc[q] = "done" /\ "mutationApplied" \in engine.runs[about[q]].effects

SerialPart == Alone /\ MutatedOnce /\ \A q \in Request : Follows(q) /\ Marked(q)
SerialInv == IInv /\ SerialPart

\* What RunsMoveForward says of a step.
Forward ==
  \A r \in Run :
    engine.runs[r].state # "none" =>
      /\ engine'.runs[r].state # "none"
      /\ engine.runs[r].effects \subseteq engine'.runs[r].effects
      /\ engine.runs[r].state \in {"remembered", "guided"} =>
           engine'.runs[r].state = engine.runs[r].state

LEMMA NobodyElse ==
  ASSUME Serial, NEW q \in Request, NEW stage, NEW copy, Take(q, stage, copy)
  PROVE  \A p \in Request : pc[p] \notin Open
<1> DEFINE S == {x \in Request : pc[x] \in Open}
<1>1. IsFiniteSet(S)
  BY LoopAssumption, FS_Subset
<1>2. Cardinality(S) < 1
  BY DEF Take, Serial
<1>3. Cardinality(S) \in Nat
  BY <1>1, FS_CardinalityType
<1>4. Cardinality(S) = 0
  BY <1>2, <1>3
<1>5. S = {}
  BY <1>1, <1>4, FS_EmptySet
<1> QED
  BY <1>5

LEMMA SerialInit == Init => SerialPart
BY DEF Init, SerialPart, Alone, MutatedOnce, Follows, Marked, Open, Stages

LEMMA SerialTake ==
  ASSUME SerialInv, Serial, NEW q \in Request, NEW stage \in Open, NEW copy,
         Take(q, stage, copy), engine' = engine, mutated' = mutated,
         NEW r, about'[q] = r, \A p \in Request : p # q => about'[p] = about[p],
         stage \in {"observing", "probing"} => copy.runs = engine.runs,
         stage \in Stages =>
           /\ \A x \in Run : x # r => copy.runs[x] = engine.runs[x]
           /\ engine.runs[r].effects \subseteq copy.runs[r].effects
           /\ engine.runs[r].state =
                IF stage = "exercising" THEN "none" ELSE "awaiting_approval"
  PROVE  SerialPart' /\ Forward
<1>1. \A p \in Request : pc[p] \notin Open
  BY NobodyElse
<1>2. pc \in [Request -> Open \cup {"new", "done", "invalid"}] /\ held \in [Request -> Engine]
  BY TypeShape DEF SerialInv, IInv
<1>3. /\ pc'[q] = stage /\ held'[q] = copy /\ pc[q] = "new"
      /\ \A p \in Request : p # q => pc'[p] = pc[p] /\ held'[p] = held[p]
  BY <1>2 DEF Take, Arrives
<1>4. \A p \in Request : Follows(p) /\ Marked(p)
  BY DEF SerialInv, SerialPart
<1>5. mutated[q] = {}
  BY <1>3, <1>4 DEF Marked
<1>6. Alone'
  BY <1>1, <1>3 DEF Alone
<1>7. MutatedOnce'
  BY <1>5 DEF SerialInv, SerialPart, MutatedOnce
<1>8. Follows(q)'
  BY <1>3 DEF Follows
<1>9. Marked(q)'
  BY <1>5 DEF Marked
<1>10. ASSUME NEW p \in Request, p # q PROVE Follows(p)' /\ Marked(p)'
  BY <1>3, <1>4, <1>10 DEF Follows, Marked
<1>11. Forward
  BY DEF Forward
<1> QED
  BY <1>6, <1>7, <1>8, <1>9, <1>10, <1>11 DEF SerialPart

\* A handler that goes on with its copy, having acted on the host or not.
LEMMA SerialGoOn ==
  ASSUME SerialInv, NEW q \in Request, pc[q] \in Open, NEW stage \in Open, NEW copy,
         GoOn(q, stage, copy), about' = about,
         \A p \in Request : p # q => mutated'[p] = mutated[p],
         mutated'[q] = mutated[q] \/ (pc[q] = "applying" /\ stage = "verifying"),
         pc[q] = "verifying" => stage = "rolling_back",
         pc[q] # "rolling_back",
         stage \in {"observing", "probing"} => copy.runs = engine.runs,
         stage \in Stages =>
           /\ about[q] \in Run
           /\ \A x \in Run : x # about[q] => copy.runs[x] = engine.runs[x]
           /\ engine.runs[about[q]].effects \subseteq copy.runs[about[q]].effects
           /\ engine.runs[about[q]].state =
                IF stage = "exercising" THEN "none" ELSE "awaiting_approval",
         pc[q] = "applying" => "mutationApplied" \notin engine.runs[about[q]].effects
  PROVE  SerialPart' /\ Forward
<1>1. pc \in [Request -> Open \cup {"new", "done", "invalid"}] /\ held \in [Request -> Engine]
  BY TypeShape DEF SerialInv, IInv
<1>2. /\ pc'[q] = stage /\ held'[q] = copy /\ engine' = engine
      /\ \A p \in Request : p # q => pc'[p] = pc[p] /\ held'[p] = held[p]
  BY <1>1 DEF GoOn
<1>3. /\ Alone /\ MutatedOnce
      /\ \A p \in Request : Follows(p) /\ Marked(p)
  BY DEF SerialInv, SerialPart
<1>4. \A p \in Request : p # q => pc[p] \notin Open
  BY <1>3 DEF Alone
<1>5. Alone'
  BY <1>2, <1>4 DEF Alone
<1>6. mutated'[q] # mutated[q] =>
        \A p \in Request : p # q /\ mutated[p] # {} => about[p] # about[q]
  <2> SUFFICES ASSUME mutated'[q] # mutated[q],
                      NEW p \in Request, p # q, mutated[p] # {}, about[p] = about[q]
               PROVE  FALSE
    OBVIOUS
  <2>1. "mutationApplied" \notin engine.runs[about[q]].effects
    OBVIOUS
  <2>2. "mutationApplied" \in engine.runs[about[p]].effects
    BY <1>3, <1>4 DEF Marked, Open
  <2> QED
    BY <2>1, <2>2
<1>7. MutatedOnce'
  BY <1>3, <1>6 DEF MutatedOnce
<1>8. Follows(q)'
  BY <1>2 DEF Follows
<1>9. Marked(q)'
  BY <1>2, <1>3 DEF Marked, Open, Stages
<1>10. ASSUME NEW p \in Request, p # q PROVE Follows(p)' /\ Marked(p)'
  BY <1>2, <1>3, <1>10 DEF Follows, Marked
<1>11. Forward
  BY <1>2 DEF Forward
<1> QED
  BY <1>5, <1>7, <1>8, <1>9, <1>10, <1>11 DEF SerialPart

\* A handler that replaces the engine by its copy, and ends.
LEMMA SerialSave ==
  ASSUME SerialInv, NEW q \in Request, pc[q] \in Open, NEW copy,
         Save(q, copy), about' = about,
         \A p \in Request : p # q => mutated'[p] = mutated[p],
         mutated'[q] = mutated[q] \/ pc[q] = "applying",
         mutated'[q] # {} =>
           about[q] \in Run /\ "mutationApplied" \in copy.runs[about[q]].effects,
         \A x \in Run : engine.runs[x].effects \subseteq copy.runs[x].effects,
         \A x \in Run : engine.runs[x].state # "none" => copy.runs[x].state # "none",
         \A x \in Run : engine.runs[x].state \in {"remembered", "guided"} =>
                           copy.runs[x].state = engine.runs[x].state,
         pc[q] = "applying" => "mutationApplied" \notin engine.runs[about[q]].effects
  PROVE  SerialPart' /\ Forward
<1>1. pc \in [Request -> Open \cup {"new", "done", "invalid"}] /\ held \in [Request -> Engine]
  BY TypeShape DEF SerialInv, IInv
<1>2. /\ pc'[q] = "done" /\ engine' = copy
      /\ \A p \in Request : p # q => pc'[p] = pc[p] /\ held'[p] = held[p]
  BY <1>1 DEF Save
<1>3. /\ Alone /\ MutatedOnce
      /\ \A p \in Request : Follows(p) /\ Marked(p)
  BY DEF SerialInv, SerialPart
<1>4. \A p \in Request : p # q => pc[p] \notin Open
  BY <1>3 DEF Alone
<1>5. Alone'
  BY <1>2, <1>4 DEF Alone, Open
<1>6. mutated'[q] # mutated[q] =>
        \A p \in Request : p # q /\ mutated[p] # {} => about[p] # about[q]
  <2> SUFFICES ASSUME mutated'[q] # mutated[q],
                      NEW p \in Request, p # q, mutated[p] # {}, about[p] = about[q]
               PROVE  FALSE
    OBVIOUS
  <2>1. "mutationApplied" \notin engine.runs[about[q]].effects
    OBVIOUS
  <2>2. "mutationApplied" \in engine.runs[about[p]].effects
    BY <1>3, <1>4 DEF Marked, Open
  <2> QED
    BY <2>1, <2>2
<1>7. MutatedOnce'
  BY <1>3, <1>6 DEF MutatedOnce
<1>8. Follows(q)' /\ Marked(q)'
  BY <1>2 DEF Follows, Marked, Stages
<1>9. ASSUME NEW p \in Request, p # q PROVE Follows(p)' /\ Marked(p)'
  <2>1. pc'[p] = pc[p] /\ pc'[p] \notin Open
    BY <1>2, <1>4, <1>9
  <2>2. Follows(p)'
    BY <2>1 DEF Follows, Open, Stages
  <2>3. Marked(p)'
    BY <1>2, <1>3, <1>9, <2>1 DEF Marked, Open
  <2> QED
    BY <2>2, <2>3
<1>10. Forward
  BY <1>2 DEF Forward
<1> QED
  BY <1>5, <1>7, <1>8, <1>9, <1>10 DEF SerialPart

\* What a handler in the middle of a run knows of the engine, too.
LEMMA SerialStage ==
  ASSUME SerialInv, NEW q \in Request, pc[q] \in Stages
  PROVE  /\ about[q] \in Run
         /\ held[q] \in Engine
         /\ Worked(held[q], about[q], pc[q])
         /\ \A x \in Run : x # about[q] => held[q].runs[x] = engine.runs[x]
         /\ engine.runs[about[q]].effects \subseteq held[q].runs[about[q]].effects
         /\ engine.runs[about[q]].state =
              IF pc[q] = "exercising" THEN "none" ELSE "awaiting_approval"
         /\ pc[q] # "exercising" => "mutationApplied" \notin engine.runs[about[q]].effects
         /\ pc[q] \in {"exercising", "applying"} => mutated[q] = {}
         /\ pc[q] \in Open
<1>1. IInv /\ SerialPart
  BY DEF SerialInv
<1>2. /\ about[q] \in Run /\ held[q] \in Engine
      /\ Worked(held[q], about[q], pc[q])
  BY <1>1, AtStage
<1>3. Follows(q) /\ Marked(q)
  BY <1>1 DEF SerialPart
<1>4. Coherent(engine, about[q])
  BY <1>1, <1>2 DEF IInv, Saved
<1>5. /\ \A x \in Run : x # about[q] => held[q].runs[x] = engine.runs[x]
      /\ engine.runs[about[q]].effects \subseteq held[q].runs[about[q]].effects
      /\ engine.runs[about[q]].state =
           IF pc[q] = "exercising" THEN "none" ELSE "awaiting_approval"
  BY <1>3 DEF Follows
<1>6. pc[q] # "exercising" => "mutationApplied" \notin engine.runs[about[q]].effects
  BY <1>4, <1>5 DEF Coherent
<1>7. pc[q] \in {"exercising", "applying"} => mutated[q] = {}
  BY <1>3 DEF Marked
<1>8. pc[q] \in Open
  BY DEF Stages, Open
<1> QED
  BY <1>2, <1>5, <1>6, <1>7, <1>8

\* A handler that moves its run to an end, and saves.
LEMMA SerialSaveMoved ==
  ASSUME SerialInv, NEW q \in Request, pc[q] \in Stages, NEW copy \in Engine, NEW path,
         NEW effects \in SUBSET Effect,
         NEW end \in {"remembered", "guided", "awaiting_approval"},
         path[Len(path)] = end, Legal(pc[q], path),
         copy.runs[about[q]].state = pc[q],
         copy.runs[about[q]].effects = held[q].runs[about[q]].effects,
         \A x \in Run : x # about[q] => copy.runs[x] = held[q].runs[x],
         SaveMoved(q, copy, path, effects), about' = about,
         \A p \in Request : p # q => mutated'[p] = mutated[p],
         mutated'[q] = mutated[q] \/ pc[q] = "applying",
         pc[q] # "exercising" =>
           "mutationApplied" \in held[q].runs[about[q]].effects \cup effects
  PROVE  SerialPart' /\ Forward
<1> DEFINE r == about[q]
           next == Moved(copy, about[q], end, effects)
<1>1. /\ r \in Run
      /\ \A x \in Run : x # r => held[q].runs[x] = engine.runs[x]
      /\ engine.runs[r].effects \subseteq held[q].runs[r].effects
      /\ engine.runs[r].state = IF pc[q] = "exercising" THEN "none" ELSE "awaiting_approval"
      /\ pc[q] # "exercising" => "mutationApplied" \notin engine.runs[r].effects
      /\ pc[q] \in {"exercising", "applying"} => mutated[q] = {}
      /\ pc[q] \in Open
  BY SerialStage
<1>2. Save(q, next)
  BY DEF SaveMoved
<1>3. end \in RunState
  BY RunStates
<1>4. next.runs[r].state = end
  BY <1>1, <1>3, MovedShape
<1>5. next.runs[r].effects = copy.runs[r].effects \cup effects
  BY <1>1, <1>3, MovedShape
<1>6. \A x \in Run : x # r => next.runs[x] = copy.runs[x]
  BY <1>1, <1>3, MovedShape
<1> HIDE DEF next
<1>7. mutated'[q] # {} => r \in Run /\ "mutationApplied" \in next.runs[r].effects
  BY <1>1, <1>5
<1>8. \A x \in Run : engine.runs[x].effects \subseteq next.runs[x].effects
  BY <1>1, <1>5, <1>6
<1>9. \A x \in Run : engine.runs[x].state # "none" => next.runs[x].state # "none"
  BY <1>1, <1>4, <1>6
<1>10. \A x \in Run : engine.runs[x].state \in {"remembered", "guided"} =>
                         next.runs[x].state = engine.runs[x].state
  BY <1>1, <1>4, <1>6
<1> QED
  BY <1>1, <1>2, <1>7, <1>8, <1>9, <1>10, SerialSave

\* A handler that marks its run and goes on with it.
LEMMA SerialGoOnMoved ==
  ASSUME SerialInv, NEW q \in Request, NEW copy \in Engine, NEW effects \in SUBSET Effect,
         NEW stage,
         \/ pc[q] = "applying" /\ stage = "verifying"
         \/ pc[q] = "verifying" /\ stage = "rolling_back" /\ mutated'[q] = mutated[q],
         copy.runs = held[q].runs,
         GoOnMoved(q, copy, stage, effects), about' = about,
         \A p \in Request : p # q => mutated'[p] = mutated[p]
  PROVE  SerialPart' /\ Forward
<1> DEFINE r == about[q]
           next == Moved(copy, about[q], stage, effects)
<1>0. pc[q] \in Stages /\ stage \in Open /\ stage \in RunState /\ stage \in Stages
  BY RunStates DEF Stages, Open
<1>1. /\ r \in Run
      /\ \A x \in Run : x # r => held[q].runs[x] = engine.runs[x]
      /\ engine.runs[r].effects \subseteq held[q].runs[r].effects
      /\ engine.runs[r].state = "awaiting_approval"
      /\ "mutationApplied" \notin engine.runs[r].effects
      /\ pc[q] \in Open
      /\ held[q].runs[r].state = pc[q]
  BY <1>0, SerialStage DEF Worked
<1>2. GoOn(q, stage, next)
  <2>1. Legal(copy.runs[r].state, <<stage>>)
    BY <1>1, PathsAreLegal
  <2> QED
    BY <2>1 DEF GoOnMoved
<1>3. next.runs[r].effects = copy.runs[r].effects \cup effects
  BY <1>0, <1>1, MovedShape
<1>4. \A x \in Run : x # r => next.runs[x] = copy.runs[x]
  BY <1>0, <1>1, MovedShape
<1> HIDE DEF next
<1>5. /\ \A x \in Run : x # r => next.runs[x] = engine.runs[x]
      /\ engine.runs[r].effects \subseteq next.runs[r].effects
  BY <1>1, <1>3, <1>4
<1>6. /\ pc[q] = "verifying" => stage = "rolling_back"
      /\ pc[q] # "rolling_back"
      /\ stage \notin {"observing", "probing", "exercising"}
      /\ mutated'[q] = mutated[q] \/ (pc[q] = "applying" /\ stage = "verifying")
  OBVIOUS
<1> QED
  BY <1>0, <1>1, <1>2, <1>5, <1>6, SerialGoOn

-----------------------------------------------------------------------------
(* One lemma per action, for requests that come one at a time.             *)

LEMMA WebhookSerial ==
  ASSUME SerialInv, NEW q \in Request, Webhook(q)
  PROVE  SerialPart' /\ Forward
<1>1. /\ engine \in Engine
      /\ pc \in [Request -> Open \cup {"new", "done", "invalid"}]
  BY TypeShape DEF SerialInv, IInv
<1>2. /\ pc[q] = "new" /\ pc' = [pc EXCEPT ![q] = "done"]
      /\ engine' = [engine EXCEPT !.events = @ \cup {q}]
      /\ about' = about /\ held' = held /\ mutated' = mutated
  BY DEF Webhook, Arrives, hostVars
<1>3. engine'.runs = engine.runs
  BY <1>1, <1>2 DEF Engine
<1>4. Alone /\ MutatedOnce /\ \A p \in Request : Follows(p) /\ Marked(p)
  BY DEF SerialInv, SerialPart
<1>5. Alone'
  BY <1>1, <1>2, <1>4 DEF Alone, Open
<1>6. MutatedOnce'
  BY <1>2, <1>4 DEF MutatedOnce
<1>7. ASSUME NEW p \in Request PROVE Follows(p)' /\ Marked(p)'
  <2>1. CASE p = q
    <3>1. pc'[q] = "done" /\ mutated[q] = {}
      BY <1>1, <1>2, <1>4 DEF Marked
    <3> QED
      BY <2>1, <3>1, <1>2 DEF Follows, Marked, Stages
  <2>2. CASE p # q
    <3>1. pc'[p] = pc[p]
      BY <2>2, <1>1, <1>2
    <3> QED
      BY <3>1, <1>2, <1>3, <1>4 DEF Follows, Marked
  <2> QED
    BY <2>1, <2>2
<1>8. Forward
  BY <1>3 DEF Forward
<1> QED
  BY <1>5, <1>6, <1>7, <1>8 DEF SerialPart

LEMMA ScanSerial ==
  ASSUME SerialInv, Serial, NEW q \in Request,
         ScanStarts(q) \/ ScanObserves(q) \/ ScanSaves(q)
  PROVE  SerialPart' /\ Forward
<1>0. /\ Types /\ held[q] \in Engine
      /\ Follows(q) /\ Marked(q)
  BY TypeShape DEF SerialInv, IInv, SerialPart
<1>1. CASE ScanStarts(q)
  <2>1. /\ Take(q, "observing", engine)
        /\ engine' = engine /\ mutated' = mutated /\ about' = about
    BY <1>1 DEF ScanStarts, hostVars
  <2>2. "observing" \in Open /\ "observing" \notin Stages
    BY DEF Open, Stages
  <2> QED
    BY <2>1, <2>2, SerialTake
<1>2. CASE ScanObserves(q)
  <2>1. /\ pc[q] = "observing" /\ GoOn(q, "probing", held[q])
        /\ about' = about /\ mutated' = mutated
    BY <1>2 DEF ScanObserves
  <2>2. /\ "probing" \in Open /\ "probing" \notin Stages /\ "observing" \in Open
        /\ held[q].runs = engine.runs
    BY <1>0, <2>1 DEF Open, Stages, Follows
  <2> QED
    BY <2>1, <2>2, SerialGoOn
<1>3. CASE ScanSaves(q)
  <2>1. PICK next \in Engine :
          /\ Save(q, next) /\ next.runs = held[q].runs
          /\ next.revisions = held[q].revisions
    BY <1>3, <1>0, ScanSaved
  <2>2. /\ pc[q] = "probing" /\ about' = about /\ mutated' = mutated
    BY <1>3 DEF ScanSaves, hostVars
  <2>3. /\ next.runs = engine.runs /\ mutated[q] = {} /\ "probing" \in Open
    BY <1>0, <2>1, <2>2 DEF Follows, Marked, Open
  <2> QED
    BY <2>1, <2>2, <2>3, SerialSave
<1> QED
  BY <1>1, <1>2, <1>3

LEMMA StartsSerial ==
  ASSUME SerialInv, Serial, NEW q \in Request, NEW r \in Run,
         AdvanceStarts(q, r) \/ \E m \in Mode : ApproveStarts(q, r, m)
  PROVE  SerialPart' /\ Forward
<1>0. /\ about \in [Request -> Run \cup {None}] /\ engine \in Engine
      /\ \A x \in Run : Saved(engine, x)
  BY TypeShape DEF SerialInv, IInv
<1>1. /\ about' = [about EXCEPT ![q] = r]
      /\ engine' = engine /\ mutated' = mutated
  BY DEF AdvanceStarts, ApproveStarts, hostVars
<1>2. about'[q] = r /\ \A p \in Request : p # q => about'[p] = about[p]
  BY <1>0, <1>1
<1>3. CASE AdvanceStarts(q, r)
  <2> DEFINE next == Moved(engine, r, "exercising", {})
  <2>1. Take(q, "exercising", next) /\ engine.runs[r].state = "none"
    BY <1>3 DEF AdvanceStarts
  <2>2. "exercising" \in RunState /\ "exercising" \in Open
    BY RunStates DEF Open
  <2>3. /\ next.runs[r].effects = engine.runs[r].effects
        /\ \A x \in Run : x # r => next.runs[x] = engine.runs[x]
    BY <1>0, <2>2, BegunShape
  <2> HIDE DEF next
  <2> QED
    BY <1>1, <1>2, <2>1, <2>2, <2>3, SerialTake
<1>4. ASSUME NEW m \in Mode, ApproveStarts(q, r, m)
      PROVE  SerialPart' /\ Forward
  <2> DEFINE copy == [engine EXCEPT !.revisions[r] =
                        IF engine.mirror = <<>> THEN @ ELSE engine.mirror]
             next == Moved(copy, r, "applying", {})
  <2>1. Take(q, "applying", next) /\ engine.runs[r].state = "awaiting_approval"
    BY <1>4 DEF ApproveStarts
  <2>2. copy \in Engine /\ copy.runs = engine.runs
    <3>1. /\ engine.revisions \in [Run -> Content]
          /\ engine.mirror \in Content
      BY <1>0, CopyShape
    <3> QED
      BY <1>0, <3>1 DEF Engine
  <2> HIDE DEF copy
  <2>3. "applying" \in RunState /\ "applying" \in Open
    BY RunStates DEF Open
  <2>4. /\ next.runs[r].effects = engine.runs[r].effects
        /\ \A x \in Run : x # r => next.runs[x] = engine.runs[x]
    BY <2>2, <2>3, BegunShape
  <2> HIDE DEF next
  <2> QED
    BY <1>1, <1>2, <2>1, <2>3, <2>4, SerialTake
<1> QED
  BY <1>3, <1>4

LEMMA AdvanceEndsSerial ==
  ASSUME SerialInv, NEW q \in Request, AdvanceEnds(q)
  PROVE  SerialPart' /\ Forward
<1> DEFINE healthy == <<"verified_healthy", "remembered">>
           guided == <<"investigating", "guided">>
           planned == <<"investigating", "planning", "awaiting_approval">>
           found == {"journeysRun", "investigationDone"}
           passed == {"journeysRun", "memoryRecorded"}
<1>1. pc[q] = "exercising" /\ about' = about /\ mutated' = mutated
  BY DEF AdvanceEnds, hostVars
<1>2. /\ pc[q] \in Stages /\ about[q] \in Run /\ held[q] \in Engine
      /\ held[q].runs[about[q]].state = pc[q]
  BY <1>1, SerialStage DEF Stages, Worked
<1>3. /\ healthy[Len(healthy)] = "remembered" /\ Legal(pc[q], healthy)
      /\ guided[Len(guided)] = "guided" /\ Legal(pc[q], guided)
      /\ planned[Len(planned)] = "awaiting_approval" /\ Legal(pc[q], planned)
  BY <1>1, PathEnds, PathsAreLegal
<1>4. found \in SUBSET Effect /\ passed \in SUBSET Effect
  BY DEF Effect
<1>5. \/ SaveMoved(q, held[q], healthy, passed)
      \/ SaveMoved(q, held[q], guided, found)
      \/ \E plan \in Plans(held[q]) :
           SaveMoved(q, [held[q] EXCEPT !.runs[about[q]].plan = plan], planned, found)
  BY DEF AdvanceEnds
<1> HIDE DEF healthy, guided, planned, found, passed
<1>6. CASE SaveMoved(q, held[q], healthy, passed)
  BY <1>1, <1>2, <1>3, <1>4, <1>6, SerialSaveMoved
<1>7. CASE SaveMoved(q, held[q], guided, found)
  BY <1>1, <1>2, <1>3, <1>4, <1>7, SerialSaveMoved
<1>8. ASSUME NEW plan \in Plans(held[q]),
             SaveMoved(q, [held[q] EXCEPT !.runs[about[q]].plan = plan], planned, found)
      PROVE  SerialPart' /\ Forward
  <2> DEFINE copy == [held[q] EXCEPT !.runs[about[q]].plan = plan]
  <2>1. plan \in Plan
    BY DEF Plans, Plan
  <2>2. /\ copy \in Engine
        /\ copy.runs[about[q]].state = pc[q]
        /\ copy.runs[about[q]].effects = held[q].runs[about[q]].effects
        /\ \A x \in Run : x # about[q] => copy.runs[x] = held[q].runs[x]
    BY <1>2, <2>1, PlannedShape
  <2>3. SaveMoved(q, copy, planned, found)
    BY <1>8
  <2> HIDE DEF copy
  <2> QED
    BY <1>1, <1>2, <1>3, <1>4, <2>2, <2>3, SerialSaveMoved
<1> QED
  BY <1>5, <1>6, <1>7, <1>8

LEMMA ApplySerial ==
  ASSUME SerialInv, NEW q \in Request, ApplyFails(q) \/ Applies(q)
  PROVE  SerialPart' /\ Forward
<1> DEFINE path == <<"failed", "guided">>
           effects == {"mutationApplied"}
<1>1. pc[q] = "applying" /\ about' = about
  BY DEF ApplyFails, Applies
<1>2. /\ pc[q] \in Stages /\ about[q] \in Run /\ held[q] \in Engine
      /\ held[q].runs[about[q]].state = pc[q]
      /\ HostOK /\ mutated \in [Request -> SUBSET Proxy]
  BY <1>1, SerialStage, TypeShape DEF Stages, Worked, SerialInv, IInv, HostOK
<1>3. effects \in SUBSET Effect /\ "mutationApplied" \in effects
  BY DEF Effect
<1>4. path[Len(path)] = "guided" /\ Legal(pc[q], path)
  BY <1>1, PathEnds, PathsAreLegal
<1>5. \A p \in Request : p # q => mutated'[p] = mutated[p]
  BY <1>2 DEF ApplyFails, Applies, Acts, hostVars
<1>6. CASE ApplyFails(q)
  <2>1. SaveMoved(q, held[q], path, effects)
    BY <1>6 DEF ApplyFails
  <2> HIDE DEF path, effects
  <2> QED
    BY <1>1, <1>2, <1>3, <1>4, <1>5, <2>1, SerialSaveMoved
<1>7. CASE Applies(q)
  <2>1. GoOnMoved(q, Mirrored(q), "verifying", effects)
    BY <1>7 DEF Applies
  <2>2. Mirrored(q) \in Engine /\ Mirrored(q).runs = held[q].runs
    BY <1>2, ExecutedShape DEF HostOK
  <2> HIDE DEF effects
  <2> QED
    BY <1>1, <1>3, <1>5, <2>1, <2>2, SerialGoOnMoved
<1> QED
  BY <1>6, <1>7

LEMMA VerifySerial ==
  ASSUME SerialInv, NEW q \in Request, VerifyPasses(q) \/ VerifyFails(q)
  PROVE  SerialPart' /\ Forward
<1> DEFINE passes == <<"recovered", "remembered">>
           fails == <<"rolling_back", "guided">>
           verified == {"verificationDone", "memoryRecorded"}
           effects == {"verificationDone"}
<1>1. pc[q] = "verifying" /\ about' = about /\ mutated' = mutated
  BY DEF VerifyPasses, VerifyFails, hostVars
<1>2. /\ pc[q] \in Stages /\ about[q] \in Run /\ held[q] \in Engine
      /\ held[q].runs[about[q]].state = pc[q]
      /\ "mutationApplied" \in held[q].runs[about[q]].effects
  BY <1>1, SerialStage DEF Stages, Worked
<1>3. effects \in SUBSET Effect /\ verified \in SUBSET Effect
  BY DEF Effect
<1>4. /\ passes[Len(passes)] = "remembered" /\ Legal(pc[q], passes)
      /\ fails[Len(fails)] = "guided" /\ Legal(pc[q], fails)
  BY <1>1, PathEnds, PathsAreLegal
<1>5. \/ SaveMoved(q, held[q], passes, verified)
      \/ SaveMoved(q, held[q], fails, effects)
      \/ GoOnMoved(q, held[q], "rolling_back", effects)
  BY DEF VerifyPasses, VerifyFails
<1> HIDE DEF passes, fails, verified, effects
<1>6. CASE SaveMoved(q, held[q], passes, verified)
  BY <1>1, <1>2, <1>3, <1>4, <1>6, SerialSaveMoved
<1>7. CASE SaveMoved(q, held[q], fails, effects)
  BY <1>1, <1>2, <1>3, <1>4, <1>7, SerialSaveMoved
<1>8. CASE GoOnMoved(q, held[q], "rolling_back", effects)
  BY <1>1, <1>2, <1>3, <1>8, SerialGoOnMoved
<1> QED
  BY <1>5, <1>6, <1>7, <1>8

LEMMA RollbackSerial ==
  ASSUME SerialInv, NEW q \in Request, RollsBack(q) \/ RollbackFails(q)
  PROVE  SerialPart' /\ Forward
<1> DEFINE before == held[q].revisions[about[q]]
           restored == Mirroring(held[q], before)
           guided == <<"guided">>
           fails == <<"failed", "guided">>
           effects == {"rollbackDone"}
           none == {}
<1>1. pc[q] = "rolling_back" /\ about' = about /\ mutated' = mutated
  BY DEF RollsBack, RollbackFails, hostVars
<1>2. /\ pc[q] \in Stages /\ about[q] \in Run /\ held[q] \in Engine
      /\ held[q].runs[about[q]].state = pc[q]
      /\ "mutationApplied" \in held[q].runs[about[q]].effects
  BY <1>1, SerialStage DEF Stages, Worked
<1>3. restored \in Engine /\ restored.runs = held[q].runs
  <2>1. before \in Content
    BY <1>2, CopyShape
  <2> QED
    BY <1>2, <2>1, MirroringShape
<1>4. effects \in SUBSET Effect /\ none \in SUBSET Effect
  BY DEF Effect
<1>5. /\ guided[Len(guided)] = "guided" /\ Legal(pc[q], guided)
      /\ fails[Len(fails)] = "guided" /\ Legal(pc[q], fails)
  BY <1>1, PathEnds, PathsAreLegal
<1>6. \/ SaveMoved(q, restored, guided, effects)
      \/ SaveMoved(q, held[q], fails, none)
  BY DEF RollsBack, RollbackFails
<1> HIDE DEF restored, guided, fails, effects, none
<1>7. CASE SaveMoved(q, restored, guided, effects)
  BY <1>1, <1>2, <1>3, <1>4, <1>5, <1>7, SerialSaveMoved
<1>8. CASE SaveMoved(q, held[q], fails, none)
  BY <1>1, <1>2, <1>4, <1>5, <1>8, SerialSaveMoved
<1> QED
  BY <1>6, <1>7, <1>8

LEMMA QuietSerial ==
  ASSUME SerialInv, UNCHANGED <<engine, pc, about, held, mutated>>
  PROVE  SerialPart' /\ Forward
<1>1. Alone' /\ MutatedOnce'
  BY DEF SerialInv, SerialPart, Alone, MutatedOnce
<1>2. ASSUME NEW q \in Request PROVE Follows(q)' /\ Marked(q)'
  BY DEF SerialInv, SerialPart, Follows, Marked
<1>3. Forward
  BY DEF Forward
<1> QED
  BY <1>1, <1>2, <1>3 DEF SerialPart

LEMMA NextSerial ==
  ASSUME Serial
  PROVE  SerialInv /\ [Next]_vars => SerialInv' /\ Forward
<1> SUFFICES ASSUME SerialInv, [Next]_vars PROVE SerialPart' /\ Forward
  BY NextInv DEF SerialInv
<1>1. CASE UNCHANGED vars
  BY <1>1, QuietSerial DEF vars, hostVars
<1>2. ASSUME NEW q \in Request, Proceed(q) PROVE SerialPart' /\ Forward
  <2>1. ~HostCallThrows(q)
    BY DEF Serial, HostCallThrows
  <2> QED
    BY <1>2, <2>1, ScanSerial, AdvanceEndsSerial, ApplySerial, VerifySerial, RollbackSerial
       DEF Proceed
<1>3. ASSUME NEW c \in Written, EditProxy(c) PROVE SerialPart' /\ Forward
  BY <1>3, QuietSerial DEF EditProxy
<1>4. CASE Next
  BY <1>2, <1>3, <1>4, WebhookSerial, ScanSerial, StartsSerial DEF Next
<1> QED
  BY <1>1, <1>4

LEMMA SerialInvariance == ASSUME Serial PROVE Spec => []SerialInv
<1>1. Init => SerialInv
  BY InitInv, SerialInit DEF SerialInv
<1>2. SerialInv /\ [Next]_vars => SerialInv'
  BY NextSerial
<1> QED
  BY <1>1, <1>2, PTL DEF Spec

\* Requests that come one at a time execute an approved plan at most once per
\* run, however often the approval is sent (approveAndRecover).
THEOREM MutatesOnce == ASSUME Serial PROVE Spec => []MutatedOnce
<1>1. SerialInv => MutatedOnce
  BY DEF SerialInv, SerialPart
<1> QED
  BY <1>1, SerialInvariance, PTL

\* And no run they saved goes back: what is decided or done stays so, although
\* every handler replaces the whole engine (setLoopEngine).
THEOREM RunsGoForward == ASSUME Serial PROVE Spec => RunsMoveForward
<1>1. SerialInv /\ [Next]_vars => [Forward]_vars
  BY NextSerial
<1>2. Spec => [][Forward]_vars
  BY <1>1, SerialInvariance, PTL DEF Spec
<1> QED
  BY <1>2 DEF RunsMoveForward, Forward

-----------------------------------------------------------------------------
(* What the engine believes of the proxy, when requests come one at a time *)
(* and nobody edited the proxy since the last scan.                        *)

Acting == {"applying", "verifying", "rolling_back"}

\* The run of a handler has a revision to fall back to only once it is approved.
NoRevisionYet(copy) ==
  \A r \in Run :
    copy.runs[r].state \in {"none", "awaiting_approval"} => copy.revisions[r] = <<>>

\* A handler touches the revision of the run it approves, and no other.
KeepsRevisions(q) ==
  /\ pc[q] \in {"observing", "probing", "exercising"} => held[q].revisions = engine.revisions
  /\ pc[q] \in Acting =>
       \A x \in Run : x # about[q] => held[q].revisions[x] = engine.revisions[x]

\* A content that may be taken for the proxy p, or none.
Fair(content, p) == content = <<>> \/ content \in Known(p)

\* The mirror of its copy is what can be known of the proxy, the revision it
\* saved what could be known of the one its action found, and what its plan
\* wrote is still in the Caddyfile.
KnowsProxy(q) ==
  ~drift =>
    /\ pc[q] \in Stages \cup {"observing"} => Fair(held[q].mirror, proxy)
    /\ pc[q] = "probing" =>
         /\ seen[q] = Observed(proxy)
         /\ seen[q] = <<>> => Fair(held[q].mirror, proxy)
    /\ pc[q] = "applying" => Fair(held[q].revisions[about[q]], proxy)
    /\ pc[q] \in {"verifying", "rolling_back"} =>
         \E p \in mutated[q] : Fair(held[q].revisions[about[q]], p)
    /\ pc[q] = "verifying" /\ Restoring(q) => proxy.main = Revision(q)

\* Between requests, so is the mirror of the engine.
MirrorIsRight ==
  ~drift /\ (\A q \in Request : pc[q] \notin Open) => Fair(engine.mirror, proxy)

MirrorPart ==
  /\ NoRevisionYet(engine)
  /\ MirrorIsRight
  /\ \A q \in Request : KeepsRevisions(q) /\ KnowsProxy(q)

MirrorInv == SerialInv /\ MirrorPart

LEMMA MirrorInit == Init => MirrorPart
<1> SUFFICES ASSUME Init PROVE MirrorPart
  OBVIOUS
<1>1. engine.mirror = <<>> /\ \A r \in Run : engine.revisions[r] = <<>>
  BY DEF Init, EmptyEngine
<1>2. \A q \in Request : pc[q] = "new"
  BY DEF Init
<1>3. NoRevisionYet(engine) /\ MirrorIsRight
  BY <1>1 DEF NoRevisionYet, MirrorIsRight, Fair
<1>4. \A q \in Request : KeepsRevisions(q) /\ KnowsProxy(q)
  BY <1>2 DEF KeepsRevisions, KnowsProxy, Stages, Acting
<1> QED
  BY <1>3, <1>4 DEF MirrorPart

\* Only the open request can know anything.
LEMMA ClosedKnowNothing ==
  ASSUME NEW p \in Request, pc[p] \notin Open
  PROVE  KeepsRevisions(p) /\ KnowsProxy(p)
BY DEF KeepsRevisions, KnowsProxy, Stages, Acting, Open

\* A step after which q is in progress.
LEMMA MirrorOpen ==
  ASSUME Alone', NEW q \in Request, pc'[q] \in Open, engine' = engine,
         NoRevisionYet(engine), KeepsRevisions(q)', KnowsProxy(q)'
  PROVE  MirrorPart'
<1>1. NoRevisionYet(engine)'
  BY DEF NoRevisionYet
<1>2. MirrorIsRight'
  BY DEF MirrorIsRight
<1>3. ASSUME NEW p \in Request PROVE KeepsRevisions(p)' /\ KnowsProxy(p)'
  <2>1. CASE p = q
    BY <2>1
  <2>2. CASE p # q
    <3>1. pc'[p] \notin Open
      BY <2>2 DEF Alone
    <3> QED
      BY <3>1 DEF KeepsRevisions, KnowsProxy, Stages, Acting, Open
  <2> QED
    BY <2>1, <2>2
<1> QED
  BY <1>1, <1>2, <1>3 DEF MirrorPart

\* A step in which the request in progress saves its copy.
LEMMA MirrorSave ==
  ASSUME SerialInv, NEW q \in Request, pc[q] \in Open, NEW copy, Save(q, copy),
         NoRevisionYet(copy), ~drift' => Fair(copy.mirror, proxy')
  PROVE  MirrorPart'
<1>1. pc \in [Request -> Open \cup {"new", "done", "invalid"}]
  BY TypeShape DEF SerialInv, IInv
<1>2. engine' = copy /\ pc' = [pc EXCEPT ![q] = "done"]
  BY DEF Save
<1>3. \A p \in Request : pc'[p] \notin Open
  BY <1>1, <1>2 DEF SerialInv, SerialPart, Alone, Open
<1>4. NoRevisionYet(engine)' /\ MirrorIsRight'
  BY <1>2 DEF NoRevisionYet, MirrorIsRight
<1>5. \A p \in Request : KeepsRevisions(p)' /\ KnowsProxy(p)'
  BY <1>3 DEF KeepsRevisions, KnowsProxy, Stages, Acting, Open
<1> QED
  BY <1>4, <1>5 DEF MirrorPart

\* A run that is saved where it may still be approved kept its revision.
LEMMA MirrorSaveMoved ==
  ASSUME SerialInv, MirrorPart, NEW q \in Request, pc[q] \in Stages,
         NEW copy \in Engine, NEW path, NEW effects \in SUBSET Effect,
         NEW end \in {"remembered", "guided", "awaiting_approval"},
         end = "awaiting_approval" => pc[q] = "exercising",
         path[Len(path)] = end, Legal(pc[q], path),
         copy.runs[about[q]].state = pc[q],
         \A x \in Run : x # about[q] => copy.runs[x] = held[q].runs[x],
         copy.revisions = held[q].revisions,
         SaveMoved(q, copy, path, effects),
         ~drift' => Fair(copy.mirror, proxy')
  PROVE  MirrorPart'
<1> DEFINE r == about[q]
           next == Moved(copy, about[q], end, effects)
<1>1. /\ r \in Run
      /\ \A x \in Run : x # r => held[q].runs[x] = engine.runs[x]
      /\ engine.runs[r].state = IF pc[q] = "exercising" THEN "none" ELSE "awaiting_approval"
      /\ pc[q] \in Open
  BY SerialStage
<1>2. Save(q, next)
  BY DEF SaveMoved
<1>3. end \in RunState
  BY RunStates
<1>4. next.mirror = copy.mirror
  BY DEF Moved, Engine
<1>5. next.revisions = copy.revisions
  BY <1>1, <1>3, MovedShape
<1>6. next.runs[r].state = end
  BY <1>1, <1>3, MovedShape
<1>7. \A x \in Run : x # r => next.runs[x] = copy.runs[x]
  BY <1>1, <1>3, MovedShape
<1> HIDE DEF next
<1>8. KeepsRevisions(q) /\ NoRevisionYet(engine)
  BY DEF MirrorPart
<1>9. NoRevisionYet(next)
  <2> SUFFICES ASSUME NEW x \in Run, next.runs[x].state \in {"none", "awaiting_approval"}
               PROVE  next.revisions[x] = <<>>
    BY DEF NoRevisionYet
  <2>1. CASE x = r
    <3>1. pc[q] = "exercising" /\ engine.runs[r].state = "none"
      BY <2>1, <1>1, <1>6
    <3> QED
      BY <2>1, <3>1, <1>1, <1>5, <1>8 DEF KeepsRevisions, NoRevisionYet
  <2>2. CASE x # r
    <3>1. engine.runs[x].state \in {"none", "awaiting_approval"}
      BY <2>2, <1>1, <1>7
    <3>2. held[q].revisions[x] = engine.revisions[x]
      BY <2>2, <1>8 DEF KeepsRevisions, Stages, Acting
    <3> QED
      BY <3>1, <3>2, <1>5, <1>8 DEF NoRevisionYet
  <2> QED
    BY <2>1, <2>2
<1> QED
  BY <1>1, <1>2, <1>4, <1>9, MirrorSave

-----------------------------------------------------------------------------
(* One lemma per action.                                                   *)

LEMMA WebhookMirror ==
  ASSUME MirrorInv, NEW q \in Request, Webhook(q)
  PROVE  MirrorPart'
<1>1. /\ engine \in Engine
      /\ pc \in [Request -> Open \cup {"new", "done", "invalid"}]
  BY TypeShape DEF MirrorInv, SerialInv, IInv
<1>2. /\ pc[q] = "new" /\ pc' = [pc EXCEPT ![q] = "done"]
      /\ engine' = [engine EXCEPT !.events = @ \cup {q}]
      /\ about' = about /\ held' = held /\ seen' = seen
      /\ proxy' = proxy /\ mutated' = mutated /\ drift' = drift
  BY DEF Webhook, Arrives, hostVars
<1>3. /\ engine'.runs = engine.runs /\ engine'.mirror = engine.mirror
      /\ engine'.revisions = engine.revisions
  BY <1>1, <1>2 DEF Engine
<1>4. /\ NoRevisionYet(engine) /\ MirrorIsRight
      /\ \A p \in Request : KeepsRevisions(p) /\ KnowsProxy(p)
  BY DEF MirrorInv, MirrorPart
<1>5. NoRevisionYet(engine)'
  BY <1>3, <1>4 DEF NoRevisionYet
<1>6. \A p \in Request : pc'[p] \in Open <=> pc[p] \in Open
  BY <1>1, <1>2 DEF Open
<1>7. MirrorIsRight'
  BY <1>2, <1>3, <1>4, <1>6 DEF MirrorIsRight
<1>8. ASSUME NEW p \in Request PROVE KeepsRevisions(p)' /\ KnowsProxy(p)'
  <2>1. CASE p = q
    <3>1. pc'[p] = "done"
      BY <2>1, <1>1, <1>2
    <3> QED
      BY <3>1 DEF KeepsRevisions, KnowsProxy, Stages, Acting
  <2>2. CASE p # q
    <3>1. /\ pc'[p] = pc[p]
          /\ Restoring(p)' = Restoring(p) /\ Revision(p)' = Revision(p)
      BY <2>2, <1>1, <1>2 DEF Restoring, Revision
    <3>2. KeepsRevisions(p)'
      BY <3>1, <1>2, <1>3, <1>4 DEF KeepsRevisions
    <3>3. KnowsProxy(p)'
      BY <3>1, <1>2, <1>4 DEF KnowsProxy
    <3> QED
      BY <3>2, <3>3
  <2> QED
    BY <2>1, <2>2
<1> QED
  BY <1>5, <1>7, <1>8 DEF MirrorPart

LEMMA ScanMirror ==
  ASSUME MirrorInv, Alone', Serial, NEW q \in Request,
         ScanStarts(q) \/ ScanObserves(q) \/ ScanSaves(q)
  PROVE  MirrorPart'
<1>0. /\ Types /\ held \in [Request -> Engine] /\ held[q] \in Engine
      /\ pc \in [Request -> Open \cup {"new", "done", "invalid"}]
      /\ seen \in [Request -> Content]
      /\ NoRevisionYet(engine) /\ MirrorIsRight /\ KeepsRevisions(q) /\ KnowsProxy(q)
      /\ Follows(q) /\ SerialInv
  BY TypeShape DEF MirrorInv, MirrorPart, SerialInv, SerialPart, IInv, HostOK
<1>1. CASE ScanStarts(q)
  <2>1. /\ engine' = engine /\ pc'[q] = "observing" /\ held'[q] = engine
        /\ proxy' = proxy /\ drift' = drift
        /\ Take(q, "observing", engine)
    BY <1>0, <1>1 DEF ScanStarts, Take, hostVars
  <2>2. KeepsRevisions(q)' /\ KnowsProxy(q)'
    <3>1. \A p \in Request : pc[p] \notin Open
      BY <2>1, NobodyElse
    <3> QED
      BY <1>0, <2>1, <3>1 DEF KeepsRevisions, KnowsProxy, MirrorIsRight, Acting
  <2>3. pc'[q] \in Open
    BY <2>1 DEF Open
  <2> QED
    BY <1>0, <2>1, <2>2, <2>3, MirrorOpen
<1>2. CASE ScanObserves(q)
  <2>1. /\ pc[q] = "observing" /\ engine' = engine /\ pc'[q] = "probing"
        /\ held'[q] = held[q] /\ seen'[q] = Observed(proxy) /\ proxy' = proxy
        /\ ~drift' => ~drift \/ seen'[q] # <<>>
    BY <1>0, <1>2 DEF ScanObserves, GoOn
  <2>2. KeepsRevisions(q)'
    BY <1>0, <2>1 DEF KeepsRevisions, Acting
  <2>3. KnowsProxy(q)'
    BY <1>0, <2>1 DEF KnowsProxy, Stages
  <2>4. pc'[q] \in Open
    BY <2>1 DEF Open
  <2> QED
    BY <1>0, <2>1, <2>2, <2>3, <2>4, MirrorOpen
<1>3. CASE ScanSaves(q)
  <2>1. PICK next \in Engine :
          /\ Save(q, next) /\ next.runs = held[q].runs
          /\ next.revisions = held[q].revisions
          /\ next.mirror = IF seen[q] = <<>> THEN held[q].mirror ELSE seen[q]
    BY <1>3, <1>0, ScanSaved
  <2>2. pc[q] = "probing" /\ pc[q] \in Open /\ proxy' = proxy /\ drift' = drift
    BY <1>3 DEF ScanSaves, hostVars, Open
  <2>3. next.runs = engine.runs /\ next.revisions = engine.revisions
    BY <1>0, <2>1, <2>2 DEF Follows, KeepsRevisions
  <2>4. NoRevisionYet(next)
    BY <1>0, <2>3 DEF NoRevisionYet
  <2>5. ~drift' => Fair(next.mirror, proxy')
    BY <1>0, <2>1, <2>2 DEF KnowsProxy, Fair, Known
  <2> QED
    BY <1>0, <2>1, <2>2, <2>4, <2>5, MirrorSave
<1> QED
  BY <1>1, <1>2, <1>3

LEMMA AdvanceStartsMirror ==
  ASSUME MirrorInv, Alone', Serial, NEW q \in Request, NEW r \in Run, AdvanceStarts(q, r)
  PROVE  MirrorPart'
<1> DEFINE next == Moved(engine, r, "exercising", {})
<1>0. /\ Types /\ engine \in Engine
      /\ NoRevisionYet(engine) /\ MirrorIsRight
  BY TypeShape DEF MirrorInv, MirrorPart, SerialInv, IInv
<1>1. /\ Take(q, "exercising", next) /\ engine' = engine
      /\ proxy' = proxy /\ drift' = drift
  BY DEF AdvanceStarts, hostVars
<1>2. next.revisions = engine.revisions /\ next.mirror = engine.mirror
  <2>1. "exercising" \in RunState
    BY RunStates
  <2>2. next.mirror = engine.mirror
    BY <1>0 DEF Moved, Engine
  <2> QED
    BY <1>0, <2>1, <2>2, BegunShape
<1> HIDE DEF next
<1>3. pc'[q] = "exercising" /\ held'[q] = next
  BY <1>0, <1>1, TypeShape DEF Take
<1>4. KeepsRevisions(q)'
  BY <1>1, <1>2, <1>3 DEF KeepsRevisions, Acting
<1>5. \A p \in Request : pc[p] \notin Open
  BY <1>1, NobodyElse
<1>6. KnowsProxy(q)'
  BY <1>0, <1>1, <1>2, <1>3, <1>5 DEF KnowsProxy, MirrorIsRight
<1>7. pc'[q] \in Open
  BY <1>3 DEF Open
<1> QED
  BY <1>0, <1>1, <1>4, <1>6, <1>7, MirrorOpen

LEMMA ApproveStartsMirror ==
  ASSUME MirrorInv, Alone', Serial, NEW q \in Request, NEW r \in Run, NEW m \in Mode,
         ApproveStarts(q, r, m)
  PROVE  MirrorPart'
<1> DEFINE copy == [engine EXCEPT !.revisions[r] = IF engine.mirror = <<>> THEN @ ELSE engine.mirror]
           next == Moved(copy, r, "applying", {})
<1>0. /\ Types /\ engine \in Engine
      /\ engine.revisions \in [Run -> Content]
      /\ engine.mirror \in Content
      /\ NoRevisionYet(engine) /\ MirrorIsRight
  BY TypeShape, CopyShape DEF MirrorInv, MirrorPart, SerialInv, IInv
<1>1. /\ Take(q, "applying", next) /\ engine' = engine
      /\ about' = [about EXCEPT ![q] = r]
      /\ proxy' = proxy /\ drift' = drift
      /\ engine.runs[r].state = "awaiting_approval"
  BY DEF ApproveStarts, hostVars
<1>2. /\ copy \in Engine /\ copy.mirror = engine.mirror
      /\ copy.revisions[r] = engine.mirror
      /\ \A x \in Run : x # r => copy.revisions[x] = engine.revisions[x]
  BY <1>0, <1>1 DEF Engine, NoRevisionYet
<1> HIDE DEF copy
<1>3. next.revisions = copy.revisions /\ next.mirror = copy.mirror
  <2>1. "applying" \in RunState
    BY RunStates
  <2>2. next.mirror = copy.mirror
    BY <1>2 DEF Moved, Engine
  <2> QED
    BY <1>2, <2>1, <2>2, BegunShape
<1> HIDE DEF next
<1>4. pc'[q] = "applying" /\ held'[q] = next /\ about'[q] = r
  BY <1>0, <1>1, TypeShape DEF Take
<1>5. KeepsRevisions(q)'
  BY <1>1, <1>2, <1>3, <1>4 DEF KeepsRevisions
<1>6. \A p \in Request : pc[p] \notin Open
  BY <1>1, NobodyElse
<1>7. KnowsProxy(q)'
  BY <1>0, <1>1, <1>2, <1>3, <1>4, <1>6 DEF KnowsProxy, MirrorIsRight
<1>8. pc'[q] \in Open
  BY <1>4 DEF Open
<1> QED
  BY <1>0, <1>1, <1>5, <1>7, <1>8, MirrorOpen


LEMMA AdvanceEndsMirror ==
  ASSUME MirrorInv, NEW q \in Request, AdvanceEnds(q)
  PROVE  MirrorPart'
<1> DEFINE healthy == <<"verified_healthy", "remembered">>
           guided == <<"investigating", "guided">>
           planned == <<"investigating", "planning", "awaiting_approval">>
           found == {"journeysRun", "investigationDone"}
           passed == {"journeysRun", "memoryRecorded"}
<1>1. /\ pc[q] = "exercising" /\ proxy' = proxy /\ drift' = drift
      /\ SerialInv /\ MirrorPart
  BY DEF AdvanceEnds, hostVars, MirrorInv
<1>2. /\ pc[q] \in Stages /\ about[q] \in Run /\ held[q] \in Engine
      /\ held[q].runs[about[q]].state = pc[q]
  BY <1>1, SerialStage DEF Stages, Worked
<1>3. /\ healthy[Len(healthy)] = "remembered" /\ Legal(pc[q], healthy)
      /\ guided[Len(guided)] = "guided" /\ Legal(pc[q], guided)
      /\ planned[Len(planned)] = "awaiting_approval" /\ Legal(pc[q], planned)
  BY <1>1, PathEnds, PathsAreLegal
<1>4. found \in SUBSET Effect /\ passed \in SUBSET Effect
  BY DEF Effect
<1>5. \/ SaveMoved(q, held[q], healthy, passed)
      \/ SaveMoved(q, held[q], guided, found)
      \/ \E plan \in Plans(held[q]) :
           SaveMoved(q, [held[q] EXCEPT !.runs[about[q]].plan = plan], planned, found)
  BY DEF AdvanceEnds
<1>6. ~drift' => Fair(held[q].mirror, proxy')
  BY <1>1, <1>2 DEF MirrorPart, KnowsProxy
<1> HIDE DEF healthy, guided, planned, found, passed
<1>7. CASE SaveMoved(q, held[q], healthy, passed)
  BY <1>1, <1>2, <1>3, <1>4, <1>6, <1>7, MirrorSaveMoved
<1>8. CASE SaveMoved(q, held[q], guided, found)
  BY <1>1, <1>2, <1>3, <1>4, <1>6, <1>8, MirrorSaveMoved
<1>9. ASSUME NEW plan \in Plans(held[q]),
             SaveMoved(q, [held[q] EXCEPT !.runs[about[q]].plan = plan], planned, found)
      PROVE  MirrorPart'
  <2> DEFINE copy == [held[q] EXCEPT !.runs[about[q]].plan = plan]
  <2>1. plan \in Plan
    BY DEF Plans, Plan
  <2>2. /\ copy \in Engine
        /\ copy.runs[about[q]].state = pc[q]
        /\ copy.revisions = held[q].revisions
        /\ \A x \in Run : x # about[q] => copy.runs[x] = held[q].runs[x]
    BY <1>2, <2>1, PlannedShape
  <2>3. copy.mirror = held[q].mirror
    BY <1>2 DEF Engine
  <2>4. SaveMoved(q, copy, planned, found)
    BY <1>9
  <2> HIDE DEF copy
  <2> QED
    BY <1>1, <1>2, <1>3, <1>4, <1>6, <2>2, <2>3, <2>4, MirrorSaveMoved
<1> QED
  BY <1>5, <1>7, <1>8, <1>9

\* The failed action changed nothing on the host.
LEMMA ApplyFailsMirror ==
  ASSUME MirrorInv, NEW q \in Request, ApplyFails(q)
  PROVE  MirrorPart'
<1> DEFINE path == <<"failed", "guided">>
           effects == {"mutationApplied"}
<1>1. /\ pc[q] = "applying" /\ proxy' = proxy /\ drift' = drift
      /\ SerialInv /\ MirrorPart
  BY DEF ApplyFails, Acts, hostVars, MirrorInv
<1>2. /\ pc[q] \in Stages /\ held[q] \in Engine
      /\ held[q].runs[about[q]].state = pc[q]
  BY <1>1, SerialStage DEF Stages, Worked
<1>3. effects \in SUBSET Effect /\ path[Len(path)] = "guided" /\ Legal(pc[q], path)
  BY <1>1, PathEnds, PathsAreLegal DEF Effect
<1>4. SaveMoved(q, held[q], path, effects)
  BY DEF ApplyFails
<1>5. ~drift' => Fair(held[q].mirror, proxy')
  BY <1>1, <1>2 DEF MirrorPart, KnowsProxy
<1> HIDE DEF path, effects
<1> QED
  BY <1>1, <1>2, <1>3, <1>4, <1>5, MirrorSaveMoved

\* The mirror follows what the plan wrote, and what the plan wrote stays the
\* revision of it: no handler changes the revisions of other runs.
LEMMA AppliesMirror ==
  ASSUME MirrorInv, Alone', NEW q \in Request, Applies(q)
  PROVE  MirrorPart'
<1> DEFINE r == about[q]
           plan == held[q].runs[r].plan
           next == Moved(Mirrored(q), r, "verifying", {"mutationApplied"})
<1>1. /\ pc[q] = "applying" /\ proxy' = Executed(q) /\ drift' = drift /\ about' = about
      /\ SerialInv /\ Types /\ HostOK
      /\ mutated' = [mutated EXCEPT ![q] = {proxy}]
      /\ NoRevisionYet(engine) /\ KeepsRevisions(q) /\ KnowsProxy(q)
  BY TypeShape DEF Applies, Acts, MirrorInv, MirrorPart, SerialInv, IInv
<1>2. /\ pc[q] \in Stages /\ r \in Run /\ held[q] \in Engine
      /\ held[q].runs[r].state = "applying"
  BY <1>1, SerialStage DEF Stages, Worked
<1>3. /\ Restoring(q) => Executed(q).main = Revision(q) /\ Mirrored(q).mirror = Revision(q)
      /\ ~Restoring(q) => Executed(q) = proxy /\ Mirrored(q) = held[q]
  BY <1>1, <1>2, ExecutedShape DEF HostOK
<1>4. /\ Mirrored(q) \in Engine /\ Mirrored(q).runs = held[q].runs
      /\ Mirrored(q).revisions = held[q].revisions
  BY <1>1, <1>2, ExecutedShape DEF HostOK
<1>5. /\ next.runs[r].plan = plan /\ next.revisions = held[q].revisions
      /\ next.mirror = Mirrored(q).mirror
  <2>1. "verifying" \in RunState /\ {"mutationApplied"} \in SUBSET Effect
    BY RunStates DEF Effect
  <2>2. next.mirror = Mirrored(q).mirror
    BY <1>4 DEF Moved, Engine
  <2>3. next.runs[r].plan = Mirrored(q).runs[r].plan
    BY <1>2, <1>4, <2>1, MovedShape
  <2>4. next.revisions = Mirrored(q).revisions
    BY <1>2, <1>4, <2>1, MovedShape
  <2> QED
    BY <1>4, <2>2, <2>3, <2>4
<1>6. GoOn(q, "verifying", next)
  <2>1. Legal(Mirrored(q).runs[r].state, <<"verifying">>)
    BY <1>2, <1>4, PathsAreLegal
  <2>2. GoOnMoved(q, Mirrored(q), "verifying", {"mutationApplied"})
    BY DEF Applies
  <2> QED
    BY <2>1, <2>2 DEF GoOnMoved
<1> HIDE DEF next
<1>7. /\ engine' = engine /\ pc'[q] = "verifying" /\ held'[q] = next
      /\ mutated'[q] = {proxy} /\ about'[q] = r
  BY <1>1, <1>6, TypeShape DEF GoOn, HostOK
<1>8. KeepsRevisions(q)'
  BY <1>1, <1>5, <1>7 DEF KeepsRevisions, Acting
<1>9. Restoring(q)' = Restoring(q) /\ Revision(q)' = Revision(q)
  BY <1>5, <1>7 DEF Restoring, Revision
<1>10. Fair(held'[q].mirror, proxy') \/ drift'
  <2>1. CASE Restoring(q)
    BY <1>1, <1>3, <1>5, <1>7, <2>1 DEF Fair, Known
  <2>2. CASE ~Restoring(q)
    BY <1>1, <1>2, <1>3, <1>5, <1>7, <2>2 DEF KnowsProxy
  <2> QED
    BY <2>1, <2>2
<1>11. KnowsProxy(q)'
  <2> SUFFICES ASSUME ~drift' PROVE KnowsProxy(q)'
    BY DEF KnowsProxy
  <2>1. Fair(held[q].revisions[r], proxy)
    BY <1>1 DEF KnowsProxy
  <2>2. Restoring(q)' => proxy'.main = Revision(q)'
    BY <1>1, <1>3, <1>9
  <2>3. \E p \in mutated'[q] : Fair(held'[q].revisions[about'[q]], p)
    BY <1>5, <1>7, <2>1
  <2> QED
    BY <1>7, <1>10, <2>2, <2>3 DEF KnowsProxy
<1>12. pc'[q] \in Open
  BY <1>7 DEF Open
<1> QED
  BY <1>1, <1>7, <1>8, <1>11, <1>12, MirrorOpen

LEMMA VerifyMirror ==
  ASSUME MirrorInv, Alone', NEW q \in Request, VerifyPasses(q) \/ VerifyFails(q)
  PROVE  MirrorPart'
<1> DEFINE passes == <<"recovered", "remembered">>
           fails == <<"rolling_back", "guided">>
           verified == {"verificationDone", "memoryRecorded"}
           effects == {"verificationDone"}
<1>1. /\ pc[q] = "verifying" /\ proxy' = proxy /\ drift' = drift /\ about' = about
      /\ mutated' = mutated /\ SerialInv /\ MirrorPart /\ Types
      /\ NoRevisionYet(engine) /\ KeepsRevisions(q) /\ KnowsProxy(q)
  BY DEF VerifyPasses, VerifyFails, hostVars, MirrorInv, MirrorPart, SerialInv, IInv
<1>2. /\ pc[q] \in Stages /\ about[q] \in Run /\ held[q] \in Engine
      /\ held[q].runs[about[q]].state = pc[q]
  BY <1>1, SerialStage DEF Stages, Worked
<1>3. /\ effects \in SUBSET Effect /\ verified \in SUBSET Effect
      /\ passes[Len(passes)] = "remembered" /\ Legal(pc[q], passes)
      /\ fails[Len(fails)] = "guided" /\ Legal(pc[q], fails)
  BY <1>1, PathEnds, PathsAreLegal DEF Effect
<1>4. ~drift' => Fair(held[q].mirror, proxy')
  BY <1>1, <1>2 DEF KnowsProxy
<1>5. \/ SaveMoved(q, held[q], passes, verified)
      \/ SaveMoved(q, held[q], fails, effects)
      \/ GoOnMoved(q, held[q], "rolling_back", effects)
  BY DEF VerifyPasses, VerifyFails
<1> HIDE DEF passes, fails, verified, effects
<1>6. CASE SaveMoved(q, held[q], passes, verified)
  BY <1>1, <1>2, <1>3, <1>4, <1>6, MirrorSaveMoved
<1>7. CASE SaveMoved(q, held[q], fails, effects)
  BY <1>1, <1>2, <1>3, <1>4, <1>7, MirrorSaveMoved
<1>8. CASE GoOnMoved(q, held[q], "rolling_back", effects)
  <2> DEFINE next == Moved(held[q], about[q], "rolling_back", effects)
  <2>1. GoOn(q, "rolling_back", next)
    BY <1>1, <1>2, <1>8, PathsAreLegal DEF GoOnMoved
  <2>2. next.mirror = held[q].mirror
    BY <1>2 DEF Moved, Engine
  <2>3. next.revisions = held[q].revisions
    BY <1>2, <1>3, RunStates, MovedShape
  <2> HIDE DEF next
  <2>4. engine' = engine /\ pc'[q] = "rolling_back" /\ held'[q] = next
    BY <1>1, <2>1, TypeShape DEF GoOn
  <2>5. KeepsRevisions(q)'
    BY <1>1, <2>3, <2>4 DEF KeepsRevisions, Acting
  <2>6. KnowsProxy(q)'
    BY <1>1, <2>2, <2>3, <2>4 DEF KnowsProxy, Stages
  <2>7. pc'[q] \in Open
    BY <2>4 DEF Open
  <2> QED
    BY <1>1, <2>4, <2>5, <2>6, <2>7, MirrorOpen
<1> QED
  BY <1>5, <1>6, <1>7, <1>8

LEMMA RollbackMirror ==
  ASSUME MirrorInv, NEW q \in Request, RollsBack(q) \/ RollbackFails(q)
  PROVE  MirrorPart'
<1> DEFINE before == held[q].revisions[about[q]]
           restored == Mirroring(held[q], before)
           guided == <<"guided">>
           fails == <<"failed", "guided">>
           effects == {"rollbackDone"}
           none == {}
<1>1. pc[q] = "rolling_back" /\ drift' = drift /\ SerialInv /\ MirrorPart
  BY DEF RollsBack, RollbackFails, hostVars, MirrorInv
<1>2. /\ pc[q] \in Stages /\ about[q] \in Run /\ held[q] \in Engine
      /\ held[q].runs[about[q]].state = pc[q]
  BY <1>1, SerialStage DEF Stages, Worked
<1>3. /\ restored \in Engine /\ restored.runs = held[q].runs
      /\ restored.revisions = held[q].revisions /\ restored.mirror = before
  <2>1. before \in Content
    BY <1>2, CopyShape
  <2> QED
    BY <1>2, <2>1, MirroringShape
<1>4. /\ effects \in SUBSET Effect /\ none \in SUBSET Effect
      /\ guided[Len(guided)] = "guided" /\ Legal(pc[q], guided)
      /\ fails[Len(fails)] = "guided" /\ Legal(pc[q], fails)
  BY <1>1, PathEnds, PathsAreLegal DEF Effect
<1>5. \/ SaveMoved(q, restored, guided, effects) /\ proxy'.main = before
      \/ SaveMoved(q, held[q], fails, none) /\ proxy' = proxy
  <2>1. before \in Content /\ proxy \in Proxy
    BY <1>1, <1>2, CopyShape, TypeShape DEF SerialInv, IInv, HostOK
  <2> QED
    BY <2>1, InstalledShape DEF RollsBack, RollbackFails, hostVars
<1>6. ~drift' => Fair(held[q].mirror, proxy)
  BY <1>1, <1>2 DEF MirrorPart, KnowsProxy
<1> HIDE DEF before, restored, guided, fails, effects, none
<1>7. CASE SaveMoved(q, restored, guided, effects) /\ proxy'.main = before
  <2>1. Fair(restored.mirror, proxy')
    BY <1>3, <1>7 DEF Fair, Known
  <2> QED
    BY <1>1, <1>2, <1>3, <1>4, <1>7, <2>1, MirrorSaveMoved
<1>8. CASE SaveMoved(q, held[q], fails, none) /\ proxy' = proxy
  BY <1>1, <1>2, <1>4, <1>6, <1>8, MirrorSaveMoved
<1> QED
  BY <1>5, <1>7, <1>8

\* An edit of the proxy by somebody else leaves nothing to know.
LEMMA EditProxyMirror ==
  ASSUME MirrorInv, NEW c \in Written, EditProxy(c)
  PROVE  MirrorPart'
<1>1. /\ drift' = TRUE /\ engine' = engine /\ pc' = pc /\ about' = about /\ held' = held
      /\ NoRevisionYet(engine) /\ \A q \in Request : KeepsRevisions(q)
  BY DEF EditProxy, MirrorInv, MirrorPart
<1>2. NoRevisionYet(engine)' /\ MirrorIsRight'
  BY <1>1 DEF NoRevisionYet, MirrorIsRight
<1>3. \A q \in Request : KeepsRevisions(q)' /\ KnowsProxy(q)'
  BY <1>1 DEF KeepsRevisions, KnowsProxy
<1> QED
  BY <1>2, <1>3 DEF MirrorPart

LEMMA StutterMirror ==
  ASSUME MirrorInv, UNCHANGED vars
  PROVE  MirrorPart'
<1>1. NoRevisionYet(engine)' /\ MirrorIsRight'
  BY DEF vars, hostVars, MirrorInv, MirrorPart, NoRevisionYet, MirrorIsRight
<1>2. \A q \in Request : KeepsRevisions(q)' /\ KnowsProxy(q)'
  <2>1. ASSUME NEW q \in Request
        PROVE  Restoring(q)' = Restoring(q) /\ Revision(q)' = Revision(q)
    BY DEF vars, Restoring, Revision
  <2> QED
    BY <2>1 DEF vars, hostVars, MirrorInv, MirrorPart, KeepsRevisions, KnowsProxy
<1> QED
  BY <1>1, <1>2 DEF MirrorPart

LEMMA NextMirror ==
  ASSUME Serial
  PROVE  MirrorInv /\ [Next]_vars => MirrorInv'
<1> SUFFICES ASSUME MirrorInv, [Next]_vars PROVE MirrorInv'
  OBVIOUS
<1>1. SerialInv' /\ Alone'
  BY NextSerial DEF MirrorInv, SerialInv, SerialPart
<1>2. CASE UNCHANGED vars
  BY <1>1, <1>2, StutterMirror DEF MirrorInv
<1>3. ASSUME NEW q \in Request, Proceed(q) PROVE MirrorPart'
  <2>1. ~HostCallThrows(q)
    BY DEF Serial, HostCallThrows
  <2> QED
    BY <1>1, <1>3, <2>1, ScanMirror, AdvanceEndsMirror, ApplyFailsMirror, AppliesMirror,
       VerifyMirror, RollbackMirror DEF Proceed
<1>4. CASE Next
  <2>1. MirrorPart'
    BY <1>1, <1>3, <1>4, WebhookMirror, ScanMirror, AdvanceStartsMirror, ApproveStartsMirror,
       EditProxyMirror DEF Next
  <2> QED
    BY <1>1, <2>1 DEF MirrorInv
<1> QED
  BY <1>2, <1>4

LEMMA MirrorInvariance == ASSUME Serial PROVE Spec => []MirrorInv
<1>1. Init => MirrorInv
  BY InitInv, SerialInit, MirrorInit DEF SerialInv, MirrorInv
<1>2. MirrorInv /\ [Next]_vars => MirrorInv'
  BY NextMirror
<1> QED
  BY <1>1, <1>2, PTL DEF Spec

\* What RollbackWritesTheKnown and RepairIsInstalled say of a step.
WritesKnown ==
  \A q \in Request :
    RolledBackBy(q) /\ ~drift => \E p \in mutated[q] : proxy'.main \in Known(p)
Installs ==
  \A q \in Request :
    /\ pc[q] = "verifying" /\ pc'[q] = "done" /\ ~drift /\ Restoring(q)
    /\ engine'.runs[about[q]].state = "remembered"
    => proxy.main = Revision(q)

\* Of the steps of others, none ends the rollback of q.
LEMMA RollbackEnds ==
  ASSUME Serial, MirrorInv, [Next]_vars, NEW q \in Request, pc[q] = "rolling_back", pc'[q] = "done"
  PROVE  RollsBack(q) \/ RollbackFails(q)
<1>1. pc \in [Request -> Open \cup {"new", "done", "invalid"}]
  BY TypeShape DEF MirrorInv, SerialInv, IInv
<1>2. Next
  BY DEF vars
<1>3. ASSUME NEW p \in Request, NEW stage, pc' = [pc EXCEPT ![p] = stage]
      PROVE  p = q
  BY <1>1, <1>3
<1>4. ASSUME NEW p \in Request,
             \/ Webhook(p) \/ ScanStarts(p)
             \/ \E r \in Run : AdvanceStarts(p, r)
             \/ \E r \in Run, m \in Mode : ApproveStarts(p, r, m)
      PROVE  FALSE
  <2>1. pc[p] = "new" /\ \E stage : pc' = [pc EXCEPT ![p] = stage]
    BY <1>4 DEF Webhook, ScanStarts, AdvanceStarts, ApproveStarts, Take, Arrives
  <2> QED
    BY <1>3, <2>1
<1>5. ASSUME NEW p \in Request, Proceed(p)
      PROVE  RollsBack(q) \/ RollbackFails(q)
  <2>1. \E stage : pc' = [pc EXCEPT ![p] = stage]
    BY <1>5 DEF Proceed, ScanObserves, ScanSaves, AdvanceEnds, ApplyFails, Applies, VerifyPasses,
       VerifyFails, RollsBack, RollbackFails, HostCallThrows, Die, SaveMoved, GoOnMoved, Save, GoOn
  <2>2. p = q
    BY <1>3, <2>1
  <2> QED
    BY <1>5, <2>2 DEF Proceed, ScanObserves, ScanSaves, AdvanceEnds, ApplyFails, Applies,
       VerifyPasses, VerifyFails, HostCallThrows, Serial
<1>6. ASSUME NEW c \in Written, EditProxy(c) PROVE FALSE
  BY <1>6 DEF EditProxy
<1> QED
  BY <1>2, <1>4, <1>5, <1>6 DEF Next

LEMMA RollbacksWrite == ASSUME Serial PROVE MirrorInv /\ [Next]_vars => WritesKnown
<1> SUFFICES ASSUME MirrorInv, [Next]_vars, NEW q \in Request, RolledBackBy(q), ~drift
             PROVE  \E p \in mutated[q] : proxy'.main \in Known(p)
  BY DEF WritesKnown
<1>1. /\ pc[q] = "rolling_back" /\ pc'[q] = "done"
      /\ "rollbackDone" \in engine'.runs[about[q]].effects
  BY DEF RolledBackBy
<1>2. /\ pc[q] \in Stages /\ about[q] \in Run /\ held[q] \in Engine
      /\ held[q].runs[about[q]].state = pc[q]
      /\ "rollbackDone" \notin held[q].runs[about[q]].effects
      /\ held[q].revisions[about[q]] # <<>>
  BY <1>1, SerialStage DEF Stages, Worked, MirrorInv
<1>3. KnowsProxy(q)
  BY DEF MirrorInv, MirrorPart
<1>4. CASE RollsBack(q)
  <2>1. PICK p \in mutated[q] : held[q].revisions[about[q]] \in Known(p)
    BY <1>1, <1>2, <1>3 DEF KnowsProxy, Fair
  <2>2. held[q].revisions[about[q]] \in Content /\ proxy \in Proxy
    BY <1>2, CopyShape, TypeShape DEF MirrorInv, SerialInv, IInv, HostOK
  <2>3. proxy'.main = held[q].revisions[about[q]]
    BY <1>4, <2>2, InstalledShape DEF RollsBack
  <2> QED
    BY <2>1, <2>3
<1>5. CASE RollbackFails(q)
  <2> DEFINE fails == <<"failed", "guided">>
             next == Moved(held[q], about[q], "guided", {})
  <2>1. fails[Len(fails)] = "guided" /\ Legal(pc[q], fails)
    BY <1>1, PathEnds, PathsAreLegal
  <2>2. SaveMoved(q, held[q], fails, {})
    BY <1>5 DEF RollbackFails
  <2>3. engine' = next
    BY <1>2, <2>1, <2>2 DEF SaveMoved, Save
  <2>4. next.runs[about[q]].effects = held[q].runs[about[q]].effects
    <3>1. "guided" \in RunState
      BY RunStates
    <3> QED
      BY <1>2, <3>1, BegunShape
  <2> HIDE DEF next
  <2> QED
    BY <1>1, <1>2, <2>3, <2>4
<1> QED
  BY <1>1, <1>4, <1>5, RollbackEnds

\* Requests that come one at a time roll back to what the engine could know of
\* the proxy their action found, unless somebody edited it and no scan saw one
\* since: approveAndRecover saves no older revision, and no newer one.
THEOREM RollbackWritesKnown == ASSUME Serial PROVE Spec => RollbackWritesTheKnown
<1>1. MirrorInv /\ [Next]_vars => [WritesKnown]_vars
  BY RollbacksWrite
<1>2. Spec => [][WritesKnown]_vars
  BY <1>1, MirrorInvariance, PTL DEF Spec
<1> QED
  BY <1>2 DEF RollbackWritesTheKnown, WritesKnown

\* And a revision restored by a run they remember as recovered is still in the
\* Caddyfile then.
THEOREM RepairInstalled == ASSUME Serial PROVE Spec => RepairIsInstalled
<1>1. MirrorInv => Installs
  BY DEF MirrorInv, MirrorPart, KnowsProxy, Installs
<1>2. Spec => [][Installs]_vars
  BY <1>1, MirrorInvariance, PTL DEF Spec
<1> QED
  BY <1>2 DEF RepairIsInstalled, Installs

-----------------------------------------------------------------------------
(* Actions are decided.  ENABLED is written out: the handler of a request  *)
(* that is in progress can go on, whatever it is at.                       *)

\* Weak fairness of Proceed(q), as seen at one moment.
HandlerGoesOn(q) == <>(pc[q] \notin Open) \/ <><<Proceed(q)>>_vars
AllGoOn == \A q \in Request : HandlerGoesOn(q)
Scheduling == []AllGoOn

\* A request that changed the host and is at some stage.
Acted(q, stage) == mutated[q] # {} /\ pc[q] = stage
Decided(q) == about[q] # None /\ engine.runs[about[q]].state \in {"remembered", "guided"}

\* What a step of one request does to the others.
LEMMA OthersRest ==
  ASSUME IInv, [Next]_vars, NEW q \in Request, pc[q] \in {"verifying", "rolling_back"}, ~Proceed(q)
  PROVE  pc'[q] = pc[q] /\ mutated'[q] = mutated[q]
<1>1. /\ pc \in [Request -> Open \cup {"new", "done", "invalid"}]
      /\ mutated \in [Request -> SUBSET Proxy]
  BY DEF IInv, Types
<1>2. ASSUME NEW p \in Request, p # q, NEW stage, pc' = [pc EXCEPT ![p] = stage]
      PROVE  pc'[q] = pc[q]
  BY <1>1, <1>2
<1>3. ASSUME NEW p \in Request, Proceed(p) PROVE pc'[q] = pc[q] /\ mutated'[q] = mutated[q]
  <2>1. p # q
    BY <1>3
  <2>2. ASSUME NEW stage, NEW copy, GoOn(p, stage, copy) PROVE pc'[q] = pc[q]
    BY <1>2, <2>1, <2>2 DEF GoOn
  <2>3. ASSUME NEW copy, Save(p, copy) PROVE pc'[q] = pc[q]
    BY <1>2, <2>1, <2>3 DEF Save
  <2>4. ASSUME NEW copy, NEW path, NEW effects, SaveMoved(p, copy, path, effects)
        PROVE  pc'[q] = pc[q]
    BY <2>2, <2>3, <2>4 DEF SaveMoved
  <2>5. ASSUME NEW copy, NEW stage, NEW effects, GoOnMoved(p, copy, stage, effects)
        PROVE  pc'[q] = pc[q]
    BY <2>2, <2>5 DEF GoOnMoved
  <2>6. pc'[q] = pc[q]
    <3>1. CASE ScanObserves(p)
      BY <2>2, <3>1 DEF ScanObserves
    <3>2. CASE ScanSaves(p)
      BY <2>3, <3>2 DEF ScanSaves
    <3>3. CASE HostCallThrows(p)
      BY <2>2, <3>3 DEF HostCallThrows, Die
    <3>4. CASE AdvanceEnds(p)
      BY <2>4, <3>4 DEF AdvanceEnds
    <3>5. CASE ApplyFails(p) \/ Applies(p) \/ VerifyPasses(p) \/ VerifyFails(p)
      BY <2>4, <2>5, <3>5 DEF ApplyFails, Applies, VerifyPasses, VerifyFails
    <3>6. CASE RollsBack(p) \/ RollbackFails(p)
      BY <2>4, <3>6 DEF RollsBack, RollbackFails
    <3> QED
      BY <1>3, <3>1, <3>2, <3>3, <3>4, <3>5, <3>6 DEF Proceed
  <2>7. ASSUME NEW c, Acts(p, c) PROVE mutated'[q] = mutated[q]
    BY <1>1, <2>1, <2>7 DEF Acts
  <2>8. mutated'[q] = mutated[q]
    <3>1. CASE ScanObserves(p)
      BY <3>1 DEF ScanObserves
    <3>2. CASE ScanSaves(p)
      BY <3>2 DEF ScanSaves, hostVars
    <3>3. CASE AdvanceEnds(p)
      BY <3>3 DEF AdvanceEnds, hostVars
    <3>4. CASE VerifyPasses(p) \/ VerifyFails(p)
      BY <3>4 DEF VerifyPasses, VerifyFails, hostVars
    <3>5. CASE RollsBack(p) \/ RollbackFails(p)
      BY <3>5 DEF RollsBack, RollbackFails, hostVars
    <3>6. CASE ApplyFails(p) \/ Applies(p) \/ HostCallThrows(p)
      BY <2>7, <3>6 DEF ApplyFails, Applies, HostCallThrows, hostVars
    <3> QED
      BY <1>3, <3>1, <3>2, <3>3, <3>4, <3>5, <3>6 DEF Proceed
  <2> QED
    BY <2>6, <2>8
<1>4. ASSUME NEW p \in Request,
             \/ Webhook(p) \/ ScanStarts(p)
             \/ \E r \in Run : AdvanceStarts(p, r)
             \/ \E r \in Run, m \in Mode : ApproveStarts(p, r, m)
      PROVE  pc'[q] = pc[q] /\ mutated'[q] = mutated[q]
  <2>1. /\ pc[p] = "new" /\ mutated' = mutated
        /\ \E stage : pc' = [pc EXCEPT ![p] = stage]
    BY <1>4 DEF Webhook, ScanStarts, AdvanceStarts, ApproveStarts, Take, Arrives, hostVars
  <2>2. p # q
    BY <2>1
  <2> QED
    BY <1>2, <2>1, <2>2
<1>5. ASSUME NEW c \in Written, EditProxy(c) PROVE pc'[q] = pc[q] /\ mutated'[q] = mutated[q]
  BY <1>5 DEF EditProxy
<1>6. CASE UNCHANGED vars
  BY <1>6 DEF vars, hostVars
<1> QED
  BY <1>3, <1>4, <1>5, <1>6 DEF Next

\* After an action its handler verifies, rolls back or escalates, and is done.
LEMMA ActedSteps ==
  ASSUME Serial, SerialInv, [Next]_vars, NEW q \in Request,
         mutated[q] # {}, pc[q] \in {"verifying", "rolling_back"}
  PROVE  /\ mutated'[q] # {}
         /\ \/ pc'[q] = pc[q] /\ ~Proceed(q)
            \/ pc'[q] = "done"
            \/ pc[q] = "verifying" /\ pc'[q] = "rolling_back"
<1>1. /\ pc \in [Request -> Open \cup {"new", "done", "invalid"}] /\ IInv
      /\ pc'[q] # "invalid"
  BY NextInv DEF SerialInv, IInv, Types
<1>2. CASE ~Proceed(q)
  BY <1>1, <1>2, OthersRest
<1>3. CASE Proceed(q)
  <2>1. VerifyPasses(q) \/ VerifyFails(q) \/ RollsBack(q) \/ RollbackFails(q)
    <3>1. pc[q] \notin {"observing", "probing", "exercising", "applying"} /\ ~Throws
      BY DEF Serial
    <3>2. ~ScanObserves(q)
      BY <3>1 DEF ScanObserves
    <3>3. ASSUME ScanSaves(q) PROVE FALSE
      <4>1. pc[q] = "probing"
        BY <3>3 DEF ScanSaves
      <4> QED
        BY <3>1, <4>1
    <3>4. ~AdvanceEnds(q)
      BY <3>1 DEF AdvanceEnds
    <3>5. ~ApplyFails(q) /\ ~Applies(q)
      BY <3>1 DEF ApplyFails, Applies
    <3>6. ~HostCallThrows(q)
      BY <3>1 DEF HostCallThrows
    <3> QED
      BY <1>3, <3>2, <3>3, <3>4, <3>5, <3>6 DEF Proceed
  <2>2. mutated' = mutated
    BY <2>1 DEF VerifyPasses, VerifyFails, RollsBack, RollbackFails, hostVars
  <2>3. pc'[q] = "done" \/ (pc[q] = "verifying" /\ pc'[q] = "rolling_back")
    BY <1>1, <2>1 DEF VerifyPasses, VerifyFails, RollsBack, RollbackFails, SaveMoved, GoOnMoved,
                      Save, GoOn
  <2> QED
    BY <2>2, <2>3
<1> QED
  BY <1>2, <1>3

\* What the engine then says of the run is a decision.
LEMMA DoneIsDecided ==
  ASSUME SerialInv, NEW q \in Request, mutated[q] # {}
  PROVE  Acted(q, "verifying") \/ Acted(q, "rolling_back") \/ Decided(q)
<1>1. Marked(q) /\ IInv
  BY DEF SerialInv, SerialPart
<1>2. CASE pc[q] = "done" /\ "mutationApplied" \in engine.runs[about[q]].effects
  <2>1. PICK r \in Run : r = about[q]
    BY <1>1 DEF Marked
  <2>2. Saved(engine, r) /\ "mutationApplied" \in engine.runs[r].effects
    BY <1>1, <1>2, <2>1 DEF IInv
  <2>3. engine.runs[r].state \in {"remembered", "guided"}
    BY <2>2 DEF Saved, Coherent
  <2> QED
    BY <2>1, <2>3, LoopAssumption DEF Decided
<1> QED
  BY <1>1, <1>2 DEF Marked, Acted

\* Requests that come one at a time, to a host whose calls do not throw, decide
\* what they did: every action is verified and remembered, or rolled back or
\* escalated to a guide, and the engine that is saved says so.
THEOREM ActionsGetDecided == ASSUME Serial PROVE Spec /\ Scheduling => ActionsAreDecided
<1> SUFFICES ASSUME NEW q \in Request
             PROVE  Spec /\ Scheduling => (mutated[q] # {} ~> Decided(q))
  BY DEF ActionsAreDecided, Decided
<1>1. SerialInv /\ Acted(q, "verifying") /\ [Next]_vars =>
        Acted(q, "verifying")' \/ Acted(q, "rolling_back")' \/ Acted(q, "done")'
  BY ActedSteps DEF Acted
<1>2. SerialInv /\ Acted(q, "verifying") /\ <<Proceed(q)>>_vars =>
        Acted(q, "rolling_back")' \/ Acted(q, "done")'
  BY ActedSteps DEF Acted, Next
<1>3. SerialInv /\ Acted(q, "rolling_back") /\ [Next]_vars =>
        Acted(q, "rolling_back")' \/ Acted(q, "done")'
  BY ActedSteps DEF Acted
<1>4. SerialInv /\ Acted(q, "rolling_back") /\ <<Proceed(q)>>_vars => Acted(q, "done")'
  BY ActedSteps DEF Acted, Next
<1>5. Acted(q, "verifying") \/ Acted(q, "rolling_back") => ~(pc[q] \notin Open)
  BY DEF Acted, Open
<1>6. SerialInv /\ mutated[q] # {} =>
        Acted(q, "verifying") \/ Acted(q, "rolling_back") \/ Decided(q)
  BY DoneIsDecided
<1>7. SerialInv /\ Acted(q, "done") => Decided(q)
  BY DoneIsDecided DEF Acted
<1>8. AllGoOn => HandlerGoesOn(q)
  BY DEF AllGoOn
<1>9. Spec => [][Next]_vars /\ []SerialInv
  BY SerialInvariance, PTL DEF Spec
<1> QED
  BY <1>1, <1>2, <1>3, <1>4, <1>5, <1>6, <1>7, <1>8, <1>9, PTL
     DEF Scheduling, HandlerGoesOn
=============================================================================
