----------------------------- MODULE LoopEngine -----------------------------
(***************************************************************************)
(* The Loop engine: changes are recorded, a run exercises customer         *)
(* journeys, investigates a failure, and, once approved, repairs the host, *)
(* verifies and rolls back.  The engine is one immutable value held by the *)
(* process.  A request reads it, works on its own copy across awaits, and  *)
(* replaces the whole engine by that copy at the end.                      *)
(***************************************************************************)
EXTENDS Naturals, FiniteSets, Sequences

CONSTANTS
  Request,      (* HTTP requests, numbered as they arrive; a request that   *)
                (* records an event names it                               *)
  Run,          (* run ids; a request may name a new or an existing one    *)
  Block,        (* the pieces a proxy configuration is made of             *)
  Found,        (* the proxies a host may have at the start                *)
  Written,      (* what somebody else may write into a file of the proxy   *)
  None,         (* no run, no plan                                         *)
  RestartPlan,  (* the plan to restart one container                       *)
  MaxOpen,      (* bound on requests in progress; 1: everybody waits       *)
  MaxEdits,     (* bound on edits of the proxy by somebody else            *)
  Throws        (* TRUE: a call to the host may throw, by a lost connection *)

\* The text of a configuration; without blocks it is empty, which the engine
\* takes for none.
Content == Seq(Block)

\* The Caddyfile, the files of Caddy's sites directory one after the other, and
\* those of nginx.
Proxy == [main : Content, sites : Content, nginx : Content]

ASSUME LoopAssumption ==
  /\ Request \subseteq Nat /\ IsFiniteSet(Request)
  /\ Found \subseteq Proxy /\ Written \subseteq Content
  /\ None \notin Run \cup {RestartPlan}
  /\ RestartPlan \notin Run
  /\ MaxOpen \in Nat \ {0}
  /\ MaxEdits \in Nat
  /\ Throws \in BOOLEAN

VARIABLES
  engine,   (* globalThis.__gcLoopEngine                                   *)
  pc,       (* how far each request is                                     *)
  about,    (* its run                                                     *)
  mode,     (* the autonomy mode of an approval in progress               *)
  held,     (* its copy of the engine                                      *)
  seen,     (* the content its observation saw                             *)
  proxy,    (* the proxy configuration of the host, file by file           *)
  edits,    (* edits so far                                                *)
  mutated,  (* history: the proxy just before a request's action; {} if    *)
            (* none reached the host                                       *)
  drift     (* history: somebody edited the proxy and no scan saw one since *)

hostVars == <<proxy, edits, mutated, drift>>
vars == <<engine, pc, about, mode, held, seen, hostVars>>

-----------------------------------------------------------------------------
(* Runs and their state machine.                                           *)

\* Mutant of Transitions: a repair that failed while applying cannot be escalated.
TransitionsNoEscalation ==
  [none              |-> {"observed"},
   observed          |-> {"correlating", "cancelled"},
   correlating       |-> {"stabilized", "cancelled"},
   stabilized        |-> {"exercising", "cancelled"},
   exercising        |-> {"verified_healthy", "investigating", "cancelled"},
   verified_healthy  |-> {"remembered", "cancelled"},
   investigating     |-> {"guided", "planning", "failed", "cancelled"},
   guided            |-> {"cancelled", "planning"},
   planning          |-> {"awaiting_approval", "guided", "cancelled"},
   awaiting_approval |-> {"applying", "guided", "cancelled"},
   applying          |-> {"verifying", "failed", "guided", "cancelled"},
   verifying         |-> {"recovered", "rolling_back", "failed", "cancelled"},
   rolling_back      |-> {"investigating", "guided", "failed", "cancelled"},
   recovered         |-> {"remembered", "cancelled"},
   remembered        |-> {},
   failed            |-> {"cancelled"},
   cancelled         |-> {}]

Transitions ==
  [none              |-> {"observed"},
   observed          |-> {"correlating", "cancelled"},
   correlating       |-> {"stabilized", "cancelled"},
   stabilized        |-> {"exercising", "cancelled"},
   exercising        |-> {"verified_healthy", "investigating", "cancelled"},
   verified_healthy  |-> {"remembered", "cancelled"},
   investigating     |-> {"guided", "planning", "failed", "cancelled"},
   guided            |-> {"cancelled", "planning"},
   planning          |-> {"awaiting_approval", "guided", "cancelled"},
   awaiting_approval |-> {"applying", "guided", "cancelled"},
   applying          |-> {"verifying", "failed", "guided", "cancelled"},
   verifying         |-> {"recovered", "rolling_back", "failed", "cancelled"},
   rolling_back      |-> {"investigating", "guided", "failed", "cancelled"},
   recovered         |-> {"remembered", "cancelled"},
   remembered        |-> {},
   failed            |-> {"guided", "cancelled"},
   cancelled         |-> {}]

RunState == DOMAIN Transitions
Effect == {"journeysRun", "investigationDone", "mutationApplied", "verificationDone",
           "rollbackDone", "memoryRecorded"}

\* A plan restarts a container, or restores the revision a run saved.
Plan == Run \cup {None, RestartPlan}
RunRecord == [state : RunState, effects : SUBSET Effect, plan : Plan]
Engine == [runs : [Run -> RunRecord], scanned : BOOLEAN, last : Content, mirror : Content,
           revisions : [Run -> Content], events : SUBSET Request]

\* createEngineState.  "none" is a run the engine does not have; "last" is the
\* proxy of the last observation, "mirror" the last content there was.
EmptyEngine ==
  [runs      |-> [r \in Run |-> [state |-> "none", effects |-> {}, plan |-> None]],
   scanned   |-> FALSE,
   last      |-> <<>>,
   mirror    |-> <<>>,
   revisions |-> [r \in Run |-> <<>>],
   events    |-> {}]

Mode == {"approve", "autopilot", "locked"}
Open == {"observing", "probing", "exercising", "applying", "verifying", "rolling_back"}

Types ==
  /\ engine \in Engine
  /\ pc \in [Request -> Open \cup {"new", "done", "invalid"}]
  /\ about \in [Request -> Run \cup {None}]
  /\ mode \in [Request -> Mode \cup {None}]
  /\ held \in [Request -> Engine]
  /\ seen \in [Request -> Content]
  /\ proxy \in Proxy
  /\ edits \in 0..MaxEdits
  /\ mutated \in [Request -> SUBSET Proxy]
  /\ drift \in BOOLEAN

\* Above all, a rollback has a content to restore.
TypeOK ==
  /\ Types
  /\ \A q \in Request : pc[q] = "rolling_back" => held[q].revisions[about[q]] # <<>>

Init ==
  /\ engine = EmptyEngine
  /\ pc = [q \in Request |-> "new"]
  /\ about = [q \in Request |-> None]
  /\ mode = [q \in Request |-> None]
  /\ held = [q \in Request |-> EmptyEngine]
  /\ seen = [q \in Request |-> <<>>]
  /\ proxy \in Found
  /\ edits = 0
  /\ mutated = [q \in Request |-> {}]
  /\ drift = FALSE

\* transitionRun, along the moves a handler makes between two awaits.
Legal(from, path) ==
  \A i \in DOMAIN path :
    path[i] \in Transitions[IF i = 1 THEN from ELSE path[i - 1]]

\* The copy of a request after such moves, with side effects marked.
Moved(copy, r, state, effects) ==
  [copy EXCEPT !.runs[r].state = state, !.runs[r].effects = @ \cup effects]

-----------------------------------------------------------------------------
(* How a request begins and ends.                                          *)

\* q is the next request to arrive.
Arrives(q) == pc[q] = "new" /\ \A x \in Request : x < q => pc[x] # "new"

\* A request comes in and takes the engine as it is, to work on.
Take(q, stage, copy) ==
  /\ Arrives(q)
  /\ Cardinality({x \in Request : pc[x] \in Open}) < MaxOpen
  /\ pc' = [pc EXCEPT ![q] = stage]
  /\ held' = [held EXCEPT ![q] = copy]

\* It goes on with its copy after an await.
GoOn(q, stage, copy) ==
  /\ pc' = [pc EXCEPT ![q] = stage]
  /\ held' = [held EXCEPT ![q] = copy]
  /\ mode' = IF stage \in Open THEN mode ELSE [mode EXCEPT ![q] = None]
  /\ UNCHANGED engine

\* setLoopEngine, and the answer.
Save(q, copy) ==
  /\ engine' = copy
  /\ pc' = [pc EXCEPT ![q] = "done"]
  /\ held' = [held EXCEPT ![q] = EmptyEngine]
  /\ mode' = [mode EXCEPT ![q] = None]

\* The end of a handler that moved its run along path.  A move the state
\* machine does not have throws, and nothing is saved.
SaveMoved(q, copy, path, effects) ==
  IF Legal(copy.runs[about[q]].state, path)
  THEN Save(q, Moved(copy, about[q], path[Len(path)], effects))
  ELSE GoOn(q, "invalid", EmptyEngine)

\* The same for a move between two awaits, after which the handler goes on.
GoOnMoved(q, copy, stage, effects) ==
  IF Legal(copy.runs[about[q]].state, <<stage>>)
  THEN GoOn(q, stage, Moved(copy, about[q], stage, effects))
  ELSE GoOn(q, "invalid", EmptyEngine)

\* The handler throws.
Die(q) == GoOn(q, "done", EmptyEngine)

-----------------------------------------------------------------------------
(* Recording changes.                                                      *)

\* A webhook: one step, since nothing is awaited between reading and saving.
Webhook(q) ==
  /\ Arrives(q)
  /\ engine' = [engine EXCEPT !.events = @ \cup {q}]
  /\ pc' = [pc EXCEPT ![q] = "done"]
  /\ UNCHANGED <<about, mode, held, seen, hostVars>>

ScanStarts(q) ==
  /\ Take(q, "observing", engine)
  /\ UNCHANGED <<engine, about, mode, seen, hostVars>>

\* buildLiveHostObservation takes all files of Caddy for one content, and those
\* of nginx if Caddy has none.
Observed(p) ==
  IF p.main \o p.sites # <<>> THEN p.main \o p.sites ELSE p.nginx

\* The observation is complete; the public probes follow.
ScanObserves(q) ==
  /\ pc[q] = "observing"
  /\ seen' = [seen EXCEPT ![q] = Observed(proxy)]
  /\ drift' = (drift /\ Observed(proxy) = <<>>)
  /\ GoOn(q, "probing", held[q])
  /\ UNCHANGED <<about, proxy, edits, mutated>>

\* ingestObservation: where no proxy was seen, the old mirror stays.
Ingested(copy, content) ==
  [copy EXCEPT !.scanned = TRUE, !.last = content,
               !.mirror = IF content = <<>> THEN @ ELSE content]

\* The first scan records an event, one that finds the proxy new or changed
\* too, and any may for a container or a failed probe.
ScanSaves(q) ==
  /\ pc[q] = "probing"
  /\ \E found \in BOOLEAN :
       /\ ~held[q].scanned \/ (seen[q] # <<>> /\ held[q].last # seen[q]) => found
       /\ Save(q, [Ingested(held[q], seen[q]) EXCEPT
                     !.events = IF found THEN @ \cup {q} ELSE @])
  /\ seen' = [seen EXCEPT ![q] = <<>>]
  /\ UNCHANGED <<about, hostVars>>

-----------------------------------------------------------------------------
(* advanceToInvestigation.                                                 *)

\* Mutant of AdvanceStarts: a run id that exists starts again.
AdvanceStartsAgain(q, r) ==
  /\ engine.events # {}
  /\ Take(q, "exercising",
          [engine EXCEPT !.runs[r] = [state |-> "exercising", effects |-> {}, plan |-> None]])
  /\ about' = [about EXCEPT ![q] = r]
  /\ UNCHANGED <<engine, mode, seen, hostVars>>

\* A run exists for a change the engine knows.  Every saved run is past its
\* investigation, so a request that names one changes nothing.
AdvanceStarts(q, r) ==
  /\ engine.events # {}
  /\ engine.runs[r].state = "none"
  /\ Legal("none", <<"observed", "correlating", "stabilized", "exercising">>)
  /\ Take(q, "exercising", Moved(engine, r, "exercising", {}))
  /\ about' = [about EXCEPT ![q] = r]
  /\ UNCHANGED <<engine, mode, seen, hostVars>>

\* Restoring needs a revision the engine has: the ones saved before mutations.
Plans(copy) ==
  {RestartPlan} \cup {r \in Run : copy.revisions[r] # <<>>}

\* The journeys have run, and after a failure the investigation has ended.
AdvanceEnds(q) ==
  /\ pc[q] = "exercising"
  /\ \/ SaveMoved(q, held[q], <<"verified_healthy", "remembered">>,
                  {"journeysRun", "memoryRecorded"})
     \/ SaveMoved(q, held[q], <<"investigating", "guided">>,
                  {"journeysRun", "investigationDone"})
     \/ \E plan \in Plans(held[q]) :
          SaveMoved(q, [held[q] EXCEPT !.runs[about[q]].plan = plan],
                    <<"investigating", "planning", "awaiting_approval">>,
                    {"journeysRun", "investigationDone"})
  /\ UNCHANGED <<about, seen, hostVars>>

-----------------------------------------------------------------------------
(* approveAndRecover.                                                      *)

\* evaluatePolicy and canAutopilotApply for the plans there are: autopilot may
\* execute low risk only, which restoring is and restarting is not.  The other
\* modes decide about autopilot, never about an operator's approval.
Authorized(m, plan) == m = "autopilot" => plan \in Run

\* The revision to fall back to is what the engine believes the proxy to be: all
\* of its files in one content, unless it was restored since the last scan.
ApproveStarts(q, r, m) ==
  /\ engine.runs[r].state = "awaiting_approval"
  /\ "mutationApplied" \notin engine.runs[r].effects
  /\ Authorized(m, engine.runs[r].plan)
  /\ Legal("awaiting_approval", <<"applying">>)
  /\ Take(q, "applying",
          Moved([engine EXCEPT !.revisions[r] = IF engine.mirror = <<>> THEN @ ELSE engine.mirror],
                r, "applying", {}))
  /\ about' = [about EXCEPT ![q] = r]
  /\ mode' = [mode EXCEPT ![q] = m]
  /\ UNCHANGED <<engine, seen, hostVars>>

\* The revision that the plan of a request restores; "" if there is none.
Revision(q) ==
  LET plan == held[q].runs[about[q]].plan IN
  IF plan \in Run THEN held[q].revisions[plan] ELSE <<>>

Restoring(q) == held[q].runs[about[q]].plan \in Run

\* Restoring needs the revision; restarting a container does not.
CanExecute(q) == Restoring(q) => Revision(q) # <<>>

\* applyCaddyRevisionLive: the whole content goes into the Caddyfile, and the
\* other files stay.  A reload that fails counts as done.
Installed(content) == [proxy EXCEPT !.main = content]

\* The proxy once the plan is executed.
Executed(q) == IF Restoring(q) THEN Installed(Revision(q)) ELSE proxy

\* The action reached the host, and the proxy is p now.
Acts(q, p) ==
  /\ proxy' = p
  /\ mutated' = [mutated EXCEPT ![q] = {proxy}]
  /\ UNCHANGED <<edits, drift>>

\* applyProxyRevisionToState: what was restored is taken for what a scan sees.
Mirroring(copy, content) ==
  [copy EXCEPT !.mirror = content, !.last = IF copy.scanned THEN content ELSE @]

\* The copy after an action that restored the proxy.
Mirrored(q) == IF Restoring(q) THEN Mirroring(held[q], Revision(q)) ELSE held[q]

\* Mutant of ApplyFails: the failed action is not recorded.
ApplyFailsUnsaved(q) ==
  /\ pc[q] = "applying"
  /\ CanExecute(q)
  /\ Acts(q, proxy)
  /\ Die(q)
  /\ UNCHANGED <<about, seen>>

\* The host refuses the action, or the engine does not have the revision.
ApplyFails(q) ==
  /\ pc[q] = "applying"
  /\ IF CanExecute(q) THEN Acts(q, proxy) ELSE UNCHANGED hostVars
  /\ SaveMoved(q, held[q], <<"failed", "guided">>, {"mutationApplied"})
  /\ UNCHANGED <<about, seen>>

\* Mutant of Applies: the exit code of the installation is not looked at.
AppliesBlindly(q) ==
  /\ pc[q] = "applying"
  /\ CanExecute(q)
  /\ \E p \in {proxy, Executed(q)} : Acts(q, p)
  /\ GoOnMoved(q, Mirrored(q), "verifying", {"mutationApplied"})
  /\ UNCHANGED <<about, seen>>

\* Mutant of Applies: the side effect is not marked.
AppliesUnmarked(q) ==
  /\ pc[q] = "applying"
  /\ CanExecute(q)
  /\ Acts(q, Executed(q))
  /\ GoOnMoved(q, Mirrored(q), "verifying", {})
  /\ UNCHANGED <<about, seen>>

Applies(q) ==
  /\ pc[q] = "applying"
  /\ CanExecute(q)
  /\ Acts(q, Executed(q))
  /\ GoOnMoved(q, Mirrored(q), "verifying", {"mutationApplied"})
  /\ UNCHANGED <<about, seen>>

\* Mutant of VerifyFails: rolls back whether or not there is a revision.
VerifyFailsRegardless(q) ==
  /\ pc[q] = "verifying"
  /\ GoOnMoved(q, held[q], "rolling_back", {"verificationDone"})
  /\ UNCHANGED <<about, seen, hostVars>>

\* Every verification journey passed.
VerifyPasses(q) ==
  /\ pc[q] = "verifying"
  /\ SaveMoved(q, held[q], <<"recovered", "remembered">>, {"verificationDone", "memoryRecorded"})
  /\ UNCHANGED <<about, seen, hostVars>>

\* One failed, or there was none: roll back if there is something to go back to.
VerifyFails(q) ==
  /\ pc[q] = "verifying"
  /\ IF held[q].revisions[about[q]] = <<>>
     THEN SaveMoved(q, held[q], <<"rolling_back", "guided">>, {"verificationDone"})
     ELSE GoOnMoved(q, held[q], "rolling_back", {"verificationDone"})
  /\ UNCHANGED <<about, seen, hostVars>>

\* Mutant of RollsBack: restores the revision of the plan again.
RollsBackToPlan(q) ==
  /\ pc[q] = "rolling_back"
  /\ proxy' = Executed(q)
  /\ SaveMoved(q, Mirrored(q), <<"guided">>, {"rollbackDone"})
  /\ UNCHANGED <<about, seen, edits, mutated, drift>>

RollsBack(q) ==
  /\ pc[q] = "rolling_back"
  /\ LET before == held[q].revisions[about[q]] IN
       /\ proxy' = Installed(before)
       /\ SaveMoved(q, Mirroring(held[q], before), <<"guided">>, {"rollbackDone"})
  /\ UNCHANGED <<about, seen, edits, mutated, drift>>

RollbackFails(q) ==
  /\ pc[q] = "rolling_back"
  /\ SaveMoved(q, held[q], <<"failed", "guided">>, {})
  /\ UNCHANGED <<about, seen, hostVars>>

-----------------------------------------------------------------------------
\* The connection breaks while a command runs: the handler throws, whether the
\* command had its effect or not, and nothing is saved.
HostCallThrows(q) ==
  /\ Throws
  /\ \/ pc[q] = "observing" /\ UNCHANGED hostVars
     \/ /\ pc[q] = "applying" /\ CanExecute(q)
        /\ \E p \in {proxy, Executed(q)} : Acts(q, p)
     \/ /\ pc[q] = "rolling_back"
        /\ proxy' \in {proxy, Installed(held[q].revisions[about[q]])}
        /\ UNCHANGED <<edits, mutated, drift>>
  /\ Die(q)
  /\ UNCHANGED <<about, seen>>

\* An operator, or another part of GroundControl, writes c into a file.
EditProxy(c) ==
  /\ edits < MaxEdits
  /\ \E file \in {"main", "sites", "nginx"} :
       /\ proxy[file] # c
       /\ proxy' = [proxy EXCEPT ![file] = c]
  /\ edits' = edits + 1
  /\ drift' = TRUE
  /\ UNCHANGED <<engine, pc, about, mode, held, seen, mutated>>

\* Steps of handlers that need no further request.
Proceed(q) ==
  \/ ScanObserves(q)
  \/ ScanSaves(q)
  \/ AdvanceEnds(q)
  \/ ApplyFails(q)
  \/ Applies(q)
  \/ VerifyPasses(q)
  \/ VerifyFails(q)
  \/ RollsBack(q)
  \/ RollbackFails(q)
  \/ HostCallThrows(q)

Next ==
  \/ \E q \in Request :
       \/ Webhook(q)
       \/ ScanStarts(q)
       \/ \E r \in Run : AdvanceStarts(q, r)
       \/ \E r \in Run, m \in Mode : ApproveStarts(q, r, m)
       \/ Proceed(q)
  \/ \E c \in Written : EditProxy(c)

Spec == Init /\ [][Next]_vars

\* Probes and host commands have timeouts, so a handler goes on.
FairSpec == Spec /\ \A q \in Request : WF_vars(Proceed(q))

-----------------------------------------------------------------------------
(* Properties.                                                             *)

\* An approved plan is executed at most once per run ("will not re-apply"),
\* however often the approval is sent.
MutatedOnce ==
  \A p, q \in Request :
    p # q /\ mutated[p] # {} /\ mutated[q] # {} => about[p] # about[q]

\* A saved run never goes back: what is decided stays decided, what was done
\* stays done, and no run is forgotten.
RunsMoveForward ==
  [][\A r \in Run :
       engine.runs[r].state # "none" =>
         /\ engine'.runs[r].state # "none"
         /\ engine.runs[r].effects \subseteq engine'.runs[r].effects
         /\ engine.runs[r].state \in {"remembered", "guided"} =>
              engine'.runs[r].state = engine.runs[r].state]_vars

RolledBackBy(q) ==
  /\ pc[q] = "rolling_back" /\ pc'[q] = "done"
  /\ "rollbackDone" \in engine'.runs[about[q]].effects

\* What the engine can know of a proxy p: all that a scan sees of it, or what
\* was last restored, which is the Caddyfile alone.
Known(p) == {p.main, Observed(p)}

\* A completed rollback writes into the Caddyfile what the engine knew of the
\* proxy just before the mutation, unless somebody edited it and no scan saw
\* one since.  Where the Caddyfile is the only file, it is as it was.
RollbackWritesTheKnown ==
  [][\A q \in Request :
       RolledBackBy(q) /\ ~drift => \E p \in mutated[q] : proxy'.main \in Known(p)]_vars

\* The plan of a rollback expects "Proxy restored to pre-mutation content".
RollbackRestoresTheProxy ==
  [][\A q \in Request : RolledBackBy(q) /\ ~drift => proxy' \in mutated[q]]_vars

\* A run remembered as recovered is one whose revision is still in the
\* Caddyfile, though nobody knows whether Caddy has loaded it.
RepairIsInstalled ==
  [][\A q \in Request :
       /\ pc[q] = "verifying" /\ pc'[q] = "done" /\ ~drift /\ Restoring(q)
       /\ engine'.runs[about[q]].state = "remembered"
       => proxy.main = Revision(q)]_vars

\* What a copy of the engine says of a run: decided runs were verified, only
\* applied ones rolled back, and a plan that restores a revision names one the
\* engine has.
Coherent(copy, r) ==
  LET run == copy.runs[r]
      Done(effect) == effect \in run.effects
  IN  /\ run.state \in {"none", "remembered", "guided", "awaiting_approval"}
      /\ run.state = "awaiting_approval" =>
           run.plan # None /\ run.effects = {"journeysRun", "investigationDone"}
      /\ run.plan \in Run => copy.revisions[run.plan] # <<>>
      /\ Done("verificationDone") => Done("mutationApplied")
      /\ Done("rollbackDone") => Done("verificationDone") /\ run.state = "guided"
      /\ Done("mutationApplied") /\ run.state = "remembered" => Done("verificationDone")

\* Whatever copies of the engine overlapped, what the saved runs say of
\* themselves fits together.
RunsAreCoherent == \A r \in Run : Coherent(engine, r)

\* No handler ever asks the state machine for a move it does not have.
NoInvalidTransition == \A q \in Request : pc[q] # "invalid"

\* Every action that reached the host is followed by a decision on its run:
\* verified and remembered, or rolled back or escalated to a guide.
ActionsAreDecided ==
  \A q \in Request :
    mutated[q] # {} ~>
      about[q] # None /\ engine.runs[about[q]].state \in {"remembered", "guided"}

=============================================================================
