----------------------- MODULE GithubDeliveriesProofs -----------------------
(***************************************************************************)
(* A processed push has queued what it had to, and queues it once while    *)
(* grants stand, for any number of deliveries, deployments, grants and     *)
(* overlapping webhook requests.                                           *)
(***************************************************************************)
EXTENDS GithubDeliveries, TLAPS

\* A request that has read the links still has on its list, or has queued,
\* whatever was on autopilot throughout.
QueuedOrOnTheList ==
  \A h \in Hook, dep \in policy \ altered :
    hook[h].at \in {"granting", "queueing"} =>
      \/ dep \in hook[h].todo
      \/ \E o \in operation : o.delivery = hook[h].delivery /\ o.dep = dep

\* No two grants were updated at one time.
Dated ==
  /\ \A g \in HookGrant : updated[g] <= consents
  /\ \A f, g \in HookGrant : updated[f] # 0 /\ updated[f] = updated[g] => f = g

\* The last updated of the grants there are that may redeploy it.
Entitled(g, dep) ==
  /\ updated[g] > 0 /\ dep \in may[g]
  /\ \A f \in HookGrant : updated[f] > 0 /\ dep \in may[f] => updated[f] <= updated[g]

\* Until a grant changes under a push, what requests have read of the grants is
\* what the grants are, and every operation was queued under the entitled one.
GrantsStand ==
  ~regranted =>
    /\ \A h \in Hook : hook[h].at = "queueing" =>
         hook[h].grants = updated /\ hook[h].may = may
    /\ \A o \in operation : Entitled(o.grant, o.dep)

DeliveriesInv ==
  /\ DeliveriesTypeOK
  /\ QueuedOrOnTheList
  /\ ProcessedIsQueued
  /\ Dated
  /\ GrantsStand

-----------------------------------------------------------------------------

\* The entitled grant is one.
LEMMA EntitledIsOne ==
  ASSUME DeliveriesTypeOK, Dated, NEW f \in HookGrant, NEW g \in HookGrant, NEW dep,
         Entitled(f, dep), Entitled(g, dep)
  PROVE  f = g
<1>1. updated[f] \in Nat /\ updated[g] \in Nat
  BY DeliveriesAssumption DEF DeliveriesTypeOK, Updated
<1>2. updated[f] <= updated[g] /\ updated[g] <= updated[f] /\ updated[f] > 0
  BY DEF Entitled
<1> QED BY <1>1, <1>2 DEF Dated

\* What the invariant says of the operations once no grant changed.
LEMMA StandingMeansOnce ==
  DeliveriesInv => OneOperationWhileGrantsStand
<1> SUFFICES ASSUME DeliveriesInv, ~regranted,
                    NEW o \in operation, NEW p \in operation,
                    o.delivery = p.delivery, o.dep = p.dep
             PROVE  o = p
  BY DEF OneOperationWhileGrantsStand, OneOperationPerDelivery
<1>1. /\ o \in [grant : HookGrant, delivery : Delivery, dep : Linked]
      /\ p \in [grant : HookGrant, delivery : Delivery, dep : Linked]
  BY DEF DeliveriesInv, DeliveriesTypeOK
<1>2. Entitled(o.grant, o.dep) /\ Entitled(p.grant, o.dep)
  BY DEF DeliveriesInv, GrantsStand
<1>3. o.grant = p.grant
  BY <1>1, <1>2, EntitledIsOne DEF DeliveriesInv
<1> QED BY <1>1, <1>3

\* A request that goes to an await, the others staying where they are.
HookRecord ==
  [at : {"idle", "receiving", "reading", "granting", "queueing", "failing"},
   delivery : Delivery, todo : SUBSET Linked,
   grants : Updated, may : [HookGrant -> SUBSET Linked]]

LEMMA HookMoves ==
  ASSUME DeliveriesTypeOK, NEW h \in Hook, NEW r \in HookRecord, ToHook(h, r)
  PROVE  /\ hook' \in [Hook -> HookRecord]
         /\ hook'[h] = r
         /\ \A i \in Hook : i # h => hook'[i] = hook[i]
BY DEF DeliveriesTypeOK, ToHook, HookRecord

\* The record of no request.
LEMMA NoHookRecord == NoHook \in HookRecord /\ NoHook.at = "idle"
<1>1. (CHOOSE e \in Delivery : TRUE) \in Delivery
  BY DeliveriesAssumption
<1>2. [g \in HookGrant |-> 0] \in Updated
  BY DeliveriesAssumption DEF Updated
<1>3. [g \in HookGrant |-> {}] \in [HookGrant -> SUBSET Linked]
  OBVIOUS
<1> QED BY <1>1, <1>2, <1>3 DEF NoHook, HookRecord

\* A request that ends, gives up or goes back to before the links were read
\* keeps the invariant.
LEMMA LeavingKeeps ==
  ASSUME DeliveriesInv, NEW h \in Hook, NEW r \in HookRecord, ToHook(h, r),
         r.at \in {"idle", "receiving", "reading", "failing"},
         delivery' \in [Delivery -> {"absent", "received", "processed", "failed"}],
         UNCHANGED <<policy, grantVars, operation, altered>>,
         \A d \in Delivery : delivery'[d] = "processed" =>
           \/ delivery[d] = "processed"
           \/ \A dep \in policy \ altered :
                \E o \in operation : o.delivery = d /\ o.dep = dep
  PROVE  DeliveriesInv'
<1>1. DeliveriesTypeOK
  BY DEF DeliveriesInv
<1>2. /\ hook' \in [Hook -> HookRecord]
      /\ hook'[h] = r
      /\ \A i \in Hook : i # h => hook'[i] = hook[i]
  BY <1>1, HookMoves
<1>3. DeliveriesTypeOK'
  BY <1>1, <1>2 DEF DeliveriesTypeOK, HookRecord, grantVars
<1>4. QueuedOrOnTheList'
  BY <1>2 DEF DeliveriesInv, QueuedOrOnTheList
<1>5. ProcessedIsQueued'
  BY DEF DeliveriesInv, ProcessedIsQueued
<1>6. Dated'
  BY DEF DeliveriesInv, Dated, grantVars
<1>7. GrantsStand'
  BY <1>2 DEF DeliveriesInv, GrantsStand, Entitled, grantVars
<1> QED BY <1>3, <1>4, <1>5, <1>6, <1>7 DEF DeliveriesInv

\* The steps of a request before it queues and after.
LEMMA EdgesKeep ==
  ASSUME DeliveriesInv, NEW h \in Hook,
         \/ \E d \in Delivery : Lookup(h, d)
         \/ Receive(h) \/ Processed(h) \/ Failed(h) \/ Break(h)
  PROVE  DeliveriesInv'
<1>1. DeliveriesTypeOK /\ hook[h] \in HookRecord
  BY DEF DeliveriesInv, DeliveriesTypeOK, HookRecord
<1>2. hook[h].delivery \in Delivery
  BY <1>1 DEF HookRecord
<1>3. NoHook \in HookRecord /\ NoHook.at = "idle"
  BY <1>2, NoHookRecord
<1>4. delivery \in [Delivery -> {"absent", "received", "processed", "failed"}]
  BY <1>1 DEF DeliveriesTypeOK
<1>5. ASSUME NEW d \in Delivery, Lookup(h, d) PROVE DeliveriesInv'
  <2> DEFINE r == [NoHook EXCEPT !.at = "receiving", !.delivery = d]
  <2>1. r \in HookRecord /\ r.at = "receiving"
    BY <1>3 DEF HookRecord
  <2>2. ToHook(h, r) /\ UNCHANGED <<delivery, policy, grantVars, operation, altered>>
    BY <1>5 DEF Lookup
  <2> HIDE DEF r
  <2> QED BY <2>1, <2>2, <1>4, LeavingKeeps
<1>6. ASSUME Receive(h) PROVE DeliveriesInv'
  <2> DEFINE r == [hook[h] EXCEPT !.at = "reading"]
  <2>1. r \in HookRecord /\ r.at = "reading"
    BY <1>1 DEF HookRecord
  <2>2. ToHook(h, r) /\ UNCHANGED <<policy, grantVars, operation, altered>>
    BY <1>6 DEF Receive
  <2>3. /\ delivery' \in [Delivery -> {"absent", "received", "processed", "failed"}]
        /\ \A d \in Delivery : delivery'[d] = "processed" => delivery[d] = "processed"
    BY <1>6, <1>4 DEF Receive
  <2> HIDE DEF r
  <2> QED BY <2>1, <2>2, <2>3, LeavingKeeps
<1>7. ASSUME Processed(h) PROVE DeliveriesInv'
  <2>1. ToHook(h, NoHook) /\ UNCHANGED <<policy, grantVars, operation, altered>>
    BY <1>7 DEF Processed
  <2>2. \A dep \in policy \ altered :
          \E o \in operation : o.delivery = hook[h].delivery /\ o.dep = dep
    BY <1>7 DEF DeliveriesInv, QueuedOrOnTheList, Processed
  <2>3. /\ delivery' \in [Delivery -> {"absent", "received", "processed", "failed"}]
        /\ \A d \in Delivery : d # hook[h].delivery => delivery'[d] = delivery[d]
    BY <1>7, <1>4 DEF Processed
  <2> QED BY <2>1, <2>2, <2>3, <1>3, LeavingKeeps
<1>8. ASSUME Failed(h) PROVE DeliveriesInv'
  <2>1. ToHook(h, NoHook) /\ UNCHANGED <<policy, grantVars, operation, altered>>
    BY <1>8 DEF Failed
  <2>2. /\ delivery' \in [Delivery -> {"absent", "received", "processed", "failed"}]
        /\ \A d \in Delivery : delivery'[d] = "processed" => delivery[d] = "processed"
    BY <1>8, <1>4 DEF Failed
  <2> QED BY <2>1, <2>2, <1>3, LeavingKeeps
<1>9. ASSUME Break(h) PROVE DeliveriesInv'
  <2> DEFINE r == [hook[h] EXCEPT !.at = "failing"]
  <2>1. r \in HookRecord /\ r.at = "failing"
    BY <1>1 DEF HookRecord
  <2>2. /\ ToHook(h, NoHook) \/ ToHook(h, r)
        /\ UNCHANGED <<delivery, policy, grantVars, operation, altered>>
    BY <1>9 DEF Break
  <2> HIDE DEF r
  <2>3. CASE ToHook(h, NoHook)
    BY <2>2, <2>3, <1>3, <1>4, LeavingKeeps
  <2>4. CASE ToHook(h, r)
    BY <2>1, <2>2, <2>4, <1>4, LeavingKeeps
  <2> QED BY <2>2, <2>3, <2>4
<1> QED BY <1>5, <1>6, <1>7, <1>8, <1>9

\* Reading the links puts everything on autopilot on the list; reading the
\* grants reads what they are.
LEMMA ReadsKeep ==
  ASSUME DeliveriesInv, NEW h \in Hook, ReadLinks(h) \/ ReadGrants(h)
  PROVE  DeliveriesInv'
<1> DEFINE links == [hook[h] EXCEPT !.at = "granting", !.todo = policy]
           grants == [hook[h] EXCEPT !.at = "queueing", !.grants = updated, !.may = may]
           r == IF ReadLinks(h) THEN links ELSE grants
<1>1. DeliveriesTypeOK /\ hook[h] \in HookRecord
  BY DEF DeliveriesInv, DeliveriesTypeOK, HookRecord
<1>2. policy \in SUBSET Linked /\ updated \in Updated /\ may \in [HookGrant -> SUBSET Linked]
  BY <1>1 DEF DeliveriesTypeOK
<1>3. /\ links \in HookRecord /\ links.at = "granting" /\ links.todo = policy
      /\ grants \in HookRecord /\ grants.at = "queueing" /\ grants.todo = hook[h].todo
      /\ grants.delivery = hook[h].delivery /\ grants.grants = updated /\ grants.may = may
  BY <1>1, <1>2 DEF HookRecord
<1>4. /\ \/ ToHook(h, links)
         \/ ToHook(h, grants) /\ hook[h].at = "granting"
      /\ UNCHANGED <<delivery, policy, grantVars, operation, altered>>
  BY DEF ReadLinks, ReadGrants
<1> HIDE DEF links, grants
<1>5. PICK s \in HookRecord :
        /\ ToHook(h, s)
        /\ \/ s.at = "granting" /\ s.todo = policy
           \/ /\ s.at = "queueing" /\ hook[h].at = "granting"
              /\ s.todo = hook[h].todo /\ s.delivery = hook[h].delivery
              /\ s.grants = updated /\ s.may = may
  BY <1>3, <1>4
<1>6. /\ hook' \in [Hook -> HookRecord]
      /\ hook'[h] = s
      /\ \A i \in Hook : i # h => hook'[i] = hook[i]
  BY <1>1, <1>5, HookMoves
<1>7. DeliveriesTypeOK'
  BY <1>1, <1>4, <1>6 DEF DeliveriesTypeOK, HookRecord, grantVars
<1>8. QueuedOrOnTheList'
  <2> SUFFICES ASSUME NEW i \in Hook, NEW dep \in policy \ altered,
                      hook'[i].at \in {"granting", "queueing"}
               PROVE  \/ dep \in hook'[i].todo
                      \/ \E o \in operation : o.delivery = hook'[i].delivery /\ o.dep = dep
    BY <1>4 DEF QueuedOrOnTheList
  <2>1. CASE i # h
    BY <2>1, <1>6 DEF DeliveriesInv, QueuedOrOnTheList
  <2>2. CASE i = h
    BY <2>2, <1>5, <1>6 DEF DeliveriesInv, QueuedOrOnTheList
  <2> QED BY <2>1, <2>2
<1>9. ProcessedIsQueued' /\ Dated'
  BY <1>4 DEF DeliveriesInv, ProcessedIsQueued, Dated, grantVars
<1>10. GrantsStand'
  BY <1>4, <1>5, <1>6 DEF DeliveriesInv, GrantsStand, Entitled, grantVars
<1> QED BY <1>7, <1>8, <1>9, <1>10 DEF DeliveriesInv

\* An operation is queued under the grant that is entitled while grants stand.
LEMMA QueueKeeps ==
  ASSUME DeliveriesInv, NEW h \in Hook, Queue(h)
  PROVE  DeliveriesInv'
<1>1. DeliveriesTypeOK /\ hook[h] \in HookRecord /\ hook[h].at = "queueing"
  BY DEF DeliveriesInv, DeliveriesTypeOK, HookRecord, Queue
<1>2. PICK dep \in Earliest(hook[h].todo) :
        \/ /\ ToHook(h, [hook[h] EXCEPT !.at = "failing"])
           /\ UNCHANGED operation
        \/ \E g \in Granting(h, dep) :
              /\ operation' = operation \cup
                   {[grant |-> g, delivery |-> hook[h].delivery, dep |-> dep]}
              /\ ToHook(h, [hook[h] EXCEPT !.todo = @ \ {dep}])
  BY DEF Queue
<1>3. UNCHANGED <<delivery, policy, grantVars, altered>>
  BY DEF Queue
<1>4. dep \in Linked /\ hook[h].delivery \in Delivery
  BY <1>1 DEF Earliest, HookRecord
<1>5. delivery \in [Delivery -> {"absent", "received", "processed", "failed"}]
  BY <1>1 DEF DeliveriesTypeOK
<1>6. CASE ToHook(h, [hook[h] EXCEPT !.at = "failing"]) /\ UNCHANGED operation
  <2> DEFINE r == [hook[h] EXCEPT !.at = "failing"]
  <2>1. r \in HookRecord /\ r.at = "failing" /\ ToHook(h, r)
    BY <1>1, <1>6 DEF HookRecord
  <2> HIDE DEF r
  <2> QED BY <2>1, <1>3, <1>5, <1>6, LeavingKeeps
<1>7. ASSUME NEW g \in Granting(h, dep),
             operation' = operation \cup
               {[grant |-> g, delivery |-> hook[h].delivery, dep |-> dep]},
             ToHook(h, [hook[h] EXCEPT !.todo = @ \ {dep}])
      PROVE  DeliveriesInv'
  <2> DEFINE r == [hook[h] EXCEPT !.todo = @ \ {dep}]
             new == [grant |-> g, delivery |-> hook[h].delivery, dep |-> dep]
  <2>1. /\ r \in HookRecord /\ r.at = "queueing" /\ r.todo = hook[h].todo \ {dep}
        /\ r.delivery = hook[h].delivery /\ r.grants = hook[h].grants /\ r.may = hook[h].may
    BY <1>1 DEF HookRecord
  <2>2. /\ g \in HookGrant /\ MayDeploy(h, g, dep)
        /\ \A f \in HookGrant : MayDeploy(h, f, dep) => hook[h].grants[f] <= hook[h].grants[g]
    BY <1>7 DEF Granting
  <2>3. /\ new \in [grant : HookGrant, delivery : Delivery, dep : Linked]
        /\ new.grant = g /\ new.delivery = hook[h].delivery /\ new.dep = dep
    BY <1>4, <2>2
  <2>4. ToHook(h, r) /\ operation' = operation \cup {new}
    BY <1>7
  <2> HIDE DEF r, new
  <2>5. /\ hook' \in [Hook -> HookRecord]
        /\ hook'[h] = r
        /\ \A i \in Hook : i # h => hook'[i] = hook[i]
    BY <1>1, <2>1, <2>4, HookMoves
  <2>6. DeliveriesTypeOK'
    BY <1>1, <1>3, <2>3, <2>4, <2>5 DEF DeliveriesTypeOK, HookRecord, grantVars
  <2>7. QueuedOrOnTheList'
    <3> SUFFICES ASSUME NEW i \in Hook, NEW e \in policy \ altered,
                        hook'[i].at \in {"granting", "queueing"}
                 PROVE  \/ e \in hook'[i].todo
                        \/ \E o \in operation' : o.delivery = hook'[i].delivery /\ o.dep = e
      BY <1>3 DEF QueuedOrOnTheList
    <3>1. hook[i].at \in {"granting", "queueing"} /\ hook'[i].delivery = hook[i].delivery
      BY <1>1, <2>1, <2>5
    <3>2. \/ e \in hook[i].todo
          \/ \E o \in operation : o.delivery = hook[i].delivery /\ o.dep = e
      BY <3>1 DEF DeliveriesInv, QueuedOrOnTheList
    <3>3. e \in hook[i].todo => e \in hook'[i].todo \/ (i = h /\ e = dep)
      BY <2>1, <2>5
    <3> QED BY <2>3, <2>4, <3>1, <3>2, <3>3
  <2>8. ProcessedIsQueued'
    BY <1>3, <2>4 DEF DeliveriesInv, ProcessedIsQueued
  <2>9. Dated'
    BY <1>3 DEF DeliveriesInv, Dated, grantVars
  <2>10. ~regranted => Entitled(g, dep)
    BY <1>1, <2>2 DEF DeliveriesInv, GrantsStand, Entitled, MayDeploy
  <2>11. GrantsStand'
    BY <1>1, <1>3, <2>1, <2>3, <2>4, <2>5, <2>10
       DEF DeliveriesInv, GrantsStand, Entitled, grantVars
  <2> QED BY <2>6, <2>7, <2>8, <2>9, <2>11 DEF DeliveriesInv
<1> QED BY <1>2, <1>6, <1>7

\* Administrators: a changed policy is altered, a changed grant is remembered.
LEMMA AdministratorsKeep ==
  ASSUME DeliveriesInv,
         \/ \E g \in HookGrant, deps \in SUBSET Linked : Consent(g, deps)
         \/ \E g \in HookGrant : Revoke(g)
         \/ \E dep \in Linked : SetPolicy(dep)
  PROVE  DeliveriesInv'
<1>1. DeliveriesTypeOK
  BY DEF DeliveriesInv
<1>2. ASSUME NEW dep \in Linked, SetPolicy(dep) PROVE DeliveriesInv'
  <2>1. /\ policy' \in SUBSET Linked /\ altered' \in SUBSET Linked
        /\ policy' \ altered' \subseteq policy \ altered
    BY <1>1, <1>2 DEF SetPolicy, DeliveriesTypeOK
  <2>2. UNCHANGED <<delivery, grantVars, operation, hook>>
    BY <1>2 DEF SetPolicy
  <2>3. DeliveriesTypeOK'
    BY <1>1, <2>1, <2>2 DEF DeliveriesTypeOK, grantVars
  <2>4. QueuedOrOnTheList' /\ ProcessedIsQueued'
    BY <2>1, <2>2 DEF DeliveriesInv, QueuedOrOnTheList, ProcessedIsQueued
  <2>5. Dated' /\ GrantsStand'
    BY <2>2 DEF DeliveriesInv, Dated, GrantsStand, Entitled, grantVars
  <2> QED BY <2>3, <2>4, <2>5 DEF DeliveriesInv
<1>3. ASSUME NEW g \in HookGrant, NEW t \in {0, consents + 1}, GrantsChange,
             updated' = [updated EXCEPT ![g] = t],
             may' \in [HookGrant -> SUBSET Linked],
             UNCHANGED <<delivery, policy, operation, hook, altered>>
      PROVE  DeliveriesInv'
  <2>1. /\ consents \in Nat /\ consents' = consents + 1 /\ consents' \in 0..MaxConsents
        /\ MaxConsents \in Nat
    BY <1>1, <1>3, DeliveriesAssumption DEF DeliveriesTypeOK, GrantsChange
  <2>2. updated' \in Updated /\ regranted' \in BOOLEAN
    BY <1>1, <1>3, <2>1 DEF DeliveriesTypeOK, Updated, GrantsChange
  <2>3. DeliveriesTypeOK'
    BY <1>1, <1>3, <2>1, <2>2 DEF DeliveriesTypeOK
  <2>4. QueuedOrOnTheList' /\ ProcessedIsQueued'
    BY <1>3 DEF DeliveriesInv, QueuedOrOnTheList, ProcessedIsQueued
  <2>5. \A f \in HookGrant : updated[f] \in Nat /\ updated[f] <= consents
    BY <1>1, <2>1 DEF DeliveriesTypeOK, Updated, DeliveriesInv, Dated
  <2>6. \A f \in HookGrant : updated'[f] = IF f = g THEN t ELSE updated[f]
    BY <1>1, <1>3 DEF DeliveriesTypeOK, Updated
  <2>7. Dated'
    BY <1>3, <2>1, <2>5, <2>6 DEF DeliveriesInv, Dated
  <2>8. regranted' = (regranted \/ operation # {} \/ \E h \in Hook : hook[h].at = "queueing")
    BY <1>3 DEF GrantsChange
  <2>9. GrantsStand'
    BY <1>3, <2>8 DEF GrantsStand
  <2> QED BY <2>3, <2>4, <2>7, <2>9 DEF DeliveriesInv
<1>4. ASSUME NEW g \in HookGrant, NEW deps \in SUBSET Linked, Consent(g, deps)
      PROVE  DeliveriesInv'
  <2>1. may' \in [HookGrant -> SUBSET Linked]
    BY <1>1, <1>4 DEF DeliveriesTypeOK, Consent
  <2> QED BY <2>1, <1>3, <1>4 DEF Consent
<1>5. ASSUME NEW g \in HookGrant, Revoke(g) PROVE DeliveriesInv'
  <2>1. may' \in [HookGrant -> SUBSET Linked]
    BY <1>1, <1>5 DEF DeliveriesTypeOK, Revoke
  <2> QED BY <2>1, <1>3, <1>5 DEF Revoke
<1> QED BY <1>2, <1>4, <1>5

-----------------------------------------------------------------------------

LEMMA DeliveriesInitInv == DeliveriesInit => DeliveriesInv
<1> SUFFICES ASSUME DeliveriesInit PROVE DeliveriesInv
  OBVIOUS
<1>1. \A h \in Hook : NoHook \in HookRecord
  BY NoHookRecord
<1>2. DeliveriesTypeOK
  <2>1. hook \in [Hook -> HookRecord]
    BY <1>1 DEF DeliveriesInit
  <2>2. 0 \in 0..MaxConsents
    BY DeliveriesAssumption
  <2>3. updated \in Updated
    BY <2>2 DEF DeliveriesInit, Updated
  <2>4. /\ delivery \in [Delivery -> {"absent", "received", "processed", "failed"}]
        /\ may \in [HookGrant -> SUBSET Linked]
    BY DEF DeliveriesInit
  <2> QED BY <2>1, <2>2, <2>3, <2>4 DEF DeliveriesInit, DeliveriesTypeOK, HookRecord
<1>3. \A h \in Hook : hook[h].at = "idle"
  BY DEF DeliveriesInit, NoHook
<1>4. QueuedOrOnTheList /\ GrantsStand
  BY <1>3 DEF DeliveriesInit, QueuedOrOnTheList, GrantsStand
<1>5. ProcessedIsQueued
  BY DEF DeliveriesInit, ProcessedIsQueued
<1>6. Dated
  BY DEF DeliveriesInit, Dated
<1> QED BY <1>2, <1>4, <1>5, <1>6 DEF DeliveriesInv

LEMMA DeliveriesStepInv == DeliveriesInv /\ [DeliveriesNext]_hookVars => DeliveriesInv'
<1>1. ASSUME DeliveriesInv, UNCHANGED hookVars PROVE DeliveriesInv'
  BY <1>1 DEF DeliveriesInv, hookVars, grantVars, DeliveriesTypeOK, QueuedOrOnTheList,
              ProcessedIsQueued, Dated, GrantsStand, Entitled
<1> QED BY <1>1, EdgesKeep, ReadsKeep, QueueKeeps, AdministratorsKeep DEF DeliveriesNext

LEMMA DeliveriesInvariance == DeliveriesSpec => []DeliveriesInv
BY DeliveriesInitInv, DeliveriesStepInv, PTL DEF DeliveriesSpec

\* Deliveries, grants, operations and requests have the shape the code gives them.
THEOREM DeliveriesTypeCorrect == DeliveriesSpec => []DeliveriesTypeOK
<1>1. DeliveriesInv => DeliveriesTypeOK
  BY DEF DeliveriesInv
<1> QED BY <1>1, DeliveriesInvariance, PTL

\* No push is answered as processed before everything on autopilot is queued.
THEOREM ProcessedIsQueuedHolds == DeliveriesSpec => []ProcessedIsQueued
<1>1. DeliveriesInv => ProcessedIsQueued
  BY DEF DeliveriesInv
<1> QED BY <1>1, DeliveriesInvariance, PTL

\* While no grant changes under it, a push queues each deployment once, however
\* often it is delivered and however many requests for it overlap.
THEOREM OneOperationHolds == DeliveriesSpec => []OneOperationWhileGrantsStand
BY DeliveriesInvariance, StandingMeansOnce, PTL
=============================================================================
