-------------------------- MODULE GithubDeliveries --------------------------
(***************************************************************************)
(* Push webhooks of one repository and branch, and the deployments they    *)
(* queue: GitHub delivers an event, again whenever somebody asks it to,    *)
(* and each request looks the delivery up, records it, reads the linked    *)
(* deployments and the grants, and queues one operation after the other.   *)
(* Requests interleave at every await, with each other and with consents,  *)
(* revocations and changes of policy; any of them may throw or die.        *)
(***************************************************************************)
EXTENDS Naturals

CONSTANTS
  Delivery,       (* X-GitHub-Delivery ids of push events                   *)
  Linked,         (* deployments of the repository, in the order of ids     *)
  HookGrant,      (* OAuthGrant rows                                        *)
  Hook,           (* webhook requests that may be open at a time            *)
  MaxConsents     (* bound on later consents, revocations, policy changes   *)

ASSUME DeliveriesAssumption ==
  /\ Delivery # {}
  /\ Linked \subseteq Nat
  /\ MaxConsents \in Nat

VARIABLES
  delivery,       (* GithubWebhookDelivery                                  *)
  policy,         (* deployments that are managed, autopilot on the branch  *)
  updated,        (* when a grant was last updated, 0 if there is none      *)
  may,            (* the deployments a grant may redeploy                   *)
  operation,      (* AgentOperation rows of pushes, by their unique key     *)
  hook,           (* control state of the requests                          *)
  consents,       (* how often grants changed                               *)
  regranted,      (* history: a grant changed under a push being queued     *)
  altered         (* history: deployments whose policy changed              *)

grantVars == <<updated, may, consents, regranted>>
hookVars == <<delivery, policy, grantVars, operation, hook, altered>>

Updated == [HookGrant -> 0..MaxConsents]

DeliveriesTypeOK ==
  /\ delivery \in [Delivery -> {"absent", "received", "processed", "failed"}]
  /\ policy \in SUBSET Linked
  /\ updated \in Updated
  /\ may \in [HookGrant -> SUBSET Linked]
  /\ operation \subseteq [grant : HookGrant, delivery : Delivery, dep : Linked]
  /\ hook \in [Hook -> [at : {"idle", "receiving", "reading", "granting", "queueing",
                              "failing"},
                        delivery : Delivery, todo : SUBSET Linked,
                        grants : Updated, may : [HookGrant -> SUBSET Linked]]]
  /\ consents \in 0..MaxConsents
  /\ regranted \in BOOLEAN
  /\ altered \in SUBSET Linked

NoHook == [at |-> "idle", delivery |-> CHOOSE d \in Delivery : TRUE, todo |-> {},
           grants |-> [g \in HookGrant |-> 0], may |-> [g \in HookGrant |-> {}]]

DeliveriesInit ==
  /\ delivery = [d \in Delivery |-> "absent"]
  /\ policy \in SUBSET Linked
  /\ updated = [g \in HookGrant |-> 0]
  /\ may = [g \in HookGrant |-> {}]
  /\ operation = {}
  /\ hook = [h \in Hook |-> NoHook]
  /\ consents = 0
  /\ regranted = FALSE
  /\ altered = {}

ToHook(h, record) == hook' = [hook EXCEPT ![h] = record]

-----------------------------------------------------------------------------
(* What administrators do meanwhile.                                       *)

GrantsChange ==
  /\ consents < MaxConsents /\ consents' = consents + 1
  /\ regranted' = (regranted \/ operation # {} \/ \E h \in Hook : hook[h].at = "queueing")

\* The consent upsert: the grant is the last updated, of what was selected.
Consent(g, deps) ==
  /\ GrantsChange
  /\ updated' = [updated EXCEPT ![g] = consents + 1]
  /\ may' = [may EXCEPT ![g] = deps]
  /\ UNCHANGED <<delivery, policy, operation, hook, altered>>

Revoke(g) ==
  /\ GrantsChange
  /\ updated' = [updated EXCEPT ![g] = 0]
  /\ UNCHANGED <<delivery, policy, may, operation, hook, altered>>

SetPolicy(dep) ==
  /\ dep \notin altered
  /\ policy' = IF dep \in policy THEN policy \ {dep} ELSE policy \cup {dep}
  /\ altered' = altered \cup {dep}
  /\ UNCHANGED <<delivery, grantVars, operation, hook>>

-----------------------------------------------------------------------------
(* The webhook.                                                            *)

\* A delivery that was processed is answered at once.
Lookup(h, d) ==
  /\ hook[h].at = "idle" /\ delivery[d] # "processed"
  /\ ToHook(h, [NoHook EXCEPT !.at = "receiving", !.delivery = d])
  /\ UNCHANGED <<delivery, policy, grantVars, operation, altered>>

\* The upsert, whatever became of the delivery since.
Receive(h) ==
  /\ hook[h].at = "receiving"
  /\ delivery' = [delivery EXCEPT ![hook[h].delivery] = "received"]
  /\ ToHook(h, [hook[h] EXCEPT !.at = "reading"])
  /\ UNCHANGED <<policy, grantVars, operation, altered>>

ReadLinks(h) ==
  /\ hook[h].at = "reading"
  /\ ToHook(h, [hook[h] EXCEPT !.at = "granting", !.todo = policy])
  /\ UNCHANGED <<delivery, policy, grantVars, operation, altered>>

ReadGrants(h) ==
  /\ hook[h].at = "granting"
  /\ ToHook(h, [hook[h] EXCEPT !.at = "queueing", !.grants = updated, !.may = may])
  /\ UNCHANGED <<delivery, policy, grantVars, operation, altered>>

\* grantCanDeploy, of what the request has read.
MayDeploy(h, g, dep) == hook[h].grants[g] > 0 /\ dep \in hook[h].may[g]

\* Mutant of Granting: any grant that may.
GrantingAny(h, dep) == {g \in HookGrant : MayDeploy(h, g, dep)}

\* The last updated of the grants that may redeploy it.
Granting(h, dep) ==
  {g \in HookGrant :
     /\ MayDeploy(h, g, dep)
     /\ \A f \in HookGrant : MayDeploy(h, f, dep) => hook[h].grants[f] <= hook[h].grants[g]}

Earliest(S) == {dep \in S : \A e \in S : dep <= e}

\* Mutant of Queue: a deployment without a grant is skipped.
QueueGranted(h) ==
  /\ hook[h].at = "queueing"
  /\ \E dep \in Earliest(hook[h].todo) :
        /\ ToHook(h, [hook[h] EXCEPT !.todo = @ \ {dep}])
        /\ operation' = operation \cup
             {[grant |-> g, delivery |-> hook[h].delivery, dep |-> dep]
                : g \in Granting(h, dep)}
  /\ UNCHANGED <<delivery, policy, grantVars, altered>>

\* Mutant of Queue: without a grant, under none.
QueueUngranted(h) ==
  /\ hook[h].at = "queueing"
  /\ \E dep \in Earliest(hook[h].todo) :
        /\ ToHook(h, [hook[h] EXCEPT !.todo = @ \ {dep}])
        /\ \E g \in IF Granting(h, dep) = {} THEN {0} ELSE Granting(h, dep) :
              operation' = operation \cup
                {[grant |-> g, delivery |-> hook[h].delivery, dep |-> dep]}
  /\ UNCHANGED <<delivery, policy, grantVars, altered>>

\* An upsert on (grant, delivery and deployment); without a grant it throws.
Queue(h) ==
  /\ hook[h].at = "queueing"
  /\ \E dep \in Earliest(hook[h].todo) :
        \/ /\ Granting(h, dep) = {}
           /\ ToHook(h, [hook[h] EXCEPT !.at = "failing"])
           /\ UNCHANGED operation
        \/ \E g \in Granting(h, dep) :
              /\ operation' = operation \cup
                   {[grant |-> g, delivery |-> hook[h].delivery, dep |-> dep]}
              /\ ToHook(h, [hook[h] EXCEPT !.todo = @ \ {dep}])
  /\ UNCHANGED <<delivery, policy, grantVars, altered>>

Processed(h) ==
  /\ hook[h].at = "queueing" /\ hook[h].todo = {}
  /\ delivery' = [delivery EXCEPT ![hook[h].delivery] = "processed"]
  /\ ToHook(h, NoHook)
  /\ UNCHANGED <<policy, grantVars, operation, altered>>

Failed(h) ==
  /\ hook[h].at = "failing"
  /\ delivery' = [delivery EXCEPT ![hook[h].delivery] = "failed"]
  /\ ToHook(h, NoHook)
  /\ UNCHANGED <<policy, grantVars, operation, altered>>

\* An await throws: inside the try block into its catch, elsewhere, or with the
\* process, out of the handler.
Break(h) ==
  /\ hook[h].at # "idle"
  /\ \/ ToHook(h, NoHook)
     \/ /\ hook[h].at \in {"reading", "granting", "queueing"}
        /\ ToHook(h, [hook[h] EXCEPT !.at = "failing"])
  /\ UNCHANGED <<delivery, policy, grantVars, operation, altered>>

-----------------------------------------------------------------------------

DeliveriesNext ==
  \/ \E h \in Hook :
        \/ \E d \in Delivery : Lookup(h, d)
        \/ Receive(h) \/ ReadLinks(h) \/ ReadGrants(h) \/ Queue(h)
        \/ Processed(h) \/ Failed(h) \/ Break(h)
  \/ \E g \in HookGrant :
        \/ Revoke(g)
        \/ \E deps \in SUBSET Linked : Consent(g, deps)
  \/ \E dep \in Linked : SetPolicy(dep)

DeliveriesSpec == DeliveriesInit /\ [][DeliveriesNext]_hookVars

-----------------------------------------------------------------------------
(* Properties.                                                             *)

\* A push that says processed has queued an operation for every deployment of
\* its branch that was on autopilot throughout, whatever requests for it
\* overlap, fail or are repeated: none is answered as a duplicate too early.
ProcessedIsQueued ==
  \A d \in Delivery, dep \in policy \ altered :
    delivery[d] = "processed" => \E o \in operation : o.delivery = d /\ o.dep = dep

\* Repeating or overlapping a push queues each deployment once ...
OneOperationPerDelivery ==
  \A o, p \in operation : o.delivery = p.delivery /\ o.dep = p.dep => o = p
\* ... as long as no grant changes under it.
OneOperationWhileGrantsStand == ~regranted => OneOperationPerDelivery

=============================================================================
