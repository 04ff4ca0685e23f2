--------------------------- MODULE AiEntitlement ---------------------------
(***************************************************************************)
(* Which AI models a tenant's requests may use                             *)
(* (src/api/src/ai/ai-entitlement.service.ts), and how long what the super *)
(* admin withdraws is still used                                           *)
(* (super-admin/services/platform-ai.service.ts, platform-plans).          *)
(*                                                                         *)
(* The answer is resolved from the tenant's plan, the plan's row with its  *)
(* entitlements, and the models, read one after the other, and kept in     *)
(* Redis for Ttl.  Whoever changes models or plans writes the database     *)
(* and then lists the keys and deletes them one by one; nobody does so for *)
(* a tenant that changes its plan.                                         *)
(*                                                                         *)
(* The models are those for chat.  Limits on usage are left out, and so is *)
(* the seeding of plans and models when a process starts.                  *)
(***************************************************************************)
EXTENDS Naturals

CONSTANTS
  Requests, Editors, Tenants, Plans, Models,
  Free,       \* the plan of new tenants
  Seeded,     \* Seeded[p]: the models that plan p starts with
  SortOrder,  \* SortOrder[m]: the place of m in the catalogue
  Ttl,
  Span,       \* how long resolving an answer takes at most
  MaxTime,    \* bound on the clock
  MaxChanges, \* bound on the changes of models, plans and tenants' plans
  None        \* no row, no entry, no request

ASSUME EntitlementAssumption ==
  /\ Free \in Plans
  /\ Seeded \in [Plans -> SUBSET Models]
  /\ SortOrder \in [Models -> Nat]
  /\ Ttl \in Nat
  /\ Span \in Nat
  /\ MaxTime \in Nat
  /\ MaxChanges \in Nat

VARIABLES
  now,     \* the clock
  on,      \* PlatformConfig.aiCopilot
  off,     \* off[m]: since when model m is not available, Never if it is
  plans,   \* plans[p]: the Plan p with its entitlements
  planOf,  \* planOf[t]: the plan of tenant t, and since when
  cache,   \* cache[t]: the entry of tenant t in Redis
  req,     \* req[r]: the request r
  edit,    \* edit[e]: what the super admin's request e has checked, or has left to clear
  changes  \* how many changes there were

vars == <<now, on, off, plans, planOf, cache, req, edit, changes>>

Never == MaxTime + 1

Times == 0 .. Never

PlanRows == [disabled : Times, withdrawn : [Models -> Times]]

TenantRows == [plan : Plans, since : Times]

\* own: the models are the plan's own and not the fallback.
\* sure: nothing was changed since it was read, and no clearing failed (history).
Answers ==
  [plan : Plans, enabled : BOOLEAN, own : BOOLEAN, models : SUBSET Models, sure : BOOLEAN]

Entries == [answer : Answers, expires : Nat]

RequestStates ==
  [tenant : Tenants, start : Times, answer : Answers,
   at : {"cache", "tenant", "plan", "fallback", "fill", "judge"}]

\* A decision is what a request has checked before the transaction that writes it.
Decisions ==
  [op : {"default"}, model : Models]
    \cup [op : {"planDefault"}, plan : Plans, model : Models]
    \cup [op : {"create"}, plan : Plans, enabled : BOOLEAN, allowed : SUBSET Models]
    \cup [op : {"delete"}, plan : Plans, inUse : BOOLEAN]

Edits == Decisions \cup [op : {"list"}] \cup [op : {"clear"}, tenants : SUBSET Tenants]

ASSUME NoneAssumption ==
  None \notin PlanRows /\ None \notin Entries /\ None \notin RequestStates /\ None \notin Edits

Unread == [plan |-> Free, enabled |-> FALSE, own |-> FALSE, models |-> {}, sure |-> TRUE]

Init ==
  /\ now = 0
  /\ on = TRUE
  /\ off = [m \in Models |-> Never]
  /\ plans = [p \in Plans |->
       [disabled |-> Never, withdrawn |-> [m \in Models |-> IF m \in Seeded[p] THEN Never ELSE 0]]]
  /\ planOf = [t \in Tenants |-> [plan |-> Free, since |-> 0]]
  /\ cache = [t \in Tenants |-> None]
  /\ req = [r \in Requests |-> None]
  /\ edit = [e \in Editors |-> None]
  /\ changes = 0

Available == {m \in Models : off[m] = Never}

Exists(p) == plans[p] # None

\* A plan that does not exist has AI enabled.
Enabled(p) == Exists(p) => plans[p].disabled = Never

\* The models that the plan entitles and that are available.
Offered(p) == IF Exists(p) THEN {m \in Available : plans[p].withdrawn[m] = Never} ELSE {}

\* The first of the catalogue; the order may have ties.
First == {m \in Available : \A n \in Available : SortOrder[m] <= SortOrder[n]}

\* What findFirst may answer.
Fallbacks == IF First = {} THEN {{}} ELSE {{m} : m \in First}

-----------------------------------------------------------------------------
\* A request: validateModelAccess and getEffectiveEntitlements.

Live(t) == cache[t] # None /\ now < cache[t].expires

At(r, at) == req[r] # None /\ req[r].at = at

GoTo(r, at, answer) ==
  req' = [req EXCEPT ![r] = [tenant |-> req[r].tenant, start |-> req[r].start,
                             answer |-> answer, at |-> at]]

dbVars == <<now, on, off, plans, planOf, edit, changes>>

\* The switch is read again for every request.
Ask(r, t) ==
  /\ req[r] = None
  /\ on
  /\ req' = [req EXCEPT ![r] = [tenant |-> t, start |-> now, answer |-> Unread, at |-> "cache"]]
  /\ UNCHANGED <<dbVars, cache>>

Hit(r) ==
  /\ At(r, "cache")
  /\ Live(req[r].tenant)
  /\ GoTo(r, "judge", cache[req[r].tenant].answer)
  /\ UNCHANGED <<dbVars, cache>>

\* There is no entry, or Redis does not answer.
Bypass(r) ==
  /\ At(r, "cache")
  /\ GoTo(r, "tenant", Unread)
  /\ UNCHANGED <<dbVars, cache>>

ReadTenant(r) ==
  /\ At(r, "tenant")
  /\ GoTo(r, "plan", [Unread EXCEPT !.plan = planOf[req[r].tenant].plan])
  /\ UNCHANGED <<dbVars, cache>>

\* The plan's row with its entitlements and their models.
ReadPlan(r) ==
  LET p == req[r].answer.plan
      own == Offered(p) # {}
  IN /\ At(r, "plan")
     /\ GoTo(r, IF own THEN "fill" ELSE "fallback",
             [plan |-> p, enabled |-> Enabled(p), own |-> own, models |-> Offered(p),
              sure |-> TRUE])
     /\ UNCHANGED <<dbVars, cache>>

ReadFallback(r) ==
  /\ At(r, "fallback")
  /\ \E F \in Fallbacks : GoTo(r, "fill", [req[r].answer EXCEPT !.models = F])
  /\ UNCHANGED <<dbVars, cache>>

\* mutant: an entry has no expiry
StoredForever(answer) == [answer |-> answer, expires |-> Never]

Stored(answer) == [answer |-> answer, expires |-> now + Ttl]

Fill(r) ==
  /\ At(r, "fill")
  /\ cache' = [cache EXCEPT ![req[r].tenant] = Stored(req[r].answer)]
  /\ GoTo(r, "judge", req[r].answer)
  /\ UNCHANGED dbVars

FillFails(r) ==
  /\ At(r, "fill")
  /\ GoTo(r, "judge", req[r].answer)
  /\ UNCHANGED <<dbVars, cache>>

\* The request is let through for one of the models, or refused.
Answer(r) ==
  /\ At(r, "judge")
  /\ req' = [req EXCEPT ![r] = None]
  /\ UNCHANGED <<dbVars, cache>>

-----------------------------------------------------------------------------
\* Changes: the database is written and then the entries are cleared.

Listing == [op |-> "list"]

Doubtful(answer) == [answer EXCEPT !.sure = FALSE]

\* Whoever has read the plan already is overtaken.
Overtaken(q) ==
  IF q # None /\ q.at \in {"fallback", "fill"}
  THEN [tenant |-> q.tenant, start |-> q.start, answer |-> Doubtful(q.answer), at |-> q.at]
  ELSE q

\* mutant: nothing is cleared
WriteOnly(e) ==
  /\ changes < MaxChanges
  /\ changes' = changes + 1
  /\ req' = [r \in Requests |-> Overtaken(req[r])]
  /\ edit' = [edit EXCEPT ![e] = None]
  /\ UNCHANGED <<now, cache>>

\* What every write of the super admin has in common.
Write(e) ==
  /\ changes < MaxChanges
  /\ changes' = changes + 1
  /\ req' = [r \in Requests |-> Overtaken(req[r])]
  /\ edit' = [edit EXCEPT ![e] = Listing]
  /\ UNCHANGED <<now, cache>>

Decide(e, decision) ==
  /\ edit[e] = None
  /\ changes < MaxChanges
  /\ edit' = [edit EXCEPT ![e] = decision]
  /\ UNCHANGED <<now, on, off, plans, planOf, cache, req, changes>>

Decided(e, op) == edit[e] # None /\ edit[e].op = op

\* Since when something is gone: from now on unless it was before.
Since(kept, time) == IF kept THEN Never ELSE IF time = Never THEN now ELSE time

Switched(m, available) == off' = [off EXCEPT ![m] = Since(available, off[m])]

Entitled(withdrawn, allowed) == [m \in Models |-> Since(m \in allowed, withdrawn[m])]

SetPlan(p, disabled, withdrawn) ==
  plans' = [plans EXCEPT ![p] = [disabled |-> disabled, withdrawn |-> withdrawn]]

\* toggleModelAvailability, updateModelStatus
SwitchModel(e, m, available) ==
  /\ edit[e] = None
  /\ Switched(m, available)
  /\ Write(e)
  /\ UNCHANGED <<on, plans, planOf>>

\* The fallback model becomes available whatever it was.
SetFallbackModel(e, m) == SwitchModel(e, m, TRUE)

\* The default model was available when it was looked at.
CheckDefaultModel(e, m) ==
  /\ m \in Available
  /\ Decide(e, [op |-> "default", model |-> m])

SetDefaultModel(e) ==
  /\ Decided(e, "default")
  /\ Switched(edit[e].model, TRUE)
  /\ Write(e)
  /\ UNCHANGED <<on, plans, planOf>>

CheckPlanDefaultModel(e, p, m) ==
  /\ Exists(p)
  /\ m \in Available
  /\ Decide(e, [op |-> "planDefault", plan |-> p, model |-> m])

SetPlanDefaultModel(e) ==
  /\ Decided(e, "planDefault")
  /\ Exists(edit[e].plan)
  /\ LET p == edit[e].plan
     IN SetPlan(p, plans[p].disabled, [plans[p].withdrawn EXCEPT ![edit[e].model] = Never])
  /\ Write(e)
  /\ UNCHANGED <<on, off, planOf>>

\* updatePlan.  enabled and allowed are None if the request does not give them.
UpdatePlan(e, p, enabled, allowed) ==
  /\ edit[e] = None
  /\ Exists(p)
  /\ SetPlan(p, IF enabled = None THEN plans[p].disabled ELSE Since(enabled, plans[p].disabled),
             IF allowed = None THEN plans[p].withdrawn ELSE Entitled(plans[p].withdrawn, allowed))
  /\ Write(e)
  /\ UNCHANGED <<on, off, planOf>>

\* updatePlanAiConfiguration.  What the request does not give is written back as it was
\* read before, so that enabled may be either value.
UpdatePlanAiConfiguration(e, p, enabled, allowed) ==
  enabled # None /\ UpdatePlan(e, p, enabled, allowed)

\* createPlan.  Without a model given the plan gets the first available one, if any.
CheckNewPlan(e, p, enabled, allowed) ==
  /\ ~Exists(p)
  /\ allowed = {} => Available = {}
  /\ Decide(e, [op |-> "create", plan |-> p, enabled |-> enabled, allowed |-> allowed])

CreatePlan(e) ==
  /\ Decided(e, "create")
  /\ ~Exists(edit[e].plan)
  /\ SetPlan(edit[e].plan, IF edit[e].enabled THEN Never ELSE now,
             [m \in Models |-> IF m \in edit[e].allowed THEN Never ELSE now])
  /\ Write(e)
  /\ UNCHANGED <<on, off, planOf>>

\* mutant: the tenants of a deleted plan are left without one
DeletePlanNull(e) ==
  /\ Decided(e, "delete")
  /\ Exists(edit[e].plan)
  /\ plans' = [plans EXCEPT ![edit[e].plan] = None]
  /\ planOf' = [t \in Tenants |->
       IF edit[e].inUse /\ edit[e].plan # Free /\ planOf[t].plan = edit[e].plan
       THEN [plan |-> None, since |-> now] ELSE planOf[t]]
  /\ Write(e)
  /\ UNCHANGED <<on, off>>

\* deletePlan.  Tenants are counted before and moved only if there were any.
CheckPlanInUse(e, p) ==
  /\ Exists(p)
  /\ Decide(e, [op |-> "delete", plan |-> p, inUse |-> \E t \in Tenants : planOf[t].plan = p])

DeletePlan(e) ==
  /\ Decided(e, "delete")
  /\ Exists(edit[e].plan)
  /\ plans' = [plans EXCEPT ![edit[e].plan] = None]
  /\ planOf' = [t \in Tenants |->
       IF edit[e].inUse /\ edit[e].plan # Free /\ planOf[t].plan = edit[e].plan
       THEN [plan |-> Free, since |-> now] ELSE planOf[t]]
  /\ Write(e)
  /\ UNCHANGED <<on, off>>

\* The transaction fails: its plan was created or deleted meanwhile, or for itself.
Fail(e) ==
  /\ edit[e] # None
  /\ edit[e].op \notin {"list", "clear"}
  /\ edit' = [edit EXCEPT ![e] = None]
  /\ UNCHANGED <<now, on, off, plans, planOf, cache, req, changes>>

ToggleGlobalAiKillswitch(e, enabled) ==
  /\ edit[e] = None
  /\ on' = enabled
  /\ Write(e)
  /\ UNCHANGED <<off, plans, planOf>>

\* A payment, the super admin or a downgrade changes the plan of a tenant.
ChangePlan(t, p) ==
  /\ changes < MaxChanges
  /\ changes' = changes + 1
  /\ p # planOf[t].plan
  /\ planOf' = [planOf EXCEPT ![t] = [plan |-> p, since |-> now]]
  /\ UNCHANGED <<now, on, off, plans, cache, req, edit>>

-----------------------------------------------------------------------------
\* invalidateAllCache

Left(S) == IF S = {} THEN None ELSE [op |-> "clear", tenants |-> S]

\* keys
List(e) ==
  /\ Decided(e, "list")
  /\ edit' = [edit EXCEPT ![e] = Left({t \in Tenants : Live(t)})]
  /\ UNCHANGED <<now, on, off, plans, planOf, cache, req, changes>>

\* del, in any order
Clear(e, t) ==
  /\ Decided(e, "clear")
  /\ t \in edit[e].tenants
  /\ cache' = [cache EXCEPT ![t] = None]
  /\ edit' = [edit EXCEPT ![e] = Left(edit[e].tenants \ {t})]
  /\ UNCHANGED <<now, on, off, plans, planOf, req, changes>>

\* Redis does not answer, or the process ends: the entries stay until they expire.
ClearFails(e) ==
  /\ Decided(e, "list") \/ Decided(e, "clear")
  /\ edit' = [edit EXCEPT ![e] = None]
  /\ cache' = [t \in Tenants |->
       IF cache[t] = None THEN None
       ELSE [answer |-> Doubtful(cache[t].answer), expires |-> cache[t].expires]]
  /\ UNCHANGED <<now, on, off, plans, planOf, req, changes>>

-----------------------------------------------------------------------------
Resolving(r) == req[r] # None /\ req[r].at # "judge"

Tick ==
  /\ now < MaxTime
  /\ \A r \in Requests : Resolving(r) => now < req[r].start + Span
  /\ now' = now + 1
  /\ UNCHANGED <<on, off, plans, planOf, cache, req, edit, changes>>

Request(r) ==
  \/ \E t \in Tenants : Ask(r, t)
  \/ Hit(r) \/ Bypass(r)
  \/ ReadTenant(r) \/ ReadPlan(r) \/ ReadFallback(r)
  \/ Fill(r) \/ FillFails(r)
  \/ Answer(r)

Check(e) ==
  \/ \E m \in Models : CheckDefaultModel(e, m)
  \/ \E p \in Plans, m \in Models : CheckPlanDefaultModel(e, p, m)
  \/ \E p \in Plans, enabled \in BOOLEAN, allowed \in SUBSET Models :
       CheckNewPlan(e, p, enabled, allowed)
  \/ \E p \in Plans : CheckPlanInUse(e, p)

Edit(e) ==
  \/ \E m \in Models : SetFallbackModel(e, m) \/ \E b \in BOOLEAN : SwitchModel(e, m, b)
  \/ SetDefaultModel(e)
  \/ SetPlanDefaultModel(e)
  \/ CreatePlan(e)
  \/ DeletePlan(e)
  \/ Fail(e)
  \/ \E p \in Plans, enabled \in BOOLEAN \cup {None}, allowed \in SUBSET Models \cup {None} :
       UpdatePlan(e, p, enabled, allowed) \/ UpdatePlanAiConfiguration(e, p, enabled, allowed)
  \/ \E b \in BOOLEAN : ToggleGlobalAiKillswitch(e, b)

Invalidate(e) ==
  \/ List(e)
  \/ \E t \in Tenants : Clear(e, t)
  \/ ClearFails(e)

Next ==
  \/ Tick
  \/ \E r \in Requests : Request(r)
  \/ \E e \in Editors : Check(e) \/ Edit(e) \/ Invalidate(e)
  \/ \E t \in Tenants, p \in Plans : ChangePlan(t, p)

Spec == Init /\ [][Next]_vars

-----------------------------------------------------------------------------
\* The types of the variables.
TypeOK ==
  /\ now \in 0 .. MaxTime
  /\ on \in BOOLEAN
  /\ off \in [Models -> Times]
  /\ plans \in [Plans -> PlanRows \cup {None}]
  /\ planOf \in [Tenants -> TenantRows]
  /\ cache \in [Tenants -> Entries \cup {None}]
  /\ req \in [Requests -> RequestStates \cup {None}]
  /\ edit \in [Editors -> Edits \cup {None}]
  /\ changes \in 0 .. MaxChanges

Within(time, gone, slack) == gone # Never => time <= gone + slack

\* Whatever answer a allows that is no longer so was so slack before time.
RightsWithin(a, t, time, slack) ==
  /\ a.plan # planOf[t].plan => time <= planOf[t].since + slack
  /\ \A m \in a.models : Within(time, off[m], slack)
  /\ Exists(a.plan) =>
       /\ a.enabled => Within(time, plans[a.plan].disabled, slack)
       /\ a.own => \A m \in a.models : Within(time, plans[a.plan].withdrawn[m], slack)

\* A model switched off, an entitlement or a plan's AI withdrawn, a plan the tenant left: no
\* request that begins more than Span + Ttl later is let through by it, whatever was being
\* resolved or cleared at the time and whichever of the clearings failed.
WithdrawnWithinTtl ==
  \A r \in Requests : At(r, "judge") =>
    RightsWithin(req[r].answer, req[r].tenant, req[r].start, Span + Ttl)

\* What the database says of the plan of answer a.
Current(a) ==
  /\ a.enabled = Enabled(a.plan)
  /\ a.own = (Offered(a.plan) # {})
  /\ IF a.own THEN a.models = Offered(a.plan) ELSE a.models \in Fallbacks

\* An entry in Redis that differs from the database is about to be cleared, whichever
\* operation changed what, unless the change overtook the reading of it or a clearing failed.
StaleIsBeingCleared ==
  \A t \in Tenants :
    Live(t) /\ cache[t].answer.sure /\ ~Current(cache[t].answer) =>
      \E e \in Editors : Decided(e, "list") \/ (Decided(e, "clear") /\ t \in edit[e].tenants)
=============================================================================
