------------------------ MODULE AiEntitlementProofs ------------------------
(***************************************************************************)
(* For any number of requests, super admins, tenants, plans and models:    *)
(* what is withdrawn is used no longer than Span + Ttl, and a stale entry  *)
(* that nothing excuses is about to be cleared.                            *)
(*                                                                         *)
(* Every action either moves one request, writes the database or clears;   *)
(* WriteStep, EditStep, ClearStep and RequestTypes say what each kind      *)
(* leaves of the state, and the invariants are proved from these alone.    *)
(***************************************************************************)
EXTENDS AiEntitlement, TLAPS

USE EntitlementAssumption, NoneAssumption

LEMMA NeverIsTime == Never \in Times /\ Times \subseteq Nat /\ (0 .. MaxTime) \subseteq Times
BY DEF Never, Times

-----------------------------------------------------------------------------
\* What the kinds of steps do.

\* A time becomes Never, or the present, or stays what it is.
Moved(old, new) == new = old \/ new = Never \/ new = now

MovedPlan(p) ==
  plans'[p] # None =>
    IF plans[p] # None
    THEN /\ Moved(plans[p].disabled, plans'[p].disabled)
         /\ \A m \in Models : Moved(plans[p].withdrawn[m], plans'[p].withdrawn[m])
    ELSE /\ Moved(Never, plans'[p].disabled)
         /\ \A m \in Models : Moved(Never, plans'[p].withdrawn[m])

\* What the database loses, it loses now.
DbStep ==
  /\ off' \in [Models -> Times]
  /\ plans' \in [Plans -> PlanRows \cup {None}]
  /\ planOf' \in [Tenants -> TenantRows]
  /\ \A m \in Models : Moved(off[m], off'[m])
  /\ \A p \in Plans : MovedPlan(p)
  /\ \A t \in Tenants : planOf'[t] = planOf[t] \/ planOf'[t].since = now

WriteStep(e) == DbStep /\ Write(e) /\ on' \in BOOLEAN

\* A super admin's request checks something or gives up.
EditStep(e) ==
  /\ edit[e] = None \/ edit[e].op \notin {"list", "clear"}
  /\ \E d \in Edits \cup {None} : edit' = [edit EXCEPT ![e] = d]
  /\ UNCHANGED <<now, on, off, plans, planOf, cache, req, changes>>

ClearStep(e) == List(e) \/ (\E t \in Tenants : Clear(e, t)) \/ ClearFails(e)

LEMMA SinceMoves ==
  ASSUME NEW kept \in BOOLEAN, NEW time \in Times, TypeOK
  PROVE  Moved(time, Since(kept, time)) /\ Since(kept, time) \in Times
BY NeverIsTime DEF Moved, Since, TypeOK

LEMMA SwitchedSteps ==
  ASSUME TypeOK, NEW m \in Models, NEW b \in BOOLEAN, Switched(m, b),
         plans' = plans, planOf' = planOf
  PROVE  DbStep
<1>1. off[m] \in Times /\ off \in [Models -> Times]
  BY DEF TypeOK
<1>2. Moved(off[m], Since(b, off[m])) /\ Since(b, off[m]) \in Times
  BY <1>1, SinceMoves
<1>3. off' \in [Models -> Times]
  BY <1>1, <1>2 DEF Switched
<1>4. ASSUME NEW n \in Models PROVE Moved(off[n], off'[n])
  <2>1. CASE n = m
    BY <1>1, <1>2, <2>1 DEF Switched
  <2>2. CASE n # m
    BY <1>1, <2>2 DEF Switched, Moved
  <2> QED
    BY <2>1, <2>2
<1> QED
  BY <1>3, <1>4 DEF DbStep, MovedPlan, Moved, TypeOK

\* A plan's row is written, and what it loses it loses now.
LEMMA SetPlanSteps ==
  ASSUME TypeOK, NEW p \in Plans,
         NEW disabled \in Times, NEW withdrawn \in [Models -> Times],
         SetPlan(p, disabled, withdrawn),
         plans[p] # None =>
           /\ Moved(plans[p].disabled, disabled)
           /\ \A m \in Models : Moved(plans[p].withdrawn[m], withdrawn[m]),
         plans[p] = None =>
           /\ Moved(Never, disabled)
           /\ \A m \in Models : Moved(Never, withdrawn[m]),
         off' = off, planOf' = planOf
  PROVE  DbStep
<1> DEFINE row == [disabled |-> disabled, withdrawn |-> withdrawn]
<1>1. row \in PlanRows /\ row.disabled = disabled /\ row.withdrawn = withdrawn
  BY DEF PlanRows
<1>2. plans' = [plans EXCEPT ![p] = row]
  BY DEF SetPlan
<1> HIDE DEF row
<1>3. plans \in [Plans -> PlanRows \cup {None}]
  BY DEF TypeOK
<1>4. plans' \in [Plans -> PlanRows \cup {None}]
  BY <1>1, <1>2, <1>3
<1>5. ASSUME NEW o \in Plans PROVE MovedPlan(o)
  <2>1. CASE o = p
    BY <1>1, <1>2, <1>3, <2>1 DEF MovedPlan
  <2>2. CASE o # p
    BY <1>2, <1>3, <2>2 DEF MovedPlan, Moved
  <2> QED
    BY <2>1, <2>2
<1> QED
  BY <1>4, <1>5 DEF DbStep, Moved, TypeOK

\* A write of the super admin loses nothing but now.
LEMMA WritesStep ==
  ASSUME TypeOK, NEW e \in Editors,
         \/ \E m \in Models : SetFallbackModel(e, m) \/ \E b \in BOOLEAN : SwitchModel(e, m, b)
         \/ SetDefaultModel(e)
         \/ SetPlanDefaultModel(e)
         \/ CreatePlan(e)
         \/ DeletePlan(e)
         \/ \E p \in Plans, enabled \in BOOLEAN \cup {None}, allowed \in SUBSET Models \cup {None} :
              UpdatePlan(e, p, enabled, allowed) \/ UpdatePlanAiConfiguration(e, p, enabled, allowed)
         \/ \E b \in BOOLEAN : ToggleGlobalAiKillswitch(e, b)
  PROVE  WriteStep(e)
<1> USE NeverIsTime
<1>a. on \in BOOLEAN /\ off \in [Models -> Times] /\ now \in Times
      /\ plans \in [Plans -> PlanRows \cup {None}] /\ planOf \in [Tenants -> TenantRows]
      /\ edit[e] \in Edits \cup {None}
  BY DEF TypeOK
<1>b. ASSUME NEW p \in Plans, plans[p] # None
      PROVE  plans[p].disabled \in Times /\ plans[p].withdrawn \in [Models -> Times]
  BY <1>a, <1>b DEF PlanRows
<1>1. ASSUME NEW m \in Models, NEW b \in BOOLEAN, SwitchModel(e, m, b) PROVE WriteStep(e)
  BY <1>1, <1>a, SwitchedSteps DEF SwitchModel, WriteStep
<1>2. ASSUME NEW m \in Models, SetFallbackModel(e, m) PROVE WriteStep(e)
  BY <1>1, <1>2 DEF SetFallbackModel
<1>3. CASE SetDefaultModel(e)
  <2>1. edit[e].model \in Models
    BY <1>3, <1>a DEF SetDefaultModel, Decided, Edits, Decisions
  <2> QED
    BY <2>1, <1>3, <1>a, SwitchedSteps DEF SetDefaultModel, WriteStep
<1>4. CASE SetPlanDefaultModel(e)
  <2> DEFINE p == edit[e].plan
             withdrawn == [plans[p].withdrawn EXCEPT ![edit[e].model] = Never]
  <2>1. p \in Plans /\ edit[e].model \in Models
    BY <1>4, <1>a DEF SetPlanDefaultModel, Decided, Edits, Decisions
  <2>2. plans[p] # None /\ SetPlan(p, plans[p].disabled, withdrawn)
        /\ off' = off /\ planOf' = planOf /\ on' = on /\ Write(e)
    BY <1>4 DEF SetPlanDefaultModel, Exists
  <2>3. plans[p].disabled \in Times /\ plans[p].withdrawn \in [Models -> Times]
    BY <2>1, <2>2, <1>b
  <2>4. withdrawn \in [Models -> Times]
        /\ \A m \in Models : Moved(plans[p].withdrawn[m], withdrawn[m])
    BY <2>1, <2>3 DEF Moved
  <2>5. Moved(plans[p].disabled, plans[p].disabled)
    BY DEF Moved
  <2> HIDE DEF p, withdrawn
  <2>6. DbStep
    BY <2>1, <2>2, <2>3, <2>4, <2>5, SetPlanSteps
  <2> QED
    BY <2>2, <2>6, <1>a DEF WriteStep
<1>5. CASE CreatePlan(e)
  <2> DEFINE p == edit[e].plan
             disabled == IF edit[e].enabled THEN Never ELSE now
             withdrawn == [m \in Models |-> IF m \in edit[e].allowed THEN Never ELSE now]
  <2>1. p \in Plans
    BY <1>5, <1>a DEF CreatePlan, Decided, Edits, Decisions
  <2>2. plans[p] = None /\ SetPlan(p, disabled, withdrawn)
        /\ off' = off /\ planOf' = planOf /\ on' = on /\ Write(e)
    BY <1>5 DEF CreatePlan, Exists
  <2>3. disabled \in Times /\ Moved(Never, disabled)
    BY <1>a DEF Moved
  <2>4. withdrawn \in [Models -> Times] /\ \A m \in Models : Moved(Never, withdrawn[m])
    BY <1>a DEF Moved
  <2> HIDE DEF p, disabled, withdrawn
  <2>5. DbStep
    BY <2>1, <2>2, <2>3, <2>4, SetPlanSteps
  <2> QED
    BY <2>2, <2>5, <1>a DEF WriteStep
<1>6. CASE DeletePlan(e)
  <2>1. off' = off /\ on' = on /\ Write(e)
        /\ plans' = [plans EXCEPT ![edit[e].plan] = None]
        /\ planOf' = [t \in Tenants |->
             IF edit[e].inUse /\ edit[e].plan # Free /\ planOf[t].plan = edit[e].plan
             THEN [plan |-> Free, since |-> now] ELSE planOf[t]]
    BY <1>6 DEF DeletePlan
  <2>2. [plan |-> Free, since |-> now] \in TenantRows
        /\ [plan |-> Free, since |-> now].since = now
    BY <1>a DEF TenantRows
  <2>3. planOf' \in [Tenants -> TenantRows]
        /\ \A t \in Tenants : planOf'[t] = planOf[t] \/ planOf'[t].since = now
    BY <2>1, <2>2, <1>a
  <2>4. plans' \in [Plans -> PlanRows \cup {None}]
        /\ \A p \in Plans : plans'[p] = None \/ plans'[p] = plans[p]
    BY <2>1, <1>a
  <2> QED
    BY <2>1, <2>3, <2>4, <1>a DEF WriteStep, DbStep, MovedPlan, Moved
<1>7. ASSUME NEW p \in Plans, NEW enabled \in BOOLEAN \cup {None},
             NEW allowed \in SUBSET Models \cup {None}, UpdatePlan(e, p, enabled, allowed)
      PROVE  WriteStep(e)
  <2> DEFINE disabled == IF enabled = None THEN plans[p].disabled
                         ELSE Since(enabled, plans[p].disabled)
             withdrawn == IF allowed = None THEN plans[p].withdrawn
                          ELSE Entitled(plans[p].withdrawn, allowed)
  <2>1. plans[p] # None /\ SetPlan(p, disabled, withdrawn)
        /\ off' = off /\ planOf' = planOf /\ on' = on /\ Write(e)
    BY <1>7 DEF UpdatePlan, Exists
  <2>2. plans[p].disabled \in Times /\ plans[p].withdrawn \in [Models -> Times]
    BY <2>1, <1>b
  <2>3. disabled \in Times /\ Moved(plans[p].disabled, disabled)
    <3>1. CASE enabled = None
      BY <3>1, <2>2 DEF Moved
    <3>2. CASE enabled # None
      <4>1. enabled \in BOOLEAN
        BY <3>2
      <4> QED
        BY <3>2, <4>1, <2>2, SinceMoves
    <3> QED
      BY <3>1, <3>2
  <2>4. withdrawn \in [Models -> Times]
        /\ \A m \in Models : Moved(plans[p].withdrawn[m], withdrawn[m])
    <3>1. CASE allowed = None
      BY <3>1, <2>2 DEF Moved
    <3>2. CASE allowed # None
      <4>1. ASSUME NEW m \in Models
            PROVE  /\ Moved(plans[p].withdrawn[m], Since(m \in allowed, plans[p].withdrawn[m]))
                   /\ Since(m \in allowed, plans[p].withdrawn[m]) \in Times
        <5> DEFINE kept == m \in allowed
                   time == plans[p].withdrawn[m]
        <5>1. kept \in BOOLEAN /\ time \in Times
          BY <2>2
        <5> HIDE DEF kept, time
        <5>2. Moved(time, Since(kept, time)) /\ Since(kept, time) \in Times
          BY <5>1, SinceMoves
        <5> QED
          BY <5>2 DEF kept, time
      <4>2. withdrawn = [m \in Models |-> Since(m \in allowed, plans[p].withdrawn[m])]
        BY <3>2 DEF Entitled
      <4> HIDE DEF withdrawn
      <4> QED
        BY <4>1, <4>2
    <3> QED
      BY <3>1, <3>2
  <2> HIDE DEF disabled, withdrawn
  <2>5. DbStep
    BY <2>1, <2>3, <2>4, SetPlanSteps
  <2> QED
    BY <2>1, <2>5, <1>a DEF WriteStep
<1>8. ASSUME NEW p \in Plans, NEW enabled \in BOOLEAN \cup {None},
             NEW allowed \in SUBSET Models \cup {None},
             UpdatePlanAiConfiguration(e, p, enabled, allowed)
      PROVE  WriteStep(e)
  BY <1>7, <1>8 DEF UpdatePlanAiConfiguration
<1>9. ASSUME NEW b \in BOOLEAN, ToggleGlobalAiKillswitch(e, b) PROVE WriteStep(e)
  BY <1>9, <1>a DEF ToggleGlobalAiKillswitch, WriteStep, DbStep, MovedPlan, Moved
<1> QED
  BY <1>1, <1>2, <1>3, <1>4, <1>5, <1>6, <1>7, <1>8, <1>9

-----------------------------------------------------------------------------
\* Requests.

LEMMA RequestTyped ==
  ASSUME TypeOK, NEW r \in Requests, req[r] # None
  PROVE  /\ req[r] \in RequestStates
         /\ req[r].tenant \in Tenants
         /\ req[r].start \in Times /\ req[r].start \in Nat
         /\ req[r].answer \in Answers
         /\ req[r].answer.plan \in Plans
         /\ req[r].answer.models \subseteq Models
BY NeverIsTime DEF TypeOK, RequestStates, Answers


LEMMA AnswersTyped ==
  /\ Unread \in Answers
  /\ \A p \in Plans : [Unread EXCEPT !.plan = p] \in Answers
  /\ \A p \in Plans, b \in BOOLEAN, own \in BOOLEAN, M \in SUBSET Models :
       [plan |-> p, enabled |-> b, own |-> own, models |-> M, sure |-> TRUE] \in Answers
  /\ \A a \in Answers : Doubtful(a) \in Answers
  /\ \A a \in Answers, M \in SUBSET Models : [a EXCEPT !.models = M] \in Answers
<1>1. Unread \in Answers
  BY DEF Unread, Answers
<1>2. \A p \in Plans : [Unread EXCEPT !.plan = p] \in Answers
  BY DEF Unread, Answers
<1>3. ASSUME NEW p \in Plans, NEW b \in BOOLEAN, NEW own \in BOOLEAN, NEW M \in SUBSET Models
      PROVE  [plan |-> p, enabled |-> b, own |-> own, models |-> M, sure |-> TRUE] \in Answers
  BY DEF Answers
<1>4. ASSUME NEW a \in Answers PROVE Doubtful(a) \in Answers
  BY DEF Doubtful, Answers
<1>5. ASSUME NEW a \in Answers, NEW M \in SUBSET Models PROVE [a EXCEPT !.models = M] \in Answers
  BY DEF Answers
<1> QED
  BY <1>1, <1>2, <1>3, <1>4, <1>5

\* Where GoTo takes a request.
LEMMA Goes ==
  ASSUME TypeOK, NEW r \in Requests, req[r] # None, NEW a \in Answers,
         NEW at \in {"cache", "tenant", "plan", "fallback", "fill", "judge"}, GoTo(r, at, a)
  PROVE  /\ req' \in [Requests -> RequestStates \cup {None}]
         /\ \E q \in RequestStates : req' = [req EXCEPT ![r] = q]
         /\ \A s \in Requests : s # r => req'[s] = req[s]
         /\ req'[r] # None
         /\ req'[r].tenant = req[r].tenant
         /\ req'[r].start = req[r].start
         /\ req'[r].answer = a
         /\ req'[r].at = at
<1> DEFINE q == [tenant |-> req[r].tenant, start |-> req[r].start, answer |-> a, at |-> at]
<1>1. q \in RequestStates /\ q # None /\ q.tenant = req[r].tenant /\ q.start = req[r].start
      /\ q.answer = a /\ q.at = at
  <2>1. req[r].tenant \in Tenants /\ req[r].start \in Times
    BY RequestTyped
  <2>2. q \in RequestStates
    BY <2>1 DEF RequestStates
  <2> QED
    BY <2>2
<1>2. req' = [req EXCEPT ![r] = q]
  BY DEF GoTo
<1> HIDE DEF q
<1>3. req \in [Requests -> RequestStates \cup {None}]
  BY DEF TypeOK
<1> QED
  BY <1>1, <1>2, <1>3

LEMMA FallbacksTyped == \A F \in Fallbacks : F \subseteq Available
BY DEF Fallbacks, First, Available

\* What each step of a request does, the types included.
LEMMA RequestTypes ==
  ASSUME TypeOK, NEW r \in Requests, Request(r)
  PROVE  /\ UNCHANGED dbVars
         /\ req' \in [Requests -> RequestStates \cup {None}]
         /\ cache' \in [Tenants -> Entries \cup {None}]
<1> USE RequestTyped, AnswersTyped
<1>a. req \in [Requests -> RequestStates \cup {None}]
      /\ cache \in [Tenants -> Entries \cup {None}] /\ now \in Times /\ now \in Nat
      /\ planOf \in [Tenants -> TenantRows]
  BY NeverIsTime DEF TypeOK
<1>1. ASSUME NEW t \in Tenants, Ask(r, t)
      PROVE  req' \in [Requests -> RequestStates \cup {None}] /\ cache' = cache
             /\ UNCHANGED dbVars
  <2> DEFINE q == [tenant |-> t, start |-> now, answer |-> Unread, at |-> "cache"]
  <2>1. q \in RequestStates
    BY <1>a DEF RequestStates
  <2>2. req' = [req EXCEPT ![r] = q] /\ cache' = cache /\ UNCHANGED dbVars
    BY <1>1 DEF Ask
  <2> HIDE DEF q
  <2> QED
    BY <1>a, <2>1, <2>2
<1>2. CASE Hit(r)
  <2>1. req[r] # None /\ cache[req[r].tenant] # None /\ cache' = cache /\ UNCHANGED dbVars
        /\ GoTo(r, "judge", cache[req[r].tenant].answer)
    BY <1>2 DEF Hit, At, Live
  <2>2. cache[req[r].tenant].answer \in Answers
    BY <1>a, <2>1 DEF Entries
  <2> QED
    BY <1>a, <2>1, <2>2, Goes
<1>3. CASE Bypass(r)
  BY <1>a, <1>3, Goes DEF Bypass, At
<1>4. CASE ReadTenant(r)
  <2>1. req[r] # None /\ cache' = cache /\ UNCHANGED dbVars
        /\ GoTo(r, "plan", [Unread EXCEPT !.plan = planOf[req[r].tenant].plan])
    BY <1>4 DEF ReadTenant, At
  <2>2. planOf[req[r].tenant].plan \in Plans
    BY <1>a, <2>1 DEF TenantRows
  <2> QED
    BY <1>a, <2>1, <2>2, Goes
<1>5. CASE ReadPlan(r)
  <2> DEFINE p == req[r].answer.plan
             own == Offered(p) # {}
             a == [plan |-> p, enabled |-> Enabled(p), own |-> own, models |-> Offered(p),
                   sure |-> TRUE]
             at == IF own THEN "fill" ELSE "fallback"
  <2>1. req[r] # None /\ cache' = cache /\ UNCHANGED dbVars /\ GoTo(r, at, a)
    BY <1>5 DEF ReadPlan, At
  <2>2. p \in Plans /\ Enabled(p) \in BOOLEAN /\ own \in BOOLEAN /\ Offered(p) \in SUBSET Models
    BY <2>1 DEF Enabled, Offered, Available
  <2>3. a \in Answers
    BY <2>2
  <2>4. at \in {"fallback", "fill"}
    OBVIOUS
  <2> HIDE DEF a, at
  <2> QED
    BY <1>a, <2>1, <2>3, <2>4, Goes
<1>6. CASE ReadFallback(r)
  <2>1. PICK F \in Fallbacks : GoTo(r, "fill", [req[r].answer EXCEPT !.models = F])
    BY <1>6 DEF ReadFallback
  <2>2. req[r] # None /\ cache' = cache /\ UNCHANGED dbVars
    BY <1>6 DEF ReadFallback, At
  <2>3. F \in SUBSET Models
    BY FallbacksTyped DEF Available
  <2> QED
    BY <1>a, <2>1, <2>2, <2>3, Goes
<1>7. CASE Fill(r)
  <2>1. req[r] # None /\ UNCHANGED dbVars /\ GoTo(r, "judge", req[r].answer)
        /\ cache' = [cache EXCEPT ![req[r].tenant] = Stored(req[r].answer)]
    BY <1>7 DEF Fill, At
  <2>2. Stored(req[r].answer) \in Entries
    BY <1>a, <2>1 DEF Stored, Entries
  <2> QED
    BY <1>a, <2>1, <2>2, Goes
<1>8. CASE FillFails(r)
  BY <1>a, <1>8, Goes DEF FillFails, At
<1>9. CASE Answer(r)
  BY <1>a, <1>9 DEF Answer
<1> QED
  BY <1>a, <1>1, <1>2, <1>3, <1>4, <1>5, <1>6, <1>7, <1>8, <1>9 DEF Request

-----------------------------------------------------------------------------
\* Checks, clearings, and the types.

\* Requests keep all but whether their answer is sure.
LEMMA OvertakenTyped ==
  ASSUME NEW q \in RequestStates \cup {None}
  PROVE  /\ Overtaken(q) \in RequestStates \cup {None}
         /\ (Overtaken(q) = None) = (q = None)
         /\ q # None =>
              /\ Overtaken(q).tenant = q.tenant
              /\ Overtaken(q).start = q.start
              /\ Overtaken(q).at = q.at
              /\ Overtaken(q).answer = q.answer \/ Overtaken(q).answer = Doubtful(q.answer)
              /\ q.at \in {"fallback", "fill"} => Overtaken(q).answer = Doubtful(q.answer)
<1>1. CASE q # None /\ q.at \in {"fallback", "fill"}
  <2> DEFINE a == Doubtful(q.answer)
             s == [tenant |-> q.tenant, start |-> q.start, answer |-> a, at |-> q.at]
  <2>1. q \in RequestStates /\ q.answer \in Answers
    BY <1>1 DEF RequestStates
  <2>2. a \in Answers
    BY <2>1, AnswersTyped
  <2>3. Overtaken(q) = s
    BY <1>1 DEF Overtaken
  <2> HIDE DEF a
  <2>4. s \in RequestStates /\ s.tenant = q.tenant /\ s.start = q.start /\ s.answer = a
        /\ s.at = q.at
    BY <2>1, <2>2 DEF RequestStates
  <2> HIDE DEF s
  <2>5. s # None
    BY <2>4
  <2> QED
    BY <1>1, <2>3, <2>4, <2>5 DEF a
<1>2. CASE ~(q # None /\ q.at \in {"fallback", "fill"})
  BY <1>2 DEF Overtaken
<1> QED
  BY <1>1, <1>2

LEMMA EditsStep ==
  ASSUME TypeOK, NEW e \in Editors, Check(e) \/ Fail(e)
  PROVE  EditStep(e)
<1>1. ASSUME NEW d \in Edits, Decide(e, d) PROVE EditStep(e)
  BY <1>1 DEF Decide, EditStep
<1>2. ASSUME NEW m \in Models, CheckDefaultModel(e, m) PROVE EditStep(e)
  <2>1. [op |-> "default", model |-> m] \in Edits
    BY DEF Edits, Decisions
  <2> QED
    BY <1>1, <1>2, <2>1 DEF CheckDefaultModel
<1>3. ASSUME NEW p \in Plans, NEW m \in Models, CheckPlanDefaultModel(e, p, m)
      PROVE  EditStep(e)
  <2>1. [op |-> "planDefault", plan |-> p, model |-> m] \in Edits
    BY DEF Edits, Decisions
  <2> QED
    BY <1>1, <1>3, <2>1 DEF CheckPlanDefaultModel
<1>4. ASSUME NEW p \in Plans, NEW enabled \in BOOLEAN, NEW allowed \in SUBSET Models,
             CheckNewPlan(e, p, enabled, allowed)
      PROVE  EditStep(e)
  <2>1. [op |-> "create", plan |-> p, enabled |-> enabled, allowed |-> allowed] \in Edits
    BY DEF Edits, Decisions
  <2> QED
    BY <1>1, <1>4, <2>1 DEF CheckNewPlan
<1>5. ASSUME NEW p \in Plans, CheckPlanInUse(e, p) PROVE EditStep(e)
  <2> DEFINE inUse == \E t \in Tenants : planOf[t].plan = p
  <2>1. inUse \in BOOLEAN
    OBVIOUS
  <2>2. Decide(e, [op |-> "delete", plan |-> p, inUse |-> inUse])
    BY <1>5 DEF CheckPlanInUse
  <2> HIDE DEF inUse
  <2>3. [op |-> "delete", plan |-> p, inUse |-> inUse] \in Edits
    BY <2>1 DEF Edits, Decisions
  <2> QED
    BY <1>1, <2>2, <2>3
<1>6. CASE Fail(e)
  BY <1>6 DEF Fail, EditStep
<1> QED
  BY <1>2, <1>3, <1>4, <1>5, <1>6 DEF Check

\* Every step is of one of the kinds.
LEMMA Steps ==
  ASSUME TypeOK, Next
  PROVE  \/ Tick
         \/ \E r \in Requests : Request(r)
         \/ \E e \in Editors : WriteStep(e) \/ EditStep(e) \/ ClearStep(e)
         \/ \E t \in Tenants, p \in Plans : ChangePlan(t, p)
<1>1. ASSUME NEW e \in Editors, Edit(e) PROVE WriteStep(e) \/ EditStep(e)
  BY <1>1, WritesStep, EditsStep DEF Edit
<1>2. ASSUME NEW e \in Editors, Check(e) PROVE EditStep(e)
  BY <1>2, EditsStep
<1>3. ASSUME NEW e \in Editors, Invalidate(e) PROVE ClearStep(e)
  BY <1>3 DEF Invalidate, ClearStep
<1> QED
  BY <1>1, <1>2, <1>3 DEF Next

LEMMA LeftTyped ==
  ASSUME NEW S \in SUBSET Tenants
  PROVE  /\ Left(S) \in Edits \cup {None}
         /\ S # {} => Left(S) # None /\ Left(S).op = "clear" /\ Left(S).tenants = S
<1>1. [op |-> "clear", tenants |-> S] \in Edits
  BY DEF Edits
<1> QED
  BY <1>1 DEF Left

LEMMA DoubtfulEntry ==
  ASSUME NEW c \in Entries
  PROVE  LET d == [answer |-> Doubtful(c.answer), expires |-> c.expires] IN d \in Entries
<1>1. c.answer \in Answers /\ c.expires \in Nat
  BY DEF Entries
<1>2. Doubtful(c.answer) \in Answers
  BY <1>1, AnswersTyped
<1> QED
  BY <1>1, <1>2 DEF Entries

LEMMA TypesKept ==
  ASSUME TypeOK, Next
  PROVE  TypeOK'
<1> USE NeverIsTime
<1>a. now \in 0 .. MaxTime /\ on \in BOOLEAN /\ off \in [Models -> Times]
      /\ plans \in [Plans -> PlanRows \cup {None}] /\ planOf \in [Tenants -> TenantRows]
      /\ cache \in [Tenants -> Entries \cup {None}]
      /\ req \in [Requests -> RequestStates \cup {None}]
      /\ edit \in [Editors -> Edits \cup {None}]
      /\ changes \in 0 .. MaxChanges
  BY DEF TypeOK
<1>1. CASE Tick
  <2>1. now' \in 0 .. MaxTime
    BY <1>1, <1>a DEF Tick
  <2> QED
    BY <1>1, <1>a, <2>1 DEF Tick, TypeOK
<1>2. ASSUME NEW r \in Requests, Request(r) PROVE TypeOK'
  <2>1. UNCHANGED dbVars /\ req' \in [Requests -> RequestStates \cup {None}]
        /\ cache' \in [Tenants -> Entries \cup {None}]
    BY <1>2, RequestTypes
  <2> QED
    BY <1>a, <2>1 DEF dbVars, TypeOK
<1>3. ASSUME NEW e \in Editors, WriteStep(e) PROVE TypeOK'
  <2>1. now' = now /\ cache' = cache /\ on' \in BOOLEAN
        /\ off' \in [Models -> Times] /\ plans' \in [Plans -> PlanRows \cup {None}]
        /\ planOf' \in [Tenants -> TenantRows]
    BY <1>3 DEF WriteStep, Write, DbStep
  <2>2. changes' \in 0 .. MaxChanges
    BY <1>3, <1>a DEF WriteStep, Write
  <2>3. req' \in [Requests -> RequestStates \cup {None}]
    BY <1>3, <1>a, OvertakenTyped DEF WriteStep, Write
  <2>4. Listing \in Edits
    BY DEF Listing, Edits
  <2>5. edit' \in [Editors -> Edits \cup {None}]
    BY <1>3, <1>a, <2>4 DEF WriteStep, Write
  <2> QED
    BY <1>a, <2>1, <2>2, <2>3, <2>5 DEF TypeOK
<1>4. ASSUME NEW e \in Editors, EditStep(e) PROVE TypeOK'
  <2>1. edit' \in [Editors -> Edits \cup {None}]
    BY <1>4, <1>a DEF EditStep
  <2> QED
    BY <1>4, <1>a, <2>1 DEF EditStep, TypeOK
<1>5. ASSUME NEW e \in Editors, ClearStep(e) PROVE TypeOK'
  <2>1. CASE List(e)
    <3>1. Left({t \in Tenants : Live(t)}) \in Edits \cup {None}
      BY LeftTyped
    <3>2. edit' \in [Editors -> Edits \cup {None}]
      BY <2>1, <3>1, <1>a DEF List
    <3> QED
      BY <2>1, <3>2, <1>a DEF List, TypeOK
  <2>2. ASSUME NEW t \in Tenants, Clear(e, t) PROVE TypeOK'
    <3>1. edit[e] \in Edits /\ edit[e].op = "clear"
      BY <2>2, <1>a DEF Clear, Decided
    <3>2. edit[e].tenants \ {t} \in SUBSET Tenants
      BY <3>1 DEF Edits, Decisions
    <3>3. Left(edit[e].tenants \ {t}) \in Edits \cup {None}
      BY <3>2, LeftTyped
    <3>4. edit' \in [Editors -> Edits \cup {None}] /\ cache' \in [Tenants -> Entries \cup {None}]
      BY <2>2, <3>3, <1>a DEF Clear
    <3> QED
      BY <2>2, <3>4, <1>a DEF Clear, TypeOK
  <2>3. CASE ClearFails(e)
    <3>1. ASSUME NEW t \in Tenants
          PROVE  (IF cache[t] = None THEN None
                  ELSE [answer |-> Doubtful(cache[t].answer), expires |-> cache[t].expires])
                 \in Entries \cup {None}
      BY <1>a, DoubtfulEntry
    <3>2. cache' \in [Tenants -> Entries \cup {None}] /\ edit' \in [Editors -> Edits \cup {None}]
      BY <2>3, <3>1, <1>a DEF ClearFails
    <3> QED
      BY <2>3, <3>2, <1>a DEF ClearFails, TypeOK
  <2> QED
    BY <1>5, <2>1, <2>2, <2>3 DEF ClearStep
<1>6. ASSUME NEW t \in Tenants, NEW p \in Plans, ChangePlan(t, p) PROVE TypeOK'
  <2>1. [plan |-> p, since |-> now] \in TenantRows
    BY <1>a DEF TenantRows
  <2>2. planOf' \in [Tenants -> TenantRows] /\ changes' \in 0 .. MaxChanges
    BY <1>6, <1>a, <2>1 DEF ChangePlan
  <2> QED
    BY <1>6, <1>a, <2>2 DEF ChangePlan, TypeOK
<1> QED
  BY <1>1, <1>2, <1>3, <1>4, <1>5, <1>6, Steps

\* Every reachable state is well typed.
THEOREM TypeInvariant == Spec => []TypeOK
<1>1. Init => TypeOK
  <2> SUFFICES ASSUME Init PROVE TypeOK
    OBVIOUS
  <2>1. ASSUME NEW p \in Plans
        PROVE  [disabled |-> Never,
                withdrawn |-> [m \in Models |-> IF m \in Seeded[p] THEN Never ELSE 0]] \in PlanRows
    BY NeverIsTime DEF PlanRows, Times
  <2>2. plans \in [Plans -> PlanRows \cup {None}]
    BY <2>1 DEF Init
  <2>3. [plan |-> Free, since |-> 0] \in TenantRows
    BY NeverIsTime DEF TenantRows, Times
  <2>4. planOf \in [Tenants -> TenantRows]
    BY <2>3 DEF Init
  <2> QED
    BY <2>2, <2>4, NeverIsTime DEF Init, TypeOK
<1>2. TypeOK /\ [Next]_vars => TypeOK'
  <2>1. ASSUME TypeOK, UNCHANGED vars PROVE TypeOK'
    BY <2>1 DEF vars, TypeOK
  <2> QED
    BY <2>1, TypesKept
<1> QED
  BY <1>1, <1>2, PTL DEF Spec

-----------------------------------------------------------------------------
\* What is withdrawn, and when.

\* RightsWithin, told the models, the plans and the tenants.
Rights(a, t, time, slack, O, P, W) ==
  /\ a.plan # W[t].plan => time <= W[t].since + slack
  /\ \A m \in a.models : Within(time, O[m], slack)
  /\ P[a.plan] # None =>
       /\ a.enabled => Within(time, P[a.plan].disabled, slack)
       /\ a.own => \A m \in a.models : Within(time, P[a.plan].withdrawn[m], slack)

\* What a request holds: what is gone of it went while it was resolved, or no longer than
\* Span + Ttl before it began.
Held(q, n, O, P, W) ==
  /\ q.start <= n
  /\ q.at # "judge" => n <= q.start + Span
  /\ q.at = "plan" => q.answer.models = {} /\ ~q.answer.enabled
  /\ q.at = "fallback" => ~q.answer.own
  /\ q.at \in {"plan", "fallback", "fill"} => Rights(q.answer, q.tenant, q.start, 0, O, P, W)
  /\ q.at = "judge" => Rights(q.answer, q.tenant, q.start, Span + Ttl, O, P, W)

\* What an entry says: what is gone of it went at most Span + Ttl before it expires.
Kept(c, t, n, O, P, W) ==
  /\ c.expires <= n + Ttl
  /\ Rights(c.answer, t, c.expires, Span + Ttl, O, P, W)

RInv ==
  /\ \A r \in Requests : req[r] # None => Held(req[r], now, off, plans, planOf)
  /\ \A t \in Tenants : cache[t] # None => Kept(cache[t], t, now, off, plans, planOf)

LEMMA RInvSuffices == RInv => WithdrawnWithinTtl
BY DEF RInv, Held, WithdrawnWithinTtl, At, Rights, RightsWithin, Exists

\* A bound that is weaker.
LEMMA RightsWeaken ==
  ASSUME TypeOK, NEW a \in Answers, NEW t \in Tenants,
         NEW time \in Nat, NEW slack \in Nat, NEW later \in Nat, NEW more \in Nat,
         later + slack <= time + more, Rights(a, t, time, slack, off, plans, planOf)
  PROVE  Rights(a, t, later, more, off, plans, planOf)
<1>1. a.plan \in Plans /\ a.models \subseteq Models
  BY DEF Answers
<1>2. planOf[t].since \in Nat /\ \A m \in Models : off[m] \in Nat
  BY NeverIsTime DEF TypeOK, TenantRows
<1>3. plans[a.plan] # None =>
        /\ plans[a.plan].disabled \in Nat
        /\ \A m \in Models : plans[a.plan].withdrawn[m] \in Nat
  BY <1>1, NeverIsTime DEF TypeOK, PlanRows
<1>4. ASSUME NEW x \in Nat, Within(time, x, slack) PROVE Within(later, x, more)
  BY <1>4 DEF Within
<1>5. a.plan # planOf[t].plan => later <= planOf[t].since + more
  BY <1>2 DEF Rights
<1>6. \A m \in a.models : Within(later, off[m], more)
  BY <1>1, <1>2, <1>4 DEF Rights
<1>7. plans[a.plan] # None =>
        /\ a.enabled => Within(later, plans[a.plan].disabled, more)
        /\ a.own => \A m \in a.models : Within(later, plans[a.plan].withdrawn[m], more)
  BY <1>1, <1>3, <1>4 DEF Rights
<1> QED
  BY <1>5, <1>6, <1>7 DEF Rights

\* What goes now cannot break a bound on a time that is not past the slack.
LEMMA RightsMove ==
  ASSUME TypeOK, DbStep, NEW a \in Answers, NEW t \in Tenants,
         NEW time \in Nat, NEW slack \in Nat,
         time <= now + slack, Rights(a, t, time, slack, off, plans, planOf)
  PROVE  Rights(a, t, time, slack, off', plans', planOf')
<1>1. a.plan \in Plans /\ a.models \subseteq Models
  BY DEF Answers
<1>2. ASSUME NEW old, NEW new, Moved(old, new), Within(time, old, slack)
      PROVE  Within(time, new, slack)
  BY <1>2 DEF Moved, Within
<1>3. a.plan # planOf'[t].plan => time <= planOf'[t].since + slack
  BY DEF Rights, DbStep
<1>4. \A m \in a.models : Within(time, off'[m], slack)
  BY <1>1, <1>2 DEF Rights, DbStep
<1>5. ASSUME plans'[a.plan] # None
      PROVE  /\ a.enabled => Within(time, plans'[a.plan].disabled, slack)
             /\ a.own => \A m \in a.models : Within(time, plans'[a.plan].withdrawn[m], slack)
  <2>0. MovedPlan(a.plan)
    BY <1>1 DEF DbStep
  <2>1. CASE plans[a.plan] # None
    <3>1. /\ Moved(plans[a.plan].disabled, plans'[a.plan].disabled)
          /\ \A m \in Models : Moved(plans[a.plan].withdrawn[m], plans'[a.plan].withdrawn[m])
      BY <1>5, <2>0, <2>1 DEF MovedPlan
    <3>2. /\ a.enabled => Within(time, plans[a.plan].disabled, slack)
          /\ a.own => \A m \in a.models : Within(time, plans[a.plan].withdrawn[m], slack)
      BY <2>1 DEF Rights
    <3> QED
      BY <1>1, <1>2, <3>1, <3>2
  <2>2. CASE plans[a.plan] = None
    <3>1. /\ Moved(Never, plans'[a.plan].disabled)
          /\ \A m \in Models : Moved(Never, plans'[a.plan].withdrawn[m])
      BY <1>5, <2>0, <2>2 DEF MovedPlan
    <3>2. Within(time, Never, slack)
      BY DEF Within
    <3> QED
      BY <1>1, <1>2, <3>1, <3>2
  <2> QED
    BY <2>1, <2>2
<1> QED
  BY <1>3, <1>4, <1>5 DEF Rights

\* Being sure of an answer adds nothing to what it allows.
LEMMA RightsDoubtful ==
  ASSUME NEW a \in Answers, NEW t, NEW time, NEW slack, NEW O, NEW P, NEW W,
         Rights(a, t, time, slack, O, P, W)
  PROVE  Rights(Doubtful(a), t, time, slack, O, P, W)
<1>1. /\ Doubtful(a).plan = a.plan /\ Doubtful(a).own = a.own
      /\ Doubtful(a).models = a.models /\ Doubtful(a).enabled = a.enabled
  BY DEF Doubtful, Answers
<1> QED
  BY <1>1 DEF Rights

LEMMA HeldDoubtful ==
  ASSUME NEW q \in RequestStates, NEW n, NEW O, NEW P, NEW W, Held(q, n, O, P, W)
  PROVE  Held(Overtaken(q), n, O, P, W)
<1>1. CASE q.at \in {"fallback", "fill"}
  <2>1. q.answer \in Answers /\ q # None
    BY DEF RequestStates
  <2>2. /\ Overtaken(q).tenant = q.tenant /\ Overtaken(q).start = q.start
        /\ Overtaken(q).at = q.at /\ Overtaken(q).answer = Doubtful(q.answer)
    BY <1>1, <2>1, OvertakenTyped
  <2>3. Doubtful(q.answer).own = q.answer.own
    BY <2>1 DEF Doubtful, Answers
  <2>4. Rights(q.answer, q.tenant, q.start, 0, O, P, W)
    BY <1>1 DEF Held
  <2>5. Rights(Doubtful(q.answer), q.tenant, q.start, 0, O, P, W)
    BY <2>1, <2>4, RightsDoubtful
  <2> QED
    BY <1>1, <2>2, <2>3, <2>5 DEF Held
<1>2. CASE q.at \notin {"fallback", "fill"}
  BY <1>2 DEF Overtaken
<1> QED
  BY <1>1, <1>2

\* A write of the database: what is held stays held.
LEMMA HeldMoves ==
  ASSUME TypeOK, DbStep, NEW q \in RequestStates, Held(q, now, off, plans, planOf)
  PROVE  Held(q, now, off', plans', planOf')
<1>1. q.answer \in Answers /\ q.tenant \in Tenants /\ q.start \in Nat /\ now \in Nat
  BY NeverIsTime DEF RequestStates, TypeOK
<1>2. q.start <= now + 0 /\ q.start <= now + (Span + Ttl) /\ Span + Ttl \in Nat
  BY <1>1 DEF Held
<1>3. ASSUME Rights(q.answer, q.tenant, q.start, 0, off, plans, planOf)
      PROVE  Rights(q.answer, q.tenant, q.start, 0, off', plans', planOf')
  BY <1>1, <1>2, <1>3, RightsMove
<1>4. ASSUME Rights(q.answer, q.tenant, q.start, Span + Ttl, off, plans, planOf)
      PROVE  Rights(q.answer, q.tenant, q.start, Span + Ttl, off', plans', planOf')
  BY <1>1, <1>2, <1>4, RightsMove
<1> QED
  BY <1>3, <1>4 DEF Held

LEMMA KeptMoves ==
  ASSUME TypeOK, DbStep, NEW t \in Tenants, NEW c \in Entries,
         Kept(c, t, now, off, plans, planOf)
  PROVE  Kept(c, t, now, off', plans', planOf')
<1>1. c.answer \in Answers /\ c.expires \in Nat /\ now \in Nat
  BY NeverIsTime DEF Entries, TypeOK
<1>2. c.expires <= now + (Span + Ttl) /\ Span + Ttl \in Nat
  BY <1>1 DEF Kept
<1>3. Rights(c.answer, t, c.expires, Span + Ttl, off', plans', planOf')
  BY <1>1, <1>2, RightsMove DEF Kept
<1> QED
  BY <1>3 DEF Kept

\* Steps of one request: what it holds afterwards, and what it writes.
LEMMA RequestHolds ==
  ASSUME TypeOK, RInv, NEW r \in Requests, Request(r)
  PROVE  /\ req'[r] # None => Held(req'[r], now, off, plans, planOf)
         /\ \A s \in Requests : s # r => req'[s] = req[s]
         /\ \A t \in Tenants : cache'[t] # cache[t] => Kept(cache'[t], t, now, off, plans, planOf)
<1> USE RequestTyped, AnswersTyped
<1>a. req \in [Requests -> RequestStates \cup {None}]
      /\ cache \in [Tenants -> Entries \cup {None}] /\ now \in Nat
  BY NeverIsTime DEF TypeOK
<1>b. req[r] # None => Held(req[r], now, off, plans, planOf)
  BY DEF RInv
<1>1. ASSUME NEW t \in Tenants, Ask(r, t)
      PROVE  /\ req'[r] # None => Held(req'[r], now, off, plans, planOf)
             /\ \A s \in Requests : s # r => req'[s] = req[s]
             /\ cache' = cache
  <2> DEFINE q == [tenant |-> t, start |-> now, answer |-> Unread, at |-> "cache"]
  <2>1. q.start = now /\ q.at = "cache"
    OBVIOUS
  <2>2. req' = [req EXCEPT ![r] = q] /\ cache' = cache
    BY <1>1 DEF Ask
  <2> HIDE DEF q
  <2>3. Held(q, now, off, plans, planOf)
    BY <1>a, <2>1 DEF Held
  <2> QED
    BY <1>a, <2>2, <2>3
<1>2. CASE Hit(r)
  <2> DEFINE t == req[r].tenant
             a == cache[t].answer
  <2>1. req[r] # None /\ cache[t] # None /\ now < cache[t].expires /\ cache' = cache
        /\ GoTo(r, "judge", a)
    BY <1>2 DEF Hit, At, Live
  <2>2. t \in Tenants /\ req[r].start \in Nat /\ cache[t] \in Entries
    BY <1>a, <2>1
  <2>3. a \in Answers /\ cache[t].expires \in Nat
    BY <2>2 DEF Entries
  <2>4. Rights(a, t, cache[t].expires, Span + Ttl, off, plans, planOf) /\ req[r].start <= now
    BY <1>b, <2>1, <2>2 DEF RInv, Kept, Held
  <2>5. Rights(a, t, req[r].start, Span + Ttl, off, plans, planOf)
    <3>1. req[r].start + (Span + Ttl) <= cache[t].expires + (Span + Ttl) /\ Span + Ttl \in Nat
      BY <1>a, <2>1, <2>2, <2>3, <2>4
    <3> QED
      BY <2>2, <2>3, <2>4, <3>1, RightsWeaken
  <2>6. req'[r].tenant = t /\ req'[r].start = req[r].start /\ req'[r].answer = a
        /\ req'[r].at = "judge" /\ \A s \in Requests : s # r => req'[s] = req[s]
    BY <2>1, <2>3, Goes
  <2> QED
    BY <2>1, <2>4, <2>5, <2>6 DEF Held
<1>3. CASE Bypass(r)
  <2>1. req[r] # None /\ req[r].at = "cache" /\ cache' = cache /\ GoTo(r, "tenant", Unread)
    BY <1>3 DEF Bypass, At
  <2>2. req'[r].start = req[r].start /\ req'[r].at = "tenant"
        /\ \A s \in Requests : s # r => req'[s] = req[s]
    BY <2>1, Goes
  <2> QED
    BY <1>b, <2>1, <2>2 DEF Held
<1>4. CASE ReadTenant(r)
  <2> DEFINE t == req[r].tenant
             a == [Unread EXCEPT !.plan = planOf[t].plan]
  <2>1. req[r] # None /\ req[r].at = "tenant" /\ cache' = cache /\ GoTo(r, "plan", a)
    BY <1>4 DEF ReadTenant, At
  <2>2. t \in Tenants /\ planOf[t].plan \in Plans
    BY <2>1 DEF TypeOK, TenantRows
  <2>3. a \in Answers
    BY <2>2
  <2>4. a.plan = planOf[t].plan /\ a.models = {} /\ ~a.enabled /\ ~a.own
    BY DEF Unread
  <2> HIDE DEF a
  <2>5. req'[r].tenant = t /\ req'[r].start = req[r].start /\ req'[r].answer = a
        /\ req'[r].at = "plan" /\ \A s \in Requests : s # r => req'[s] = req[s]
    BY <2>1, <2>3, Goes
  <2>6. Rights(a, t, req[r].start, 0, off, plans, planOf)
    BY <2>4 DEF Rights
  <2> QED
    BY <1>b, <2>1, <2>4, <2>5, <2>6 DEF Held
<1>5. CASE ReadPlan(r)
  <2> DEFINE t == req[r].tenant
             p == req[r].answer.plan
             own == Offered(p) # {}
             a == [plan |-> p, enabled |-> Enabled(p), own |-> own, models |-> Offered(p),
                   sure |-> TRUE]
             at == IF own THEN "fill" ELSE "fallback"
  <2>1. req[r] # None /\ req[r].at = "plan" /\ cache' = cache /\ GoTo(r, at, a)
    BY <1>5 DEF ReadPlan, At
  <2>2. t \in Tenants /\ p \in Plans /\ Enabled(p) \in BOOLEAN /\ own \in BOOLEAN
        /\ Offered(p) \in SUBSET Models
    BY <2>1 DEF Enabled, Offered, Available
  <2>3. a \in Answers /\ a.plan = p /\ a.enabled = Enabled(p) /\ a.own = own
        /\ a.models = Offered(p)
    BY <2>2
  <2>4. at \in {"fallback", "fill"} /\ (at = "fallback" => ~own)
    OBVIOUS
  <2> HIDE DEF a, at, own
  <2>5. req'[r].tenant = t /\ req'[r].start = req[r].start /\ req'[r].answer = a
        /\ req'[r].at = at /\ \A s \in Requests : s # r => req'[s] = req[s]
    BY <2>1, <2>3, <2>4, Goes
  <2>6. p # planOf[t].plan => req[r].start <= planOf[t].since + 0
    BY <1>b, <2>1 DEF Held, Rights
  <2>7. \A m \in Offered(p) : off[m] = Never /\ (plans[p] # None => plans[p].withdrawn[m] = Never)
    BY DEF Offered, Available, Exists
  <2>8. plans[p] # None /\ Enabled(p) => plans[p].disabled = Never
    BY DEF Enabled, Exists
  <2>9. Rights(a, t, req[r].start, 0, off, plans, planOf)
    BY <2>3, <2>6, <2>7, <2>8 DEF Rights, Within
  <2>10. req[r].start <= now /\ now <= req[r].start + Span
    BY <1>b, <2>1 DEF Held
  <2> QED
    BY <2>1, <2>3, <2>4, <2>5, <2>9, <2>10 DEF Held
<1>6. CASE ReadFallback(r)
  <2>1. PICK F \in Fallbacks : GoTo(r, "fill", [req[r].answer EXCEPT !.models = F])
    BY <1>6 DEF ReadFallback
  <2> DEFINE t == req[r].tenant
             old == req[r].answer
             a == [old EXCEPT !.models = F]
  <2>2. req[r] # None /\ req[r].at = "fallback" /\ cache' = cache
    BY <1>6 DEF ReadFallback, At
  <2>3. F \in SUBSET Models /\ \A m \in F : off[m] = Never
    BY FallbacksTyped DEF Available
  <2>4. old \in Answers /\ t \in Tenants
    BY <2>2
  <2>5. a \in Answers /\ a.plan = old.plan /\ a.enabled = old.enabled /\ a.own = old.own
        /\ a.models = F
    BY <2>3, <2>4 DEF Answers
  <2>6. GoTo(r, "fill", a)
    BY <2>1
  <2> HIDE DEF a
  <2>7. req'[r].tenant = t /\ req'[r].start = req[r].start /\ req'[r].answer = a
        /\ req'[r].at = "fill" /\ \A s \in Requests : s # r => req'[s] = req[s]
    BY <2>2, <2>5, <2>6, Goes
  <2>8. ~old.own /\ Rights(old, t, req[r].start, 0, off, plans, planOf)
    BY <1>b, <2>2 DEF Held
  <2>9. Rights(a, t, req[r].start, 0, off, plans, planOf)
    BY <2>3, <2>5, <2>8 DEF Rights, Within
  <2>10. req[r].start <= now /\ now <= req[r].start + Span
    BY <1>b, <2>2 DEF Held
  <2> QED
    BY <2>2, <2>7, <2>9, <2>10 DEF Held
<1>7. ASSUME Fill(r) \/ FillFails(r)
      PROVE  /\ req'[r] # None => Held(req'[r], now, off, plans, planOf)
             /\ \A s \in Requests : s # r => req'[s] = req[s]
             /\ Rights(req[r].answer, req[r].tenant, now + Ttl, Span + Ttl, off, plans, planOf)
  <2> DEFINE t == req[r].tenant
             a == req[r].answer
  <2>1. req[r] # None /\ req[r].at = "fill" /\ GoTo(r, "judge", a)
    BY <1>7 DEF Fill, FillFails, At
  <2>2. a \in Answers /\ t \in Tenants /\ req[r].start \in Nat
    BY <2>1
  <2>3. Rights(a, t, req[r].start, 0, off, plans, planOf)
        /\ req[r].start <= now /\ now <= req[r].start + Span
    BY <1>b, <2>1 DEF Held
  <2>4. /\ req[r].start + 0 <= req[r].start + (Span + Ttl)
        /\ (now + Ttl) + 0 <= req[r].start + (Span + Ttl)
        /\ Span + Ttl \in Nat /\ now + Ttl \in Nat
    BY <1>a, <2>2, <2>3
  <2>5. Rights(a, t, req[r].start, Span + Ttl, off, plans, planOf)
    BY <2>2, <2>3, <2>4, RightsWeaken
  <2>6. Rights(a, t, now + Ttl, Span + Ttl, off, plans, planOf)
    BY <2>2, <2>3, <2>4, RightsWeaken
  <2>7. req'[r].tenant = t /\ req'[r].start = req[r].start /\ req'[r].answer = a
        /\ req'[r].at = "judge" /\ \A s \in Requests : s # r => req'[s] = req[s]
    BY <2>1, <2>2, Goes
  <2> QED
    BY <2>3, <2>5, <2>6, <2>7 DEF Held
<1>8. CASE Fill(r)
  <2>1. cache' = [cache EXCEPT ![req[r].tenant] = Stored(req[r].answer)]
    BY <1>8 DEF Fill
  <2>2. Stored(req[r].answer).answer = req[r].answer
        /\ Stored(req[r].answer).expires = now + Ttl
    BY DEF Stored
  <2>3. Kept(Stored(req[r].answer), req[r].tenant, now, off, plans, planOf)
    BY <1>7, <1>8, <1>a, <2>2 DEF Kept
  <2> QED
    BY <1>7, <1>8, <1>a, <2>1, <2>3
<1>9. CASE FillFails(r)
  <2>1. cache' = cache
    BY <1>9 DEF FillFails
  <2> QED
    BY <1>7, <1>9, <2>1
<1>10. CASE Answer(r)
  BY <1>a, <1>10 DEF Answer
<1> QED
  BY <1>1, <1>2, <1>3, <1>4, <1>5, <1>6, <1>8, <1>9, <1>10 DEF Request

\* A tenant's change of plan is a write that nobody clears after.
LEMMA ChangePlanSteps ==
  ASSUME TypeOK, NEW t \in Tenants, NEW p \in Plans, ChangePlan(t, p)
  PROVE  DbStep /\ UNCHANGED <<now, off, plans, cache, req, edit>>
<1> DEFINE row == [plan |-> p, since |-> now]
<1>1. row \in TenantRows /\ row.since = now
  BY NeverIsTime DEF TypeOK, TenantRows
<1>2. planOf' = [planOf EXCEPT ![t] = row] /\ UNCHANGED <<now, off, plans, cache, req, edit>>
  BY DEF ChangePlan
<1> HIDE DEF row
<1>3. planOf \in [Tenants -> TenantRows] /\ off \in [Models -> Times]
      /\ plans \in [Plans -> PlanRows \cup {None}]
  BY DEF TypeOK
<1>4. planOf' \in [Tenants -> TenantRows]
      /\ \A s \in Tenants : planOf'[s] = planOf[s] \/ planOf'[s].since = now
  BY <1>1, <1>2, <1>3
<1> QED
  BY <1>2, <1>3, <1>4 DEF DbStep, MovedPlan, Moved

\* Clearing changes an entry only by removing it or by doubting it.
LEMMA ClearLeaves ==
  ASSUME TypeOK, NEW e \in Editors, ClearStep(e)
  PROVE  /\ UNCHANGED <<now, on, off, plans, planOf, req, changes>>
         /\ \A t \in Tenants : cache'[t] # None =>
              /\ cache[t] # None
              /\ cache'[t].expires = cache[t].expires
              /\ \/ cache'[t].answer = cache[t].answer
                 \/ cache'[t].answer = Doubtful(cache[t].answer)
<1>a. cache \in [Tenants -> Entries \cup {None}]
  BY DEF TypeOK
<1>1. CASE List(e)
  BY <1>1 DEF List
<1>2. ASSUME NEW s \in Tenants, Clear(e, s)
      PROVE  \A t \in Tenants : cache'[t] # None => cache[t] # None /\ cache'[t] = cache[t]
  BY <1>2, <1>a DEF Clear
<1>3. CASE ClearFails(e)
  <2>1. ASSUME NEW t \in Tenants, cache'[t] # None
        PROVE  /\ cache[t] # None
               /\ cache'[t].expires = cache[t].expires
               /\ cache'[t].answer = Doubtful(cache[t].answer)
    BY <1>3, <2>1 DEF ClearFails
  <2> QED
    BY <1>3, <2>1 DEF ClearFails
<1>4. UNCHANGED <<now, on, off, plans, planOf, req, changes>>
  BY DEF ClearStep, List, Clear, ClearFails
<1> QED
  BY <1>1, <1>2, <1>3, <1>4 DEF ClearStep

LEMMA RInvTick == ASSUME TypeOK, RInv, Tick PROVE RInv'
<1>a. now \in Nat /\ now' = now + 1 /\ UNCHANGED <<off, plans, planOf, cache, req>>
      /\ \A r \in Requests : Resolving(r) => now < req[r].start + Span
  BY NeverIsTime DEF TypeOK, Tick
<1>1. ASSUME NEW r \in Requests, req[r] # None PROVE Held(req[r], now', off, plans, planOf)
  <2>1. Held(req[r], now, off, plans, planOf) /\ req[r].start \in Nat
    BY <1>1, RequestTyped DEF RInv
  <2>2. req[r].at # "judge" => now < req[r].start + Span
    BY <1>a, <1>1 DEF Resolving
  <2>3. req[r].start <= now' /\ (req[r].at # "judge" => now' <= req[r].start + Span)
    BY <1>a, <2>1, <2>2 DEF Held
  <2> QED
    BY <2>1, <2>3 DEF Held
<1>2. ASSUME NEW t \in Tenants, cache[t] # None PROVE Kept(cache[t], t, now', off, plans, planOf)
  <2>1. Kept(cache[t], t, now, off, plans, planOf) /\ cache[t].expires \in Nat
    BY <1>2 DEF RInv, TypeOK, Entries
  <2>2. cache[t].expires <= now' + Ttl
    BY <1>a, <2>1 DEF Kept
  <2> QED
    BY <2>1, <2>2 DEF Kept
<1> QED
  BY <1>a, <1>1, <1>2 DEF RInv

\* What is held and kept survives a write, whoever it overtakes.
LEMMA RInvWrite ==
  ASSUME TypeOK, RInv, DbStep, now' = now, cache' = cache,
         \A r \in Requests : req'[r] = req[r] \/ req'[r] = Overtaken(req[r])
  PROVE  RInv'
<1>1. ASSUME NEW r \in Requests, req'[r] # None
      PROVE  Held(req'[r], now, off', plans', planOf')
  <2>1. req[r] # None /\ req[r] \in RequestStates
    BY <1>1, OvertakenTyped DEF TypeOK
  <2>2. Held(req[r], now, off, plans, planOf)
    BY <2>1 DEF RInv
  <2>3. Held(req[r], now, off', plans', planOf')
    BY <2>1, <2>2, HeldMoves
  <2>4. Held(Overtaken(req[r]), now, off', plans', planOf')
    BY <2>1, <2>3, HeldDoubtful
  <2> QED
    BY <2>3, <2>4
<1>2. ASSUME NEW t \in Tenants, cache[t] # None
      PROVE  Kept(cache[t], t, now, off', plans', planOf')
  <2>1. cache[t] \in Entries /\ Kept(cache[t], t, now, off, plans, planOf)
    BY <1>2 DEF TypeOK, RInv
  <2> QED
    BY <2>1, KeptMoves
<1> QED
  BY <1>1, <1>2 DEF RInv

LEMMA RInvKept == ASSUME TypeOK, RInv, Next PROVE RInv'
<1>1. CASE Tick
  BY <1>1, RInvTick
<1>2. ASSUME NEW r \in Requests, Request(r) PROVE RInv'
  <2>1. UNCHANGED <<now, off, plans, planOf>>
    BY <1>2, RequestTypes DEF dbVars
  <2>2. /\ req'[r] # None => Held(req'[r], now, off, plans, planOf)
        /\ \A s \in Requests : s # r => req'[s] = req[s]
        /\ \A t \in Tenants : cache'[t] # cache[t] => Kept(cache'[t], t, now, off, plans, planOf)
    BY <1>2, RequestHolds
  <2> QED
    BY <2>1, <2>2 DEF RInv
<1>3. ASSUME NEW e \in Editors, WriteStep(e) PROVE RInv'
  <2>1. DbStep /\ now' = now /\ cache' = cache
        /\ \A r \in Requests : req'[r] = Overtaken(req[r])
    BY <1>3 DEF WriteStep, Write
  <2> QED
    BY <2>1, RInvWrite
<1>4. ASSUME NEW e \in Editors, EditStep(e) PROVE RInv'
  BY <1>4 DEF EditStep, RInv
<1>5. ASSUME NEW e \in Editors, ClearStep(e) PROVE RInv'
  <2>1. UNCHANGED <<now, off, plans, planOf, req>>
    BY <1>5, ClearLeaves
  <2>2. ASSUME NEW t \in Tenants, cache'[t] # None
        PROVE  Kept(cache'[t], t, now, off, plans, planOf)
    <3>1. /\ cache[t] # None
          /\ cache'[t].expires = cache[t].expires
          /\ \/ cache'[t].answer = cache[t].answer
             \/ cache'[t].answer = Doubtful(cache[t].answer)
      BY <1>5, <2>2, ClearLeaves
    <3>2. cache[t].answer \in Answers /\ Kept(cache[t], t, now, off, plans, planOf)
      BY <3>1 DEF TypeOK, Entries, RInv
    <3>3. Rights(Doubtful(cache[t].answer), t, cache[t].expires, Span + Ttl, off, plans, planOf)
      BY <3>2, RightsDoubtful DEF Kept
    <3> QED
      BY <3>1, <3>2, <3>3 DEF Kept
  <2> QED
    BY <2>1, <2>2 DEF RInv
<1>6. ASSUME NEW t \in Tenants, NEW p \in Plans, ChangePlan(t, p) PROVE RInv'
  <2>1. DbStep /\ now' = now /\ cache' = cache /\ req' = req
    BY <1>6, ChangePlanSteps
  <2> QED
    BY <2>1, RInvWrite
<1> QED
  BY <1>1, <1>2, <1>3, <1>4, <1>5, <1>6, Steps

\* Every model, entitlement or plan withdrawn is out of use for the requests that begin more
\* than Span + Ttl later, for any number of requests, super admins and tenants.
THEOREM WithdrawalReaches == Spec => []WithdrawnWithinTtl
<1>1. Init => RInv
  BY DEF Init, RInv
<1>2. TypeOK /\ RInv /\ [Next]_vars => RInv'
  <2>1. ASSUME RInv, UNCHANGED vars PROVE RInv'
    BY <2>1 DEF vars, RInv
  <2> QED
    BY <2>1, RInvKept
<1> QED
  BY <1>1, <1>2, TypeInvariant, RInvSuffices, PTL DEF Spec

-----------------------------------------------------------------------------
\* Answers that the database contradicts, and the clearing that is due.

\* The operators that Current is made of, told the models and the plans.
EnabledIn(p, P) == P[p] # None => P[p].disabled = Never

OfferedIn(p, O, P) ==
  IF P[p] # None THEN {m \in Models : O[m] = Never /\ P[p].withdrawn[m] = Never} ELSE {}

FirstIn(O) ==
  {m \in Models : O[m] = Never
     /\ \A n \in Models : O[n] = Never => SortOrder[m] <= SortOrder[n]}

FallbacksIn(O) == IF FirstIn(O) = {} THEN {{}} ELSE {{m} : m \in FirstIn(O)}

CurrentIn(a, O, P) ==
  /\ a.enabled = EnabledIn(a.plan, P)
  /\ a.own = (OfferedIn(a.plan, O, P) # {})
  /\ IF a.own THEN a.models = OfferedIn(a.plan, O, P) ELSE a.models \in FallbacksIn(O)

LEMMA InThisState ==
  /\ \A p : Enabled(p) = EnabledIn(p, plans)
  /\ \A p : Offered(p) = OfferedIn(p, off, plans)
  /\ Fallbacks = FallbacksIn(off)
  /\ \A a : Current(a) <=> CurrentIn(a, off, plans)
<1>1. ASSUME NEW p PROVE Enabled(p) = EnabledIn(p, plans)
  BY DEF Enabled, EnabledIn, Exists
<1>2. ASSUME NEW p PROVE Offered(p) = OfferedIn(p, off, plans)
  BY DEF Offered, OfferedIn, Exists, Available
<1>3. First = FirstIn(off)
  BY DEF First, FirstIn, Available
<1>4. Fallbacks = FallbacksIn(off)
  BY <1>3 DEF Fallbacks, FallbacksIn
<1>5. ASSUME NEW a PROVE Current(a) <=> CurrentIn(a, off, plans)
  BY <1>1, <1>2, <1>4 DEF Current, CurrentIn
<1> QED
  BY <1>1, <1>2, <1>4, <1>5

\* A request that nobody overtook holds what the database says.
Fresh(q, O, P) ==
  q.answer.sure =>
    /\ q.at = "fallback" =>
         /\ q.answer.enabled = EnabledIn(q.answer.plan, P)
         /\ ~q.answer.own
         /\ OfferedIn(q.answer.plan, O, P) = {}
    /\ q.at = "fill" => CurrentIn(q.answer, O, P)

Stale(c, n, O, P) == n < c.expires /\ c.answer.sure /\ ~CurrentIn(c.answer, O, P)

Clearing(d, t) == d # None /\ (d.op = "list" \/ (d.op = "clear" /\ t \in d.tenants))

SInv ==
  /\ \A r \in Requests : req[r] # None => Fresh(req[r], off, plans)
  /\ \A t \in Tenants : cache[t] # None /\ Stale(cache[t], now, off, plans) =>
       \E e \in Editors : Clearing(edit[e], t)

LEMMA SInvSuffices == SInv => StaleIsBeingCleared
<1> SUFFICES ASSUME SInv, NEW t \in Tenants, Live(t), cache[t].answer.sure,
                    ~Current(cache[t].answer)
             PROVE  \E e \in Editors :
                      Decided(e, "list") \/ (Decided(e, "clear") /\ t \in edit[e].tenants)
  BY DEF StaleIsBeingCleared
<1>1. cache[t] # None /\ now < cache[t].expires
  BY DEF Live
<1>2. ~CurrentIn(cache[t].answer, off, plans)
  BY InThisState
<1>3. PICK e \in Editors : Clearing(edit[e], t)
  BY <1>1, <1>2 DEF SInv, Stale
<1> QED
  BY <1>3 DEF Clearing, Decided

\* Steps of one request: it and what it writes are as the database says.
LEMMA RequestFresh ==
  ASSUME TypeOK, SInv, NEW r \in Requests, Request(r)
  PROVE  /\ req'[r] # None => Fresh(req'[r], off, plans)
         /\ \A s \in Requests : s # r => req'[s] = req[s]
         /\ \A t \in Tenants : cache'[t] # cache[t] => ~Stale(cache'[t], now, off, plans)
<1> USE RequestTyped, AnswersTyped
<1>a. req \in [Requests -> RequestStates \cup {None}]
      /\ cache \in [Tenants -> Entries \cup {None}]
  BY DEF TypeOK
<1>b. req[r] # None => Fresh(req[r], off, plans)
  BY DEF SInv
<1>1. ASSUME NEW t \in Tenants, Ask(r, t)
      PROVE  /\ req'[r] # None => Fresh(req'[r], off, plans)
             /\ \A s \in Requests : s # r => req'[s] = req[s]
             /\ cache' = cache
  <2> DEFINE q == [tenant |-> t, start |-> now, answer |-> Unread, at |-> "cache"]
  <2>1. q.at = "cache"
    OBVIOUS
  <2>2. req' = [req EXCEPT ![r] = q] /\ cache' = cache
    BY <1>1 DEF Ask
  <2> HIDE DEF q
  <2> QED
    BY <1>a, <2>1, <2>2 DEF Fresh
<1>2. CASE Hit(r)
  <2>1. req[r] # None /\ cache[req[r].tenant] # None /\ cache' = cache
        /\ GoTo(r, "judge", cache[req[r].tenant].answer)
    BY <1>2 DEF Hit, At, Live
  <2>2. cache[req[r].tenant].answer \in Answers
    BY <1>a, <2>1 DEF Entries
  <2>3. req'[r].at = "judge" /\ \A s \in Requests : s # r => req'[s] = req[s]
    BY <2>1, <2>2, Goes
  <2> QED
    BY <2>1, <2>3 DEF Fresh
<1>3. CASE Bypass(r)
  <2>1. req[r] # None /\ cache' = cache /\ GoTo(r, "tenant", Unread)
    BY <1>3 DEF Bypass, At
  <2>2. req'[r].at = "tenant" /\ \A s \in Requests : s # r => req'[s] = req[s]
    BY <2>1, Goes
  <2> QED
    BY <2>1, <2>2 DEF Fresh
<1>4. CASE ReadTenant(r)
  <2>1. req[r] # None /\ cache' = cache
        /\ GoTo(r, "plan", [Unread EXCEPT !.plan = planOf[req[r].tenant].plan])
    BY <1>4 DEF ReadTenant, At
  <2>2. planOf[req[r].tenant].plan \in Plans
    BY <2>1 DEF TypeOK, TenantRows
  <2>3. [Unread EXCEPT !.plan = planOf[req[r].tenant].plan] \in Answers
    BY <2>2
  <2>4. req'[r].at = "plan" /\ \A s \in Requests : s # r => req'[s] = req[s]
    BY <2>1, <2>3, Goes
  <2> QED
    BY <2>1, <2>4 DEF Fresh
<1>5. CASE ReadPlan(r)
  <2> DEFINE p == req[r].answer.plan
             own == Offered(p) # {}
             a == [plan |-> p, enabled |-> Enabled(p), own |-> own, models |-> Offered(p),
                   sure |-> TRUE]
             at == IF own THEN "fill" ELSE "fallback"
  <2>1. req[r] # None /\ cache' = cache /\ GoTo(r, at, a)
    BY <1>5 DEF ReadPlan, At
  <2>2. p \in Plans /\ Enabled(p) \in BOOLEAN /\ own \in BOOLEAN /\ Offered(p) \in SUBSET Models
    BY <2>1 DEF Enabled, Offered, Available
  <2>3. a \in Answers /\ a.plan = p /\ a.enabled = Enabled(p) /\ a.own = own
        /\ a.models = Offered(p)
    BY <2>2
  <2>4. at \in {"fallback", "fill"} /\ (at = "fallback" => ~own) /\ (at = "fill" => own)
    OBVIOUS
  <2>5. own <=> Offered(p) # {}
    OBVIOUS
  <2> HIDE DEF a, at, own
  <2>6. req'[r].answer = a /\ req'[r].at = at /\ \A s \in Requests : s # r => req'[s] = req[s]
    BY <2>1, <2>3, <2>4, Goes
  <2>7. at = "fill" => CurrentIn(a, off, plans)
    BY <2>2, <2>3, <2>4, <2>5, InThisState DEF CurrentIn
  <2>8. at = "fallback" =>
          /\ a.enabled = EnabledIn(a.plan, plans)
          /\ ~a.own
          /\ OfferedIn(a.plan, off, plans) = {}
    BY <2>3, <2>4, <2>5, InThisState
  <2> QED
    BY <2>1, <2>6, <2>7, <2>8 DEF Fresh
<1>6. CASE ReadFallback(r)
  <2>1. PICK F \in Fallbacks : GoTo(r, "fill", [req[r].answer EXCEPT !.models = F])
    BY <1>6 DEF ReadFallback
  <2> DEFINE old == req[r].answer
             a == [old EXCEPT !.models = F]
  <2>2. req[r] # None /\ req[r].at = "fallback" /\ cache' = cache
    BY <1>6 DEF ReadFallback, At
  <2>3. F \in SUBSET Models /\ F \in FallbacksIn(off)
    BY FallbacksTyped, InThisState DEF Available
  <2>4. old \in Answers
    BY <2>2
  <2>5. a \in Answers /\ a.plan = old.plan /\ a.enabled = old.enabled /\ a.own = old.own
        /\ a.models = F /\ a.sure = old.sure
    BY <2>3, <2>4 DEF Answers
  <2>6. GoTo(r, "fill", a)
    BY <2>1
  <2> HIDE DEF a
  <2>7. req'[r].answer = a /\ req'[r].at = "fill" /\ \A s \in Requests : s # r => req'[s] = req[s]
    BY <2>2, <2>5, <2>6, Goes
  <2>8. old.sure => /\ old.enabled = EnabledIn(old.plan, plans)
                    /\ ~old.own
                    /\ OfferedIn(old.plan, off, plans) = {}
    BY <1>b, <2>2 DEF Fresh
  <2>9. old.own \in BOOLEAN
    BY <2>4 DEF Answers
  <2>10. a.sure => CurrentIn(a, off, plans)
    BY <2>3, <2>5, <2>8, <2>9 DEF CurrentIn
  <2> QED
    BY <2>2, <2>7, <2>10 DEF Fresh
<1>7. ASSUME Fill(r) \/ FillFails(r)
      PROVE  /\ req'[r] # None => Fresh(req'[r], off, plans)
             /\ \A s \in Requests : s # r => req'[s] = req[s]
             /\ req[r].answer.sure => CurrentIn(req[r].answer, off, plans)
  <2>1. req[r] # None /\ req[r].at = "fill" /\ GoTo(r, "judge", req[r].answer)
    BY <1>7 DEF Fill, FillFails, At
  <2>2. req'[r].at = "judge" /\ \A s \in Requests : s # r => req'[s] = req[s]
    BY <2>1, Goes
  <2> QED
    BY <1>b, <2>1, <2>2 DEF Fresh
<1>8. CASE Fill(r)
  <2>1. cache' = [cache EXCEPT ![req[r].tenant] = Stored(req[r].answer)]
    BY <1>8 DEF Fill
  <2>2. Stored(req[r].answer).answer = req[r].answer
    BY DEF Stored
  <2>3. ~Stale(Stored(req[r].answer), now, off, plans)
    BY <1>7, <1>8, <2>2 DEF Stale
  <2> QED
    BY <1>7, <1>8, <1>a, <2>1, <2>3
<1>9. CASE FillFails(r)
  <2>1. cache' = cache
    BY <1>9 DEF FillFails
  <2> QED
    BY <1>7, <1>9, <2>1
<1>10. CASE Answer(r)
  BY <1>a, <1>10 DEF Answer
<1> QED
  BY <1>1, <1>2, <1>3, <1>4, <1>5, <1>6, <1>8, <1>9, <1>10 DEF Request

\* The clearing that is due stays due until it is done, or nothing is sure any more.
LEMMA ClearingLeft ==
  ASSUME TypeOK, SInv, NEW e \in Editors, ClearStep(e), NEW t \in Tenants,
         cache'[t] # None, Stale(cache'[t], now, off, plans)
  PROVE  \E d \in Editors : Clearing(edit'[d], t)
<1>a. cache \in [Tenants -> Entries \cup {None}] /\ edit \in [Editors -> Edits \cup {None}]
  BY DEF TypeOK
<1>1. CASE List(e)
  <2> DEFINE S == {s \in Tenants : Live(s)}
  <2>1. cache' = cache /\ edit' = [edit EXCEPT ![e] = Left(S)]
    BY <1>1 DEF List
  <2>2. PICK d \in Editors : Clearing(edit[d], t)
    BY <2>1 DEF SInv
  <2>3. t \in S
    BY <2>1 DEF Stale, Live
  <2> HIDE DEF S
  <2>4. S \in SUBSET Tenants
    BY DEF S
  <2>5. Clearing(Left(S), t)
    BY <2>3, <2>4, LeftTyped DEF Clearing
  <2> QED
    BY <1>a, <2>1, <2>2, <2>5
<1>2. ASSUME NEW s \in Tenants, Clear(e, s) PROVE \E d \in Editors : Clearing(edit'[d], t)
  <2> DEFINE S == edit[e].tenants \ {s}
  <2>1. cache' = [cache EXCEPT ![s] = None] /\ edit' = [edit EXCEPT ![e] = Left(S)]
        /\ edit[e] # None /\ edit[e].op = "clear"
    BY <1>2 DEF Clear, Decided
  <2>2. t # s /\ cache'[t] = cache[t]
    BY <1>a, <2>1
  <2>3. PICK d \in Editors : Clearing(edit[d], t)
    BY <2>2 DEF SInv
  <2>4. CASE d = e
    <3>1. t \in S
      BY <2>1, <2>2, <2>3, <2>4 DEF Clearing
    <3>2. S \in SUBSET Tenants
      BY <1>a, <2>1 DEF Edits, Decisions
    <3> HIDE DEF S
    <3>3. Clearing(Left(S), t)
      BY <3>1, <3>2, LeftTyped DEF Clearing
    <3> QED
      BY <1>a, <2>1, <3>3
  <2>5. CASE d # e
    BY <1>a, <2>1, <2>3, <2>5
  <2> QED
    BY <2>4, <2>5
<1>3. CASE ClearFails(e)
  <2>1. cache[t] # None /\ cache'[t].answer = Doubtful(cache[t].answer)
    BY <1>3 DEF ClearFails
  <2>2. cache[t].answer \in Answers
    BY <1>a, <2>1 DEF Entries
  <2>3. ~Doubtful(cache[t].answer).sure
    BY <2>2 DEF Doubtful, Answers
  <2> QED
    BY <2>1, <2>3 DEF Stale
<1> QED
  BY <1>1, <1>2, <1>3 DEF ClearStep

LEMMA SInvKept == ASSUME TypeOK, SInv, Next PROVE SInv'
<1>a. edit \in [Editors -> Edits \cup {None}] /\ cache \in [Tenants -> Entries \cup {None}]
  BY DEF TypeOK
<1>1. CASE Tick
  <2>1. now \in Nat /\ now' = now + 1 /\ UNCHANGED <<off, plans, cache, req, edit>>
    BY <1>1, NeverIsTime DEF Tick, TypeOK
  <2>2. ASSUME NEW t \in Tenants, cache[t] # None, Stale(cache[t], now', off, plans)
        PROVE  Stale(cache[t], now, off, plans)
    <3>1. cache[t].expires \in Nat
      BY <1>a, <2>2 DEF Entries
    <3> QED
      BY <2>1, <2>2, <3>1 DEF Stale
  <2> QED
    BY <2>1, <2>2 DEF SInv
<1>2. ASSUME NEW r \in Requests, Request(r) PROVE SInv'
  <2>1. UNCHANGED <<now, off, plans, edit>>
    BY <1>2, RequestTypes DEF dbVars
  <2>2. /\ req'[r] # None => Fresh(req'[r], off, plans)
        /\ \A s \in Requests : s # r => req'[s] = req[s]
        /\ \A t \in Tenants : cache'[t] # cache[t] => ~Stale(cache'[t], now, off, plans)
    BY <1>2, RequestFresh
  <2> QED
    BY <2>1, <2>2 DEF SInv
<1>3. ASSUME NEW e \in Editors, WriteStep(e) PROVE SInv'
  <2>1. \A r \in Requests : req'[r] = Overtaken(req[r])
    BY <1>3 DEF WriteStep, Write
  <2>2. ASSUME NEW r \in Requests, req'[r] # None PROVE Fresh(req'[r], off', plans')
    <3>1. req[r] # None /\ req[r] \in RequestStates /\ req[r].answer \in Answers
          /\ req'[r] = Overtaken(req[r])
      BY <2>1, <2>2, OvertakenTyped DEF TypeOK, RequestStates
    <3>2. CASE req[r].at \in {"fallback", "fill"}
      <4>1. req'[r].answer = Doubtful(req[r].answer)
        BY <3>1, <3>2, OvertakenTyped
      <4>2. ~Doubtful(req[r].answer).sure
        BY <3>1 DEF Doubtful, Answers
      <4> QED
        BY <4>1, <4>2 DEF Fresh
    <3>3. CASE req[r].at \notin {"fallback", "fill"}
      BY <3>1, <3>3 DEF Overtaken, Fresh
    <3> QED
      BY <3>2, <3>3
  <2>3. edit'[e] = Listing
    BY <1>3, <1>a DEF WriteStep, Write
  <2>4. Listing # None
    <3>1. Listing \in Edits
      BY DEF Listing, Edits
    <3> QED
      BY <3>1
  <2>5. \A t \in Tenants : Clearing(edit'[e], t)
    BY <2>3, <2>4 DEF Clearing, Listing
  <2> QED
    BY <2>2, <2>5 DEF SInv
<1>4. ASSUME NEW e \in Editors, EditStep(e) PROVE SInv'
  <2>1. PICK d \in Edits \cup {None} : edit' = [edit EXCEPT ![e] = d]
    BY <1>4 DEF EditStep
  <2>2. UNCHANGED <<now, off, plans, cache, req>>
    BY <1>4 DEF EditStep
  <2>3. ASSUME NEW t \in Tenants, NEW f \in Editors, Clearing(edit[f], t)
        PROVE  Clearing(edit'[f], t)
    <3>1. f # e
      BY <1>4, <2>3 DEF EditStep, Clearing
    <3> QED
      BY <1>a, <2>1, <2>3, <3>1
  <2> QED
    BY <2>2, <2>3 DEF SInv
<1>5. ASSUME NEW e \in Editors, ClearStep(e) PROVE SInv'
  <2>1. UNCHANGED <<now, off, plans, req>>
    BY <1>5, ClearLeaves
  <2> QED
    BY <1>5, <2>1, ClearingLeft DEF SInv
<1>6. ASSUME NEW t \in Tenants, NEW p \in Plans, ChangePlan(t, p) PROVE SInv'
  BY <1>6 DEF ChangePlan, SInv
<1> QED
  BY <1>1, <1>2, <1>3, <1>4, <1>5, <1>6, Steps

\* An entry that the database contradicts is about to be cleared, whichever operation changed
\* what, for any number of super admins and however their clearings interleave.
THEOREM StaleIsCleared == Spec => []StaleIsBeingCleared
<1>1. Init => SInv
  BY DEF Init, SInv
<1>2. TypeOK /\ SInv /\ [Next]_vars => SInv'
  <2>1. ASSUME SInv, UNCHANGED vars PROVE SInv'
    BY <2>1 DEF vars, SInv
  <2> QED
    BY <2>1, SInvKept
<1> QED
  BY <1>1, <1>2, TypeInvariant, SInvSuffices, PTL DEF Spec
=============================================================================
