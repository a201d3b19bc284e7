----------------------------- MODULE PlanRunner -----------------------------
(***************************************************************************)
(* src/core/sor/plan-runner.ts: any number of calls of run() on one        *)
(* persisted routing plan.  A call works on its steps concurrently; each   *)
(* step is locked in Redis, claimed in Postgres, executed by its provider  *)
(* with retries, and replaced by a fallback step when it fails for good.   *)
(* Every Redis command and every statement is a step of its own where      *)
(* another call could tell the difference.                                 *)
(*                                                                         *)
(* There are never more steps than the runner's concurrency (4), so every  *)
(* step of a call has a worker.  Steps are numbered as they are inserted,  *)
(* providers by their quoted price.  A behaviour is about one scene: the   *)
(* calls there are, the plan they find and what may go wrong.  An operator *)
(* may retry a step and unwind the plan (api/admin/sor-admin-service.ts).  *)
(***************************************************************************)
EXTENDS Naturals, Sequences, FiniteSets

CONSTANTS Runners,        \* calls of run()
          Legs,           \* legs of the plan
          Candidates,     \* the providers in route_candidates of each leg
          MaxSteps,       \* bound: rows in route_steps
          Scenes          \* calls: those that are made; planned: the steps
                          \* PlanComposer has persisted; attempts:
                          \* retry.maxRetries + 1; rows: bound of route_steps;
                          \* policies: the plan is ALL_OR_NONE or not;
                          \* mayDie: processes may die; mayExpire: a step lock
                          \* may expire under its holder; retries: the calls
                          \* that retryStep makes; careful: an operator retries
                          \* no step that a call is working on

ASSUME ScenesAssumption ==
  \A s \in Scenes :
    /\ s.calls \subseteq Runners /\ s.retries \subseteq s.calls /\ s.planned # <<>>
    /\ s.planned \in Seq([leg : Legs, provider : Nat]) /\ Len(s.planned) <= s.rows
    /\ s.attempts \in Nat \ {0} /\ s.rows \in Nat /\ s.rows <= MaxSteps
    /\ s.policies \subseteq BOOLEAN /\ {s.mayDie, s.mayExpire, s.careful} \subseteq BOOLEAN
ASSUME CandidatesAssumption == \A l \in Legs : Candidates[l] \subseteq Nat
ASSUME BoundsAssumption == MaxSteps \in Nat

VARIABLES scene,    \* which of the scenes this is
          plan,      \* the routing_plans row: its state and whether ALL_OR_NONE
          steps,     \* route_steps: leg, provider and state of each
          locks,     \* the steps i for which route_step:i:lock exists
          fills,     \* fills[i]: how often the provider has executed step i
          exposure,  \* exposure[i]: is step i in exposure_idempotency, and booked?
          run,       \* where each call of run() is, and what it returns
          task       \* task[r][i]: the chain of steps call r began with step i

vars == <<scene, plan, steps, locks, fills, exposure, run, task>>

Ids == 1..MaxSteps
NoTask == [at |-> "none", step |-> 0, attempt |-> 0, tried |-> {}, failed |-> FALSE]

Init ==
  /\ scene \in Scenes
  /\ plan \in [state : {"DRAFT"}, allOrNone : scene.policies]
  /\ steps = [i \in 1..Len(scene.planned) |->
                [leg |-> scene.planned[i].leg, provider |-> scene.planned[i].provider,
                 state |-> "PENDING"]]
  /\ locks = {}
  /\ fills = [i \in Ids |-> 0]
  /\ exposure = [i \in Ids |-> "none"]
  /\ run = [r \in Runners |-> [at |-> "idle", result |-> "none"]]
  /\ task = [r \in Runners |-> [i \in Ids |-> NoTask]]

Terminal(state) == state \in {"COMPLETED", "FAILED", "UNWOUND"}
Is(state) == {i \in 1..Len(steps) : steps[i].state = state}

\* The row of the step task i of call r is at.
Step(r, i) == task[r][i].step
SetState(r, i, state) == steps' = [steps EXCEPT ![Step(r, i)].state = state]

At(r, i, place) == task[r][i].at = place
Goto(r, i, place) == task' = [task EXCEPT ![r][i].at = place]
Begin(s) == [NoTask EXCEPT !.at = "lock", !.step = s, !.attempt = 1, !.tried = {steps[s].provider}]

----------------------------------------------------------------------------
(* run: before and after the steps.                                        *)

\* loadPlan: a finished plan is not run again, its state is the answer.
Start(r) ==
  /\ r \in scene.calls
  /\ run[r].at = IF r \in scene.retries THEN "asked" ELSE "idle"
  /\ run' = [run EXCEPT ![r] = IF Terminal(plan.state)
                               THEN [at |-> "done", result |-> plan.state]
                               ELSE [at |-> "loaded", result |-> "none"]]
  /\ UNCHANGED <<plan, steps, locks, fills, exposure, task>>

\* updatePlanState RUNNING, whatever has become of the plan since.
MarkRunning(r) ==
  /\ run[r].at = "loaded"
  /\ plan' = [plan EXCEPT !.state = "RUNNING"]
  /\ run' = [run EXCEPT ![r].at = "running"]
  /\ UNCHANGED <<steps, locks, fills, exposure, task>>

\* loadPlanSteps, and a worker for each step that is not FILLED.
StartSteps(r) ==
  /\ run[r].at = "running"
  /\ run' = [run EXCEPT ![r].at = "steps"]
  /\ task' = [task EXCEPT ![r] =
       [i \in Ids |-> IF i \in (1..Len(steps)) \ Is("FILLED") THEN Begin(i) ELSE NoTask]]
  /\ UNCHANGED <<plan, steps, locks, fills, exposure>>

\* Mutant: one leg is enough.
someLegCovered == Is("FILLED") # {}

\* The branches of resolvePlanResult, from the rows as they are now.
legsCovered == {steps[i].leg : i \in Is("FILLED")} = {steps[i].leg : i \in 1..Len(steps)}
Resolution ==
  CASE plan.allOrNone /\ (~legsCovered \/ Is("FAILED") # {}) -> "UNWOUND"
    [] Is("FAILED") # {} /\ Is("FILLED") = {} /\ ~plan.allOrNone -> "FAILED"
    [] Is("FAILED") # {} /\ Is("FILLED") # {} /\ ~legsCovered /\ ~plan.allOrNone -> "PARTIAL"
    [] OTHER -> "COMPLETED"

\* Promise.all: every worker of the call has ended.
resolvePlanResult(r) ==
  /\ run[r].at = "steps"
  /\ \A i \in Ids : task[r][i].at \in {"none", "done"}
  /\ run' = [run EXCEPT ![r] = [at |-> "resolved", result |-> Resolution]]
  /\ UNCHANGED <<plan, steps, locks, fills, exposure, task>>

\* updatePlanState, unguarded; a partial plan is persisted as COMPLETED.
Finish(r) ==
  /\ run[r].at = "resolved"
  /\ plan' = [plan EXCEPT !.state = IF run[r].result = "PARTIAL" THEN "COMPLETED"
                                                                 ELSE run[r].result]
  /\ run' = [run EXCEPT ![r].at = "done"]
  /\ UNCHANGED <<steps, locks, fills, exposure, task>>

----------------------------------------------------------------------------
(* executeSingleStep                                                       *)

\* SET lock NX; without it the step counts as SKIPPED.
Lock(r, i) ==
  /\ At(r, i, "lock")
  /\ Goto(r, i, IF Step(r, i) \in locks THEN "done" ELSE "mark")
  /\ locks' = locks \cup {Step(r, i)}
  /\ UNCHANGED <<plan, steps, fills, exposure, run>>

\* Mutant: a step left EXECUTING is taken over.
takeOverStep(r, i) ==
  /\ At(r, i, "mark")
  /\ IF steps[Step(r, i)].state # "FILLED"
     THEN SetState(r, i, "EXECUTING") /\ Goto(r, i, "execute")
     ELSE UNCHANGED steps /\ Goto(r, i, "unlock")
  /\ UNCHANGED <<plan, locks, fills, exposure, run>>

\* markStepExecuting: UPDATE ... WHERE state IN ('PENDING', 'FAILED'); the check
\* of the refreshed row before it skips no other step than this one does.
markStepExecuting(r, i) ==
  /\ At(r, i, "mark")
  /\ IF steps[Step(r, i)].state \in {"PENDING", "FAILED"}
     THEN SetState(r, i, "EXECUTING") /\ Goto(r, i, "execute")
     ELSE UNCHANGED steps /\ Goto(r, i, "unlock")
  /\ UNCHANGED <<plan, locks, fills, exposure, run>>

\* An attempt has failed: the next one, or the end of them.
AttemptFailed(r, i) ==
  IF task[r][i].attempt < scene.attempts
  THEN task' = [task EXCEPT ![r][i].at = "execute", ![r][i].attempt = @ + 1]
  ELSE Goto(r, i, "giveUp")

ProviderExecutes(r, i) == fills' = [fills EXCEPT ![Step(r, i)] = @ + 1]

\* Mutant: the answer's ok is not looked at.
ExecuteUnchecked(r, i) ==
  /\ At(r, i, "execute")
  /\ UNCHANGED fills \/ ProviderExecutes(r, i)
  /\ Goto(r, i, "fill")
  /\ UNCHANGED <<plan, steps, locks, exposure, run>>

\* executeStep answers ok in time.
ExecuteOk(r, i) ==
  /\ At(r, i, "execute")
  /\ ProviderExecutes(r, i)
  /\ Goto(r, i, "fill")
  /\ UNCHANGED <<plan, steps, locks, exposure, run>>

\* It answers with an error, throws, or withTimeout gives up on it; in that case
\* the provider may execute the step all the same.
ExecuteFails(r, i) ==
  /\ At(r, i, "execute")
  /\ UNCHANGED fills \/ ProviderExecutes(r, i)
  /\ AttemptFailed(r, i)
  /\ UNCHANGED <<plan, steps, locks, exposure, run>>

\* markStepFilled, unguarded.
markStepFilled(r, i) ==
  /\ At(r, i, "fill")
  /\ SetState(r, i, "FILLED")
  /\ Goto(r, i, "claim")
  /\ UNCHANGED <<plan, locks, fills, exposure, run>>

\* updateExposureAfterExecution: applyExecutionIdempotent commits first ...
ClaimExposure(r, i) ==
  /\ At(r, i, "claim")
  /\ IF exposure[Step(r, i)] = "none"
     THEN exposure' = [exposure EXCEPT ![Step(r, i)] = "claimed"] /\ Goto(r, i, "book")
     ELSE UNCHANGED exposure /\ Goto(r, i, "record")
  /\ UNCHANGED <<plan, steps, locks, fills, run>>

\* ... then updateExposureWithJournal.
BookExposure(r, i) ==
  /\ At(r, i, "book")
  /\ exposure' = [exposure EXCEPT ![Step(r, i)] = "booked"]
  /\ Goto(r, i, "record")
  /\ UNCHANGED <<plan, steps, locks, fills, run>>

\* Anything after the provider's answer throws inside the try: one attempt more.
StatementFails(r, i) ==
  /\ task[r][i].at \in {"fill", "claim", "book", "record"}
  /\ AttemptFailed(r, i)
  /\ UNCHANGED <<plan, steps, locks, fills, exposure, run>>

Recorded(r, i) ==
  /\ At(r, i, "record")
  /\ Goto(r, i, "unlock")
  /\ UNCHANGED <<plan, steps, locks, fills, exposure, run>>

\* markStepFailed, unguarded.
markStepFailed(r, i) ==
  /\ At(r, i, "giveUp")
  /\ SetState(r, i, "FAILED")
  /\ task' = [task EXCEPT ![r][i].at = "unlock", ![r][i].failed = TRUE]
  /\ UNCHANGED <<plan, locks, fills, exposure, run>>

\* finally: DEL lock, whoever's it is by now.
Unlock(r, i) ==
  /\ At(r, i, "unlock")
  /\ locks' = locks \ {Step(r, i)}
  /\ Goto(r, i, IF task[r][i].failed THEN "fallback" ELSE "done")
  /\ UNCHANGED <<plan, steps, fills, exposure, run>>

----------------------------------------------------------------------------
(* executeStepWithFallback                                                 *)

\* Mutants: only the provider that has just failed is left out; no provider that
\* is cheaper than it is considered.
UntriedNow(r, i) == Candidates[steps[Step(r, i)].leg] \ {steps[Step(r, i)].provider}
UntriedAndDearer(r, i) == {p \in Candidates[steps[Step(r, i)].leg] : p > steps[Step(r, i)].provider}

Untried(r, i) == Candidates[steps[Step(r, i)].leg] \ task[r][i].tried

\* createFallbackStep: the cheapest candidate of the leg this chain has not tried.
createFallbackStep(r, i) ==
  /\ At(r, i, "fallback")
  /\ Len(steps) < scene.rows
  /\ \E p \in Untried(r, i) :
       /\ \A q \in Untried(r, i) : p <= q
       /\ steps' = Append(steps, [steps[Step(r, i)] EXCEPT !.provider = p, !.state = "PENDING"])
       /\ task' = [task EXCEPT ![r][i] = 
            [at |-> "lock", step |-> Len(steps) + 1, attempt |-> 1,
             tried |-> task[r][i].tried \cup {p}, failed |-> FALSE]]
  /\ UNCHANGED <<plan, locks, fills, exposure, run>>

NoFallback(r, i) ==
  /\ At(r, i, "fallback")
  /\ Untried(r, i) = {}
  /\ Goto(r, i, "done")
  /\ UNCHANGED <<plan, steps, locks, fills, exposure, run>>

----------------------------------------------------------------------------
\* The process of a call dies; its locks stay until they expire.
Crash(r) ==
  /\ scene.mayDie
  /\ run[r].at \in {"loaded", "running", "steps", "resolved"}
  /\ run' = [run EXCEPT ![r].at = "dead"]
  /\ task' = [task EXCEPT ![r] = [i \in Ids |-> NoTask]]
  /\ UNCHANGED <<plan, steps, locks, fills, exposure>>

\* A command outside the inner try throws: run() rejects without resolving the
\* plan, and the workers of the other steps go on by themselves.
Throw(r, i) ==
  /\ scene.mayDie
  /\ task[r][i].at \in {"lock", "mark", "giveUp", "unlock", "fallback"}
  /\ Goto(r, i, "done")
  /\ run' = [run EXCEPT ![r].at = "dead"]
  /\ locks' = IF task[r][i].at \in {"mark", "giveUp"} THEN locks \ {Step(r, i)} ELSE locks
  /\ UNCHANGED <<plan, steps, fills, exposure>>

\* A task between its SET and its DEL.
InStep(r, i) == task[r][i].at \notin {"none", "lock", "fallback", "done"}
Holders(s) == {r \in Runners : \E i \in Ids : InStep(r, i) /\ Step(r, i) = s}

LockExpires(s) ==
  /\ s \in locks
  /\ scene.mayExpire \/ Holders(s) = {}
  /\ locks' = locks \ {s}
  /\ UNCHANGED <<plan, steps, fills, exposure, run, task>>

----------------------------------------------------------------------------
(* api/admin/sor-admin-service.ts                                          *)

\* retryStep: the row is reset with another provider or the same one, whatever
\* it and the plan say; then the plan is run.
RetryStep(r, s, p) ==
  /\ r \in scene.retries /\ run[r].at = "idle"
  /\ s <= Len(steps) /\ p \in Candidates[steps[s].leg]
  /\ scene.careful => Holders(s) = {}
  /\ steps' = [steps EXCEPT ![s].provider = p, ![s].state = "PENDING"]
  /\ run' = [run EXCEPT ![r].at = "asked"]
  /\ UNCHANGED <<plan, locks, fills, exposure, task>>

\* forceUnwind: only the plan's state changes; calls that run go on.
ForceUnwind ==
  /\ scene.retries # {}
  /\ plan' = [plan EXCEPT !.state = "UNWOUND"]
  /\ UNCHANGED <<steps, locks, fills, exposure, run, task>>

----------------------------------------------------------------------------
TaskStep(r, i) ==
  \/ Lock(r, i) \/ markStepExecuting(r, i) \/ Unlock(r, i)
  \/ ExecuteOk(r, i) \/ ExecuteFails(r, i) \/ StatementFails(r, i)
  \/ markStepFilled(r, i) \/ ClaimExposure(r, i) \/ BookExposure(r, i) \/ Recorded(r, i)
  \/ markStepFailed(r, i) \/ createFallbackStep(r, i) \/ NoFallback(r, i)

RunStep(r) == MarkRunning(r) \/ StartSteps(r) \/ resolvePlanResult(r) \/ Finish(r)

Next ==
  /\ \/ \E r \in Runners : Start(r) \/ RunStep(r) \/ Crash(r)
     \/ \E r \in Runners, i \in Ids : TaskStep(r, i) \/ Throw(r, i)
     \/ \E s \in Ids : LockExpires(s)
     \/ \E r \in Runners, s \in Ids : \E p \in UNION {Candidates[l] : l \in Legs} : RetryStep(r, s, p)
     \/ ForceUnwind
  /\ UNCHANGED scene

\* Statements and timers of a live process come to pass; nobody has to call run().
Fairness ==
  /\ \A r \in Runners : WF_vars(RunStep(r) /\ UNCHANGED scene)
  /\ \A r \in Runners, i \in Ids : WF_vars(TaskStep(r, i) /\ UNCHANGED scene)

Spec == Init /\ [][Next]_vars /\ Fairness

----------------------------------------------------------------------------
StepStates == {"PENDING", "EXECUTING", "FILLED", "FAILED"}
TaskPlaces == {"none", "lock", "mark", "execute", "fill", "claim", "book", "record",
               "giveUp", "unlock", "fallback", "done"}

\* The shape of the rows and of the calls (core/sor/types.ts); a call that has
\* resolved the plan has a result.
Plans == [state : {"DRAFT", "RUNNING", "COMPLETED", "FAILED", "UNWOUND"}, allOrNone : BOOLEAN]
Runs == {c \in [at : {"idle", "asked", "loaded", "running", "steps", "resolved", "done", "dead"},
               result : {"none", "COMPLETED", "FAILED", "UNWOUND", "PARTIAL"}] :
           c.at = "resolved" => c.result # "none"}
Rows == [leg : Legs, provider : Nat, state : StepStates]
Tasks == [at : TaskPlaces, step : 0..MaxSteps, attempt : Nat, tried : SUBSET Nat, failed : BOOLEAN]
TypeOK ==
  /\ scene \in Scenes
  /\ plan \in Plans
  /\ steps \in Seq(Rows) /\ Len(steps) <= MaxSteps
  /\ locks \subseteq 1..Len(steps)
  /\ fills \in [Ids -> Nat]
  /\ exposure \in [Ids -> {"none", "claimed", "booked"}]
  /\ run \in [Runners -> Runs]
  /\ task \in [Runners -> [Ids -> Tasks]]
  /\ \A r \in Runners, i \in Ids : task[r][i].at # "none" => Step(r, i) \in 1..Len(steps)

\* From the claim of a step's row until what became of it is written.
Executing(r, i) == task[r][i].at \in {"execute", "fill", "claim", "book", "record", "giveUp"}

\* plan-runner.ts:562-572: two calls never execute the same step at the same
\* time, even when its lock has expired or another call has deleted it.
OneExecutorPerStep ==
  \A r, q \in Runners, i, j \in Ids :
    Executing(r, i) /\ Executing(q, j) /\ Step(r, i) = Step(q, j) => r = q /\ i = j

\* plan-runner.ts:247-276: no row and no exposure claims a fill that the provider
\* has not executed, whatever throws and whoever runs the plan again.
FillsAreReal ==
  /\ TypeOK
  /\ \A i \in 1..Len(steps) :
       steps[i].state = "FILLED" \/ exposure[i] # "none" => fills[i] > 0

Covered(l) == \E i \in Is("FILLED") : steps[i].leg = l

\* plan-runner.ts:420-474: a call that is the only one leaves a leg without a
\* fill only when every provider that quoted the leg has failed on it.
GivenUpOnlyWhenExhausted ==
  \A r \in Runners :
    scene.calls = {r} /\ run[r].at = "done" =>
      \A l \in Legs : (\E i \in 1..Len(steps) : steps[i].leg = l) =>
        Covered(l) \/ Candidates[l] \subseteq {steps[i].provider : i \in {k \in Is("FAILED") : steps[k].leg = l}}

\* plan-runner.ts:316-389: what the only call on a plan answers is what became of
\* the steps.
ResultMatchesSteps ==
  \A r \in Runners :
    scene.calls = {r} /\ run[r].at = "done" =>
      /\ Is("PENDING") = {} /\ Is("EXECUTING") = {}
      /\ run[r].result = "COMPLETED" => \A i \in 1..Len(steps) : Covered(steps[i].leg)
      /\ run[r].result = "PARTIAL" => ~plan.allOrNone /\ \E l, m \in Legs : Covered(l) /\ ~Covered(m)
      /\ run[r].result = "FAILED" => Is("FILLED") = {}

\* plan-runner.ts:169-196: retries and fallbacks come to an end, and so does the
\* only call on a plan.
RunEnds ==
  \A r \in Runners :
    scene.calls = {r} /\ run[r].at = "loaded" ~> run[r].at \in {"done", "dead"}
=============================================================================
