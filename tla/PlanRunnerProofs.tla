-------------------------- MODULE PlanRunnerProofs --------------------------
(***************************************************************************)
(* Proofs about PlanRunner, for any number of calls, any plan within its   *)
(* bound of rows, any providers, and whatever dies, throws or expires:     *)
(* recorded fills are real, a step has one executor at a time, and a call  *)
(* that is alone on its plan answers what became of it.                    *)
(***************************************************************************)
EXTENDS PlanRunner, TLAPS

----------------------------------------------------------------------------
(* Sequences: what an element, an updated one and an appended one are.     *)

LEMMA SeqElements ==
  ASSUME NEW S, NEW q \in Seq(S)
  PROVE  Len(q) \in Nat /\ \A k \in 1..Len(q) : q[k] \in S
  OBVIOUS

LEMMA SeqUpdate ==
  ASSUME NEW S, NEW q \in Seq(S), NEW k \in 1..Len(q), NEW x \in S
  PROVE  LET u == [q EXCEPT ![k] = x]
         IN  /\ u \in Seq(S) /\ Len(u) = Len(q) /\ u[k] = x
             /\ \A j \in 1..Len(q) : j # k => u[j] = q[j]
  OBVIOUS

LEMMA SeqAppend ==
  ASSUME NEW S, NEW q \in Seq(S), NEW x \in S
  PROVE  LET u == Append(q, x)
         IN  /\ u \in Seq(S) /\ Len(u) = Len(q) + 1 /\ u[Len(q) + 1] = x
             /\ \A j \in 1..Len(q) : u[j] = q[j]
  OBVIOUS

----------------------------------------------------------------------------
(* Recorded fills are real.                                                *)

Recording == {"fill", "claim", "book", "record"}

\* A row, a claim and a call that has had an answer each stand for a fill.
Filled ==
  /\ \A i \in 1..Len(steps) : steps[i].state = "FILLED" => fills[i] > 0
  /\ \A i \in Ids : exposure[i] # "none" => fills[i] > 0
  /\ \A r \in Runners, i \in Ids : task[r][i].at \in Recording => fills[Step(r, i)] > 0

FillInv == TypeOK /\ Filled

\* The plan has rows, within the bound of its scene.
LEMMA SceneFacts ==
  ASSUME NEW s \in Scenes
  PROVE  /\ Len(s.planned) \in Nat /\ Len(s.planned) <= MaxSteps
         /\ \A i \in 1..Len(s.planned) : s.planned[i] \in [leg : Legs, provider : Nat]
         /\ s.rows \in Nat /\ s.rows <= MaxSteps /\ s.policies \subseteq BOOLEAN
<1>1. /\ s.planned \in Seq([leg : Legs, provider : Nat]) /\ s.policies \subseteq BOOLEAN
      /\ s.rows \in Nat /\ s.rows <= MaxSteps /\ Len(s.planned) <= s.rows
  BY ScenesAssumption
<1>2. /\ Len(s.planned) \in Nat
      /\ \A i \in 1..Len(s.planned) : s.planned[i] \in [leg : Legs, provider : Nat]
  BY <1>1, SeqElements
<1> QED
  BY <1>1, <1>2, BoundsAssumption

\* The invariant holds of a plan as PlanComposer has persisted it.
LEMMA InitFill == Init => FillInv
<1> SUFFICES ASSUME Init PROVE FillInv
  OBVIOUS
<1>1. scene \in Scenes /\ plan.state = "DRAFT"
  BY DEF Init
<1>2. plan \in Plans
  BY <1>1, SceneFacts DEF Init, Plans
<1>3. /\ steps \in Seq(Rows) /\ Len(steps) <= MaxSteps
      /\ \A i \in 1..Len(steps) : steps[i].state = "PENDING"
  <2> DEFINE n == Len(scene.planned)
             new(i) == [leg |-> scene.planned[i].leg, provider |-> scene.planned[i].provider, state |-> "PENDING"]
  <2>1. n \in Nat /\ n <= MaxSteps /\ \A i \in 1..n : scene.planned[i] \in [leg : Legs, provider : Nat]
    BY <1>1, SceneFacts
  <2>2. \A i \in 1..n : new(i) \in Rows /\ new(i).state = "PENDING"
    BY <2>1 DEF Rows, StepStates
  <2>3. steps = [i \in 1..n |-> new(i)]
    BY DEF Init
  <2> HIDE DEF n, new
  <2>4. steps \in [1..n -> Rows] /\ \A i \in 1..n : steps[i].state = "PENDING"
    BY <2>2, <2>3
  <2>5. steps \in Seq(Rows) /\ Len(steps) = n
    BY <2>1, <2>4
  <2> QED
    BY <2>1, <2>4, <2>5
<1>4. /\ NoTask \in Tasks /\ NoTask.at = "none"
  BY BoundsAssumption DEF NoTask, Tasks, TaskPlaces
<1>5. task \in [Runners -> [Ids -> Tasks]] /\ \A r \in Runners, i \in Ids : task[r][i].at = "none"
  BY <1>4 DEF Init
<1>6. locks \subseteq 1..Len(steps) /\ fills \in [Ids -> Nat] /\ exposure \in [Ids -> {"none", "claimed", "booked"}]
  BY DEF Init
<1>7. run \in [Runners -> Runs]
  BY DEF Init, Runs
<1>8. TypeOK
  BY <1>1, <1>2, <1>3, <1>5, <1>6, <1>7 DEF TypeOK
<1>9. Filled
  BY <1>3, <1>5 DEF Filled, Init, Recording
<1> QED
  BY <1>8, <1>9 DEF FillInv

\* One task moves to t, rows and fills are only added to, and whatever is
\* recorded stands for a fill.
LEMMA TaskMoves ==
  ASSUME FillInv, NEW r \in Runners, NEW i \in Ids, NEW t \in Tasks,
         task' = [task EXCEPT ![r] = [@ EXCEPT ![i] = t]],
         UNCHANGED <<scene, plan>>, run' = run,
         steps' \in Seq(Rows), Len(steps') <= MaxSteps, Len(steps) <= Len(steps'),
         locks' \subseteq 1..Len(steps'),
         fills' \in [Ids -> Nat], \A k \in Ids : fills'[k] >= fills[k],
         exposure' \in [Ids -> {"none", "claimed", "booked"}],
         t.at # "none" => t.step \in 1..Len(steps'),
         t.at \in Recording => fills'[t.step] > 0,
         \A k \in Ids : exposure'[k] # "none" => exposure[k] # "none" \/ fills[k] > 0,
         \A k \in 1..Len(steps') : steps'[k].state = "FILLED" =>
           fills[k] > 0 \/ (k <= Len(steps) /\ steps[k].state = "FILLED")
  PROVE  FillInv'
<1>1. /\ task' \in [Runners -> [Ids -> Tasks]] /\ task'[r][i] = t
      /\ \A q \in Runners, j \in Ids : q # r \/ j # i => task'[q][j] = task[q][j]
  BY DEF FillInv, TypeOK
<1>2. Len(steps) \in Nat /\ Len(steps') \in Nat /\ MaxSteps \in Nat
  BY BoundsAssumption DEF FillInv, TypeOK
<1>3. ASSUME NEW q \in Runners, NEW j \in Ids, task'[q][j].at # "none"
      PROVE  Step(q, j)' \in 1..Len(steps')
  <2>1. CASE q = r /\ j = i
    BY <1>1, <1>3, <2>1 DEF Step
  <2>2. CASE q # r \/ j # i
    <3>1. task'[q][j] = task[q][j]
      BY <1>1, <2>2
    <3>2. Step(q, j) \in 1..Len(steps)
      BY <1>3, <3>1 DEF FillInv, TypeOK
    <3> QED
      BY <1>2, <3>1, <3>2 DEF Step
  <2> QED
    BY <2>1, <2>2
<1>4. TypeOK'
  BY <1>1, <1>3 DEF FillInv, TypeOK
<1>5. ASSUME NEW q \in Runners, NEW j \in Ids, task'[q][j].at \in Recording
      PROVE  fills'[Step(q, j)'] > 0
  <2>1. CASE q = r /\ j = i
    BY <1>1, <1>5, <2>1 DEF Step
  <2>2. CASE q # r \/ j # i
    <3>1. task'[q][j] = task[q][j] /\ task[q][j].at # "none"
      BY <1>1, <1>5, <2>2 DEF Recording
    <3>2. Step(q, j) \in Ids /\ fills[Step(q, j)] > 0
      BY <1>2, <1>5, <3>1 DEF FillInv, TypeOK, Filled, Ids
    <3> QED
      BY <3>1, <3>2 DEF Step, FillInv, TypeOK
  <2> QED
    BY <2>1, <2>2
<1>6. \A k \in 1..Len(steps') : steps'[k].state = "FILLED" => fills'[k] > 0
  BY <1>2 DEF FillInv, TypeOK, Filled, Ids
<1>7. \A k \in Ids : exposure'[k] # "none" => fills'[k] > 0
  BY DEF FillInv, TypeOK, Filled
<1> QED
  BY <1>4, <1>5, <1>6, <1>7 DEF FillInv, Filled

\* A task that goes on with its step, in the same try or in the next.
GoesOn(r, i, place) ==
  \/ Goto(r, i, place)
  \/ task' = [task EXCEPT ![r][i].at = place, ![r][i].attempt = @ + 1]
  \/ task' = [task EXCEPT ![r][i].at = place, ![r][i].failed = TRUE]

LEMMA GoesOnMoves ==
  ASSUME FillInv, NEW r \in Runners, NEW i \in Ids, NEW place \in TaskPlaces,
         GoesOn(r, i, place)
  PROVE  \E t \in Tasks : /\ t.at = place /\ t.step = Step(r, i)
                          /\ task' = [task EXCEPT ![r] = [@ EXCEPT ![i] = t]]
<1>1. task[r][i] \in Tasks /\ task \in [Runners -> [Ids -> Tasks]]
  BY DEF FillInv, TypeOK
<1>2. CASE Goto(r, i, place)
  <2>1. [task[r][i] EXCEPT !.at = place] \in Tasks
    BY <1>1 DEF Tasks
  <2> QED
    BY <1>1, <1>2, <2>1 DEF Goto, Step, Tasks
<1>3. CASE task' = [task EXCEPT ![r][i].at = place, ![r][i].attempt = @ + 1]
  <2>1. [task[r][i] EXCEPT !.at = place, !.attempt = @ + 1] \in Tasks
    <3>1. task[r][i].attempt + 1 \in Nat
      BY <1>1 DEF Tasks
    <3> QED
      BY <1>1, <3>1 DEF Tasks
  <2> QED
    BY <1>1, <1>3, <2>1 DEF Step, Tasks
<1>4. CASE task' = [task EXCEPT ![r][i].at = place, ![r][i].failed = TRUE]
  <2>1. [task[r][i] EXCEPT !.at = place, !.failed = TRUE] \in Tasks
    BY <1>1 DEF Tasks
  <2> QED
    BY <1>1, <1>4, <2>1 DEF Step, Tasks
<1> QED
  BY <1>2, <1>3, <1>4 DEF GoesOn

\* A step of a task is one of them, or takes a fallback step.
LEMMA TaskStepFill ==
  ASSUME FillInv, NEW r \in Runners, NEW i \in Ids, TaskStep(r, i), UNCHANGED scene
  PROVE  FillInv'
<1>1. TypeOK /\ Filled
  BY DEF FillInv
<1>2. task[r][i].at # "none" /\ Step(r, i) \in 1..Len(steps) /\ Step(r, i) \in Ids
  <2>1. task[r][i].at # "none"
    BY DEF TaskStep, Lock, markStepExecuting, Unlock, ExecuteOk, ExecuteFails, StatementFails,
       markStepFilled, ClaimExposure, BookExposure, Recorded, markStepFailed, createFallbackStep,
       NoFallback, At
  <2>2. Len(steps) \in Nat /\ Len(steps) <= MaxSteps
    BY <1>1 DEF TypeOK
  <2> QED
    BY <1>1, <2>1, <2>2, BoundsAssumption DEF TypeOK, Ids
\* The common case: the same rows but for the state of this one.
<1>3. ASSUME NEW place \in TaskPlaces, GoesOn(r, i, place), UNCHANGED <<plan, run>>,
             NEW state \in StepStates, steps' = steps \/ SetState(r, i, state),
             state = "FILLED" => fills[Step(r, i)] > 0,
             locks' \subseteq 1..Len(steps),
             fills' = fills \/ ProviderExecutes(r, i),
             exposure' = exposure \/
               \E e \in {"claimed", "booked"} : exposure' = [exposure EXCEPT ![Step(r, i)] = e],
             place \in Recording => fills'[Step(r, i)] > 0,
             exposure' # exposure => fills[Step(r, i)] > 0
      PROVE  FillInv'
  <2>1. PICK t \in Tasks : /\ t.at = place /\ t.step = Step(r, i)
                          /\ task' = [task EXCEPT ![r] = [@ EXCEPT ![i] = t]]
    BY <1>3, GoesOnMoves
  <2>2. /\ steps' \in Seq(Rows) /\ Len(steps') = Len(steps)
        /\ \A k \in 1..Len(steps') : steps'[k].state = "FILLED" =>
             fills[k] > 0 \/ (k <= Len(steps) /\ steps[k].state = "FILLED")
    <3>1. steps \in Seq(Rows) /\ Len(steps) \in Nat
      BY <1>1 DEF TypeOK
    <3>2. CASE steps' = steps
      BY <3>1, <3>2
    <3>3. CASE SetState(r, i, state)
      <4> DEFINE row == [steps[Step(r, i)] EXCEPT !.state = state]
      <4>1. row \in Rows /\ row.state = state
        <5>1. steps[Step(r, i)] \in Rows
          BY <1>2, <3>1, SeqElements
        <5> QED
          BY <1>3, <5>1 DEF Rows
      <4>2. steps' = [steps EXCEPT ![Step(r, i)] = row]
        BY <1>2, <3>1, <3>3 DEF SetState
      <4> HIDE DEF row
      <4> QED
        BY <1>2, <1>3, <3>1, <4>1, <4>2, SeqUpdate
    <3> QED
      BY <1>3, <3>2, <3>3
  <2>3. fills' \in [Ids -> Nat] /\ \A k \in Ids : fills'[k] >= fills[k]
    <3>1. fills \in [Ids -> Nat] /\ \A k \in Ids : fills[k] \in Nat
      BY <1>1 DEF TypeOK
    <3>2. CASE fills' = fills
      BY <3>1, <3>2
    <3>3. CASE ProviderExecutes(r, i)
      <4>1. fills' = [fills EXCEPT ![Step(r, i)] = fills[Step(r, i)] + 1] /\ fills[Step(r, i)] \in Nat
        BY <1>2, <3>1, <3>3 DEF ProviderExecutes
      <4> QED
        BY <1>2, <3>1, <4>1
    <3> QED
      BY <1>3, <3>2, <3>3
  <2>4. /\ exposure' \in [Ids -> {"none", "claimed", "booked"}]
        /\ \A k \in Ids : exposure'[k] # "none" => exposure[k] # "none" \/ fills[k] > 0
    BY <1>1, <1>2, <1>3 DEF TypeOK
  <2>5. Len(steps) \in Nat /\ Len(steps) <= MaxSteps
    BY <1>1 DEF TypeOK
  <2>6. t.at = place /\ t.step \in 1..Len(steps') /\ (t.at \in Recording => fills'[t.step] > 0)
    BY <1>2, <1>3, <2>1, <2>2
  <2>7. /\ Len(steps') <= MaxSteps /\ Len(steps) <= Len(steps') /\ locks' \subseteq 1..Len(steps')
        /\ UNCHANGED <<scene, plan>> /\ run' = run
    BY <1>3, <2>2, <2>5
  <2> QED
    BY <2>1, <2>2, <2>3, <2>4, <2>6, <2>7, TaskMoves
<1>4. /\ \A p : Goto(r, i, p) => GoesOn(r, i, p)
      /\ AttemptFailed(r, i) => GoesOn(r, i, "execute") \/ GoesOn(r, i, "giveUp")
      /\ TaskPlaces = {"none", "lock", "mark", "execute", "fill", "claim", "book", "record",
                       "giveUp", "unlock", "fallback", "done"}
      /\ StepStates = {"PENDING", "EXECUTING", "FILLED", "FAILED"}
      /\ Recording = {"fill", "claim", "book", "record"}
      /\ locks \subseteq 1..Len(steps) /\ locks \cup {Step(r, i)} \subseteq 1..Len(steps)
      /\ task[r][i].at \in Recording => fills[Step(r, i)] > 0
      /\ ProviderExecutes(r, i) => fills'[Step(r, i)] > 0
  <2>1. fills[Step(r, i)] \in Nat /\ fills \in [Ids -> Nat]
    BY <1>1, <1>2 DEF TypeOK
  <2>2. ProviderExecutes(r, i) => fills'[Step(r, i)] = fills[Step(r, i)] + 1
    BY <1>2, <2>1 DEF ProviderExecutes
  <2>3. /\ \A p : Goto(r, i, p) => GoesOn(r, i, p)
        /\ AttemptFailed(r, i) => GoesOn(r, i, "execute") \/ GoesOn(r, i, "giveUp")
    BY DEF GoesOn, AttemptFailed
  <2>4. task[r][i].at \in Recording => fills[Step(r, i)] > 0
    BY <1>1 DEF Filled
  <2>5. locks \subseteq 1..Len(steps)
    BY <1>1 DEF TypeOK
  <2>6. ProviderExecutes(r, i) => fills'[Step(r, i)] > 0
    BY <2>1, <2>2
  <2>7. locks \cup {Step(r, i)} \subseteq 1..Len(steps)
    BY <1>2, <2>5
  <2> QED
    BY <2>3, <2>4, <2>5, <2>6, <2>7 DEF TaskPlaces, StepStates, Recording
<1>5. CASE Lock(r, i)
  BY <1>3, <1>4, <1>5 DEF Lock
<1>6. CASE markStepExecuting(r, i)
  BY <1>3, <1>4, <1>6 DEF markStepExecuting
<1>7. CASE Unlock(r, i)
  BY <1>3, <1>4, <1>7 DEF Unlock
<1>8. CASE ExecuteOk(r, i)
  BY <1>3, <1>4, <1>8 DEF ExecuteOk
<1>9. CASE ExecuteFails(r, i)
  BY <1>3, <1>4, <1>9 DEF ExecuteFails
<1>10. CASE StatementFails(r, i)
  BY <1>3, <1>4, <1>10 DEF StatementFails
<1>11. CASE markStepFilled(r, i)
  BY <1>3, <1>4, <1>11 DEF markStepFilled, At
<1>12. CASE ClaimExposure(r, i)
  BY <1>3, <1>4, <1>12 DEF ClaimExposure, At
<1>13. CASE BookExposure(r, i)
  BY <1>3, <1>4, <1>13 DEF BookExposure, At
<1>14. CASE Recorded(r, i)
  BY <1>3, <1>4, <1>14 DEF Recorded
<1>15. CASE markStepFailed(r, i)
  BY <1>3, <1>4, <1>15 DEF markStepFailed, GoesOn
<1>16. CASE NoFallback(r, i)
  BY <1>3, <1>4, <1>16 DEF NoFallback
<1>17. CASE createFallbackStep(r, i)
  <2>1. PICK p \in Untried(r, i) :
          /\ steps' = Append(steps, [steps[Step(r, i)] EXCEPT !.provider = p, !.state = "PENDING"])
          /\ task' = [task EXCEPT ![r][i] =
               [at |-> "lock", step |-> Len(steps) + 1, attempt |-> 1,
                tried |-> task[r][i].tried \cup {p}, failed |-> FALSE]]
    BY <1>17 DEF createFallbackStep
  <2> DEFINE t == [at |-> "lock", step |-> Len(steps) + 1, attempt |-> 1,
                   tried |-> task[r][i].tried \cup {p}, failed |-> FALSE]
             row == [steps[Step(r, i)] EXCEPT !.provider = p, !.state = "PENDING"]
  <2>2. Len(steps) \in Nat /\ Len(steps) + 1 <= MaxSteps
    BY <1>1, <1>17, SceneFacts, BoundsAssumption DEF TypeOK, createFallbackStep
  <2>3. steps \in Seq(Rows) /\ steps[Step(r, i)] \in Rows
    BY <1>1, <1>2, SeqElements DEF TypeOK
  <2>4. p \in Nat
    BY <2>1, <2>3, CandidatesAssumption DEF Untried, Rows
  <2>5. row \in Rows /\ row.state = "PENDING"
    BY <2>3, <2>4 DEF Rows, StepStates
  <2>6. t \in Tasks /\ t.at = "lock" /\ t.step = Len(steps) + 1
    BY <1>1, <2>2, <2>4, BoundsAssumption DEF TypeOK, Tasks, TaskPlaces
  <2>7. task' = [task EXCEPT ![r] = [@ EXCEPT ![i] = t]] /\ steps' = Append(steps, row)
    BY <2>1
  <2> HIDE DEF t, row
  <2>8. /\ steps' \in Seq(Rows) /\ Len(steps') = Len(steps) + 1
        /\ steps'[Len(steps) + 1] = row /\ \A k \in 1..Len(steps) : steps'[k] = steps[k]
    BY <2>3, <2>5, <2>7, SeqAppend
  <2>9. /\ locks' = locks /\ fills' = fills /\ exposure' = exposure
        /\ UNCHANGED <<scene, plan>> /\ run' = run
    BY <1>17 DEF createFallbackStep
  <2>10. /\ fills' \in [Ids -> Nat] /\ \A k \in Ids : fills'[k] >= fills[k]
         /\ exposure' \in [Ids -> {"none", "claimed", "booked"}]
         /\ locks' \subseteq 1..Len(steps')
    BY <1>1, <2>2, <2>8, <2>9 DEF TypeOK
  <2>11. \A k \in 1..Len(steps') : steps'[k].state = "FILLED" =>
           k <= Len(steps) /\ steps[k].state = "FILLED"
    BY <2>2, <2>5, <2>8
  <2>12. /\ Len(steps') <= MaxSteps /\ Len(steps) <= Len(steps')
         /\ t.step \in 1..Len(steps') /\ t.at \notin Recording
    BY <2>2, <2>6, <2>8 DEF Recording
  <2> QED
    BY <2>6, <2>7, <2>8, <2>9, <2>10, <2>11, <2>12, TaskMoves
<1> QED
  BY <1>5, <1>6, <1>7, <1>8, <1>9, <1>10, <1>11, <1>12, <1>13, <1>14, <1>15, <1>16, <1>17 DEF TaskStep

\* Rows, fills and claims stay, and so do the tasks or they are forgotten.
LEMMA RowsStay ==
  ASSUME FillInv, UNCHANGED <<scene, steps, fills, exposure>>,
         plan' \in Plans,
         run' \in [Runners -> Runs],
         locks' \subseteq locks,
         task' \in [Runners -> [Ids -> Tasks]],
         \A r \in Runners, i \in Ids :
           \/ task'[r][i].at = task[r][i].at /\ task'[r][i].step = task[r][i].step
           \/ task'[r][i].at = "none"
           \/ task'[r][i].at \notin Recording /\ task'[r][i].step \in 1..Len(steps)
  PROVE  FillInv'
<1>1. TypeOK /\ Filled
  BY DEF FillInv
<1>2. TypeOK'
  BY <1>1 DEF TypeOK, Step
<1>3. Filled'
  BY <1>1 DEF Filled, Step, Recording
<1> QED
  BY <1>2, <1>3 DEF FillInv

\* Only the plan, the calls or the locks change.
LEMMA TasksStay ==
  ASSUME FillInv, UNCHANGED <<scene, steps, fills, exposure, task>>,
         plan' \in Plans,
         run' \in [Runners -> Runs],
         locks' \subseteq locks
  PROVE  FillInv'
<1>1. task \in [Runners -> [Ids -> Tasks]]
  BY DEF FillInv, TypeOK
<1> QED
  BY <1>1, RowsStay

\* The steps of a call before and after its tasks, of crashes and of the operator.
LEMMA RunStepFill ==
  ASSUME FillInv, NEW r \in Runners, UNCHANGED scene,
         Start(r) \/ RunStep(r) \/ Crash(r)
  PROVE  FillInv'
<1>1. TypeOK /\ plan.state \in {"DRAFT", "RUNNING", "COMPLETED", "FAILED", "UNWOUND"} /\ plan.allOrNone \in BOOLEAN
  BY DEF FillInv, TypeOK, Plans
<1>2. /\ run[r].at \in {"idle", "asked", "loaded", "running", "steps", "resolved", "done", "dead"}
      /\ run[r].result \in {"none", "COMPLETED", "FAILED", "UNWOUND", "PARTIAL"}
      /\ run[r].at = "resolved" => run[r].result # "none"
  BY <1>1 DEF TypeOK, Runs
<1>3. CASE Start(r)
  BY <1>1, <1>2, <1>3, TasksStay DEF Start, TypeOK, Runs, Terminal
<1>4. CASE MarkRunning(r)
  BY <1>1, <1>2, <1>4, TasksStay DEF MarkRunning, TypeOK, Runs, Plans
<1>5. CASE StartSteps(r)
  <2>1. Len(steps) \in Nat /\ Len(steps) <= MaxSteps /\ steps \in Seq(Rows)
    BY <1>1 DEF TypeOK
  <2>2. NoTask \in Tasks /\ NoTask.at = "none"
    BY BoundsAssumption DEF NoTask, Tasks, TaskPlaces
  <2>3. ASSUME NEW i \in 1..Len(steps)
        PROVE  Begin(i) \in Tasks /\ Begin(i).at = "lock" /\ Begin(i).step = i
    <3>1. steps[i] \in Rows
      BY <2>1, SeqElements
    <3>2. i \in 0..MaxSteps /\ {steps[i].provider} \in SUBSET Nat
      BY <2>1, <3>1, BoundsAssumption DEF Rows
    <3> QED
      BY <2>2, <3>2 DEF Begin, Tasks, TaskPlaces
  <2> DEFINE begun == [i \in Ids |-> IF i \in (1..Len(steps)) \ Is("FILLED") THEN Begin(i) ELSE NoTask]
  <2>4. begun \in [Ids -> Tasks]
    BY <2>2, <2>3
  <2>5. \A i \in Ids : begun[i].at = "none" \/ (begun[i].at = "lock" /\ begun[i].step \in 1..Len(steps))
    BY <2>2, <2>3
  <2>6. task' = [task EXCEPT ![r] = begun]
    BY <1>5 DEF StartSteps
  <2> HIDE DEF begun
  <2>7. task' \in [Runners -> [Ids -> Tasks]]
    BY <1>1, <2>4, <2>6 DEF TypeOK
  <2>8. ASSUME NEW q \in Runners, NEW i \in Ids
        PROVE  \/ task'[q][i].at = task[q][i].at /\ task'[q][i].step = task[q][i].step
               \/ task'[q][i].at = "none"
               \/ task'[q][i].at \notin Recording /\ task'[q][i].step \in 1..Len(steps)
    BY <1>1, <2>5, <2>6 DEF TypeOK, Recording
  <2>9. run' \in [Runners -> Runs]
    BY <1>1, <1>2, <1>5 DEF StartSteps, TypeOK, Runs
  <2>10. UNCHANGED <<steps, fills, exposure>> /\ locks' \subseteq locks
         /\ plan' \in Plans
    BY <1>1, <1>5 DEF StartSteps, TypeOK
  <2> QED
    BY <2>7, <2>8, <2>9, <2>10, RowsStay
<1>6. CASE resolvePlanResult(r)
  <2>1. Resolution \in {"UNWOUND", "FAILED", "PARTIAL", "COMPLETED"}
    BY DEF Resolution
  <2> QED
    BY <1>1, <1>2, <1>6, <2>1, TasksStay DEF resolvePlanResult, TypeOK, Runs
<1>7. CASE Finish(r)
  <2>1. plan' \in Plans
    BY <1>1, <1>2, <1>7 DEF Finish, TypeOK, Plans
  <2>2. run' \in [Runners -> Runs]
    BY <1>1, <1>2, <1>7 DEF Finish, TypeOK, Runs
  <2> QED
    BY <1>1, <1>7, <2>1, <2>2, TasksStay DEF Finish
<1>8. CASE Crash(r)
  <2>1. NoTask \in Tasks /\ NoTask.at = "none"
    BY BoundsAssumption DEF NoTask, Tasks, TaskPlaces
  <2>2. task' \in [Runners -> [Ids -> Tasks]]
    BY <1>1, <1>8, <2>1 DEF Crash, TypeOK
  <2>3. \A q \in Runners, i \in Ids : task'[q][i] = task[q][i] \/ task'[q][i].at = "none"
    BY <1>1, <1>8, <2>1 DEF Crash, TypeOK
  <2> QED
    BY <1>1, <1>2, <1>8, <2>2, <2>3, RowsStay DEF Crash, TypeOK, Runs
<1> QED
  BY <1>3, <1>4, <1>5, <1>6, <1>7, <1>8 DEF RunStep

\* A task whose command throws does nothing more.
LEMMA ThrowFill ==
  ASSUME FillInv, NEW r \in Runners, NEW i \in Ids, Throw(r, i), UNCHANGED scene
  PROVE  FillInv'
<1>1. TypeOK
  BY DEF FillInv
<1>2. GoesOn(r, i, "done") /\ "done" \in TaskPlaces
  BY DEF Throw, GoesOn, TaskPlaces
<1>3. PICK t \in Tasks : /\ t.at = "done" /\ t.step = Step(r, i)
                        /\ task' = [task EXCEPT ![r] = [@ EXCEPT ![i] = t]]
  BY <1>2, GoesOnMoves
<1>4. task[r][i].at # "none" /\ Step(r, i) \in 1..Len(steps)
  BY <1>1 DEF Throw, TypeOK
<1>5. task' \in [Runners -> [Ids -> Tasks]]
  BY <1>1, <1>3 DEF TypeOK
<1>6. \A q \in Runners, j \in Ids :
        \/ task'[q][j] = task[q][j]
        \/ task'[q][j].at = "done" /\ task'[q][j].step \in 1..Len(steps)
  BY <1>1, <1>3, <1>4 DEF TypeOK
<1>7. /\ UNCHANGED <<plan, steps, fills, exposure>> /\ locks' \subseteq locks
      /\ run' \in [Runners -> Runs]
  BY <1>1 DEF Throw, TypeOK, Runs
<1>8. "done" \notin Recording
  BY DEF Recording
<1> QED
  BY <1>1, <1>5, <1>6, <1>7, <1>8, RowsStay DEF TypeOK

\* retryStep resets a row and leaves what was filled alone.
LEMMA RetryStepFill ==
  ASSUME FillInv, NEW r \in Runners, NEW k \in Ids, NEW p \in UNION {Candidates[l] : l \in Legs},
         RetryStep(r, k, p), UNCHANGED scene
  PROVE  FillInv'
<1>1. TypeOK /\ Filled
  BY DEF FillInv
<1>2. steps \in Seq(Rows) /\ Len(steps) \in Nat /\ k \in 1..Len(steps)
  BY <1>1, BoundsAssumption DEF TypeOK, RetryStep, Ids
<1>3. steps[k] \in Rows
  BY <1>2, SeqElements
<1>4. p \in Nat
  BY CandidatesAssumption
<1> DEFINE row == [steps[k] EXCEPT !.provider = p, !.state = "PENDING"]
<1>5. row \in Rows /\ row.state = "PENDING"
  BY <1>3, <1>4 DEF Rows, StepStates
<1>6. steps' = [steps EXCEPT ![k] = row]
  BY <1>2 DEF RetryStep
<1> HIDE DEF row
<1>7. /\ steps' \in Seq(Rows) /\ Len(steps') = Len(steps) /\ steps'[k] = row
      /\ \A j \in 1..Len(steps) : j # k => steps'[j] = steps[j]
  BY <1>2, <1>5, <1>6, SeqUpdate
<1>8. /\ UNCHANGED <<plan, locks, fills, exposure, task>>
      /\ run' \in [Runners -> Runs]
  BY <1>1 DEF RetryStep, TypeOK, Runs
<1>9. TypeOK'
  BY <1>1, <1>7, <1>8 DEF TypeOK, Step
<1>10. Filled'
  BY <1>1, <1>5, <1>7, <1>8 DEF Filled, Step
<1> QED
  BY <1>9, <1>10 DEF FillInv

\* Every step of the calls and of the operator preserves the invariant.
LEMMA NextFill == FillInv /\ [Next]_vars => FillInv'
<1> SUFFICES ASSUME FillInv, [Next]_vars PROVE FillInv'
  OBVIOUS
<1>1. CASE UNCHANGED vars
  BY <1>1 DEF FillInv, TypeOK, Filled, Step, vars
<1>2. CASE Next
  <2>1. ASSUME NEW r \in Runners, Start(r) \/ RunStep(r) \/ Crash(r) PROVE FillInv'
    BY <1>2, <2>1, RunStepFill DEF Next
  <2>2. ASSUME NEW r \in Runners, NEW i \in Ids, TaskStep(r, i) \/ Throw(r, i) PROVE FillInv'
    BY <1>2, <2>2, TaskStepFill, ThrowFill DEF Next
  <2>3. ASSUME NEW k \in Ids, LockExpires(k) PROVE FillInv'
    BY <1>2, <2>3, TasksStay DEF Next, LockExpires, FillInv, TypeOK
  <2>4. ASSUME NEW r \in Runners, NEW k \in Ids, NEW p \in UNION {Candidates[l] : l \in Legs}, RetryStep(r, k, p)
        PROVE  FillInv'
    BY <1>2, <2>4, RetryStepFill DEF Next
  <2>5. ASSUME ForceUnwind PROVE FillInv'
    BY <1>2, <2>5, TasksStay DEF Next, ForceUnwind, FillInv, TypeOK, Plans
  <2> QED
    BY <1>2, <2>1, <2>2, <2>3, <2>4, <2>5 DEF Next
<1> QED
  BY <1>1, <1>2

\* plan-runner.ts:68-673: rows, tasks, calls and plan keep their shape, and a call
\* that has resolved its plan has a result to persist.
THEOREM RunnerTypeCorrect == Spec => []TypeOK
<1>1. FillInv => TypeOK
  BY DEF FillInv
<1> QED
  BY <1>1, InitFill, NextFill, PTL DEF Spec

\* plan-runner.ts:247-276: no row and no claim of exposure records a fill that the
\* provider has not executed, for any plan and any number of calls and retries.
THEOREM RecordedFillsAreReal == Spec => []FillsAreReal
<1>1. FillInv => FillsAreReal
  <2> SUFFICES ASSUME FillInv PROVE FillsAreReal
    OBVIOUS
  <2>1. Len(steps) \in Nat /\ Len(steps) <= MaxSteps
    BY DEF FillInv, TypeOK
  <2> QED
    BY <2>1, BoundsAssumption DEF FillInv, Filled, FillsAreReal, Ids
<1> QED
  BY <1>1, InitFill, NextFill, PTL DEF Spec

----------------------------------------------------------------------------
(* One executor per step.                                                  *)

Working == {"execute", "fill", "claim", "book", "record", "giveUp"}
Claimed == {"EXECUTING", "FILLED"}

\* The row of a step that is being executed says so, until it says FILLED: what
\* keeps markStepExecuting from claiming it a second time.
RowsAreClaimed ==
  \A r \in Runners, i \in Ids : task[r][i].at \in Working => steps[Step(r, i)].state \in Claimed

ExecInv == FillInv /\ RowsAreClaimed /\ OneExecutorPerStep

\* Task i of call r moves to t.  It works on a step only when it has before or has
\* just claimed it, and no row loses its claim but the one whose work it ends.
LEMMA ExecMoves ==
  ASSUME FillInv, FillInv', RowsAreClaimed, OneExecutorPerStep,
         NEW r \in Runners, NEW i \in Ids, NEW t \in Tasks,
         task' = [task EXCEPT ![r] = [@ EXCEPT ![i] = t]],
         t.at \in Working =>
           /\ t.step = Step(r, i)
           /\ steps'[t.step].state \in Claimed
           /\ task[r][i].at \in Working \/ steps[t.step].state \notin Claimed,
         \A k \in 1..Len(steps) : steps[k].state \in Claimed =>
           \/ steps'[k].state \in Claimed
           \/ k = Step(r, i) /\ task[r][i].at \in Working /\ t.at \notin Working
  PROVE  RowsAreClaimed' /\ OneExecutorPerStep'
<1>1. /\ task \in [Runners -> [Ids -> Tasks]] /\ task'[r][i] = t
      /\ \A q \in Runners, j \in Ids : q # r \/ j # i => task'[q][j] = task[q][j]
  BY DEF FillInv, TypeOK
<1>2. ASSUME NEW q \in Runners, NEW j \in Ids, task[q][j].at \in Working
      PROVE  Step(q, j) \in 1..Len(steps) /\ steps[Step(q, j)].state \in Claimed
  BY <1>2 DEF FillInv, TypeOK, RowsAreClaimed, Working
<1>3. ASSUME NEW q \in Runners, NEW j \in Ids, q # r \/ j # i, task'[q][j].at \in Working,
             task[r][i].at \in Working
      PROVE  Step(q, j) # Step(r, i)
  BY <1>1, <1>3 DEF OneExecutorPerStep, Executing, Working
<1>4. RowsAreClaimed'
  <2> SUFFICES ASSUME NEW q \in Runners, NEW j \in Ids, task'[q][j].at \in Working
               PROVE  steps'[Step(q, j)'].state \in Claimed
    BY DEF RowsAreClaimed
  <2>1. CASE q = r /\ j = i
    BY <1>1, <2>1 DEF Step
  <2>2. CASE q # r \/ j # i
    <3>1. task'[q][j] = task[q][j] /\ Step(q, j)' = Step(q, j)
      BY <1>1, <2>2 DEF Step
    <3> QED
      BY <1>2, <1>3, <2>2, <3>1
  <2> QED
    BY <2>1, <2>2
<1>5. ASSUME NEW q \in Runners, NEW j \in Ids, q # r \/ j # i,
             task'[q][j].at \in Working, t.at \in Working
      PROVE  Step(q, j)' # t.step
  <2>1. task'[q][j] = task[q][j] /\ Step(q, j)' = Step(q, j)
    BY <1>1, <1>5 DEF Step
  <2> QED
    BY <1>2, <1>3, <1>5, <2>1
<1>6. OneExecutorPerStep'
  <2> SUFFICES ASSUME NEW p \in Runners, NEW q \in Runners, NEW h \in Ids, NEW j \in Ids,
                      task'[p][h].at \in Working, task'[q][j].at \in Working,
                      Step(p, h)' = Step(q, j)'
               PROVE  p = q /\ h = j
    BY DEF OneExecutorPerStep, Executing, Working
  <2>1. CASE p = r /\ h = i
    BY <1>1, <1>5, <2>1 DEF Step
  <2>2. CASE q = r /\ j = i
    BY <1>1, <1>5, <2>2 DEF Step
  <2>3. CASE (p # r \/ h # i) /\ (q # r \/ j # i)
    <3>1. /\ task'[p][h] = task[p][h] /\ task'[q][j] = task[q][j]
          /\ Step(p, h) = Step(q, j)
      BY <1>1, <2>3 DEF Step
    <3> QED
      BY <3>1 DEF OneExecutorPerStep, Executing, Working
  <2> QED
    BY <2>1, <2>2, <2>3
<1> QED
  BY <1>4, <1>6

\* Tasks are only forgotten or begun, and rows stay.
LEMMA ExecForgets ==
  ASSUME RowsAreClaimed, OneExecutorPerStep, steps' = steps,
         \A r \in Runners, i \in Ids : task'[r][i] = task[r][i] \/ task'[r][i].at \notin Working
  PROVE  RowsAreClaimed' /\ OneExecutorPerStep'
<1>1. RowsAreClaimed'
  BY DEF RowsAreClaimed, Step
<1>2. OneExecutorPerStep'
  BY DEF OneExecutorPerStep, Executing, Step, Working
<1> QED
  BY <1>1, <1>2

\* A step of a task that works on: in its own row, which it has claimed.
LEMMA TaskStepExec ==
  ASSUME FillInv, FillInv', RowsAreClaimed, OneExecutorPerStep,
         NEW r \in Runners, NEW i \in Ids, TaskStep(r, i)
  PROVE  RowsAreClaimed' /\ OneExecutorPerStep'
<1>1. /\ steps \in Seq(Rows) /\ Len(steps) \in Nat
      /\ task \in [Runners -> [Ids -> Tasks]]
  BY DEF FillInv, TypeOK
<1>2. task[r][i].at # "none" /\ Step(r, i) \in 1..Len(steps)
  <2>1. task[r][i].at # "none"
    BY DEF TaskStep, Lock, markStepExecuting, Unlock, ExecuteOk, ExecuteFails, StatementFails,
       markStepFilled, ClaimExposure, BookExposure, Recorded, markStepFailed, createFallbackStep,
       NoFallback, At
  <2> QED
    BY <2>1 DEF FillInv, TypeOK
<1>3. task[r][i].at \in Working => steps[Step(r, i)].state \in Claimed
  BY DEF RowsAreClaimed
\* The rows stay, and the task works only when it has before.
<1>4. ASSUME NEW place \in TaskPlaces, GoesOn(r, i, place), steps' = steps,
             place \in Working => task[r][i].at \in Working
      PROVE  RowsAreClaimed' /\ OneExecutorPerStep'
  <2>1. PICK t \in Tasks : /\ t.at = place /\ t.step = Step(r, i)
                          /\ task' = [task EXCEPT ![r] = [@ EXCEPT ![i] = t]]
    BY <1>4, GoesOnMoves
  <2> QED
    BY <1>3, <1>4, <2>1, ExecMoves
\* The row of the task gets another state.
<1>5. ASSUME NEW place \in TaskPlaces, GoesOn(r, i, place),
             NEW state \in StepStates, SetState(r, i, state),
             \/ state \in Claimed /\ (task[r][i].at \in Working \/ steps[Step(r, i)].state \notin Claimed)
             \/ place \notin Working /\ task[r][i].at \in Working
      PROVE  RowsAreClaimed' /\ OneExecutorPerStep'
  <2>1. PICK t \in Tasks : /\ t.at = place /\ t.step = Step(r, i)
                          /\ task' = [task EXCEPT ![r] = [@ EXCEPT ![i] = t]]
    BY <1>5, GoesOnMoves
  <2> DEFINE row == [steps[Step(r, i)] EXCEPT !.state = state]
  <2>2. row \in Rows /\ row.state = state
    <3>1. steps[Step(r, i)] \in Rows
      BY <1>1, <1>2, SeqElements
    <3> QED
      BY <3>1 DEF Rows
  <2>3. steps' = [steps EXCEPT ![Step(r, i)] = row]
    BY <1>1, <1>2, <1>5 DEF SetState
  <2> HIDE DEF row
  <2>4. /\ steps'[Step(r, i)].state = state
        /\ \A k \in 1..Len(steps) : k # Step(r, i) => steps'[k] = steps[k]
    BY <1>1, <1>2, <2>2, <2>3, SeqUpdate
  <2>5. \A k \in 1..Len(steps) : steps[k].state \in Claimed =>
          \/ steps'[k].state \in Claimed
          \/ k = Step(r, i) /\ task[r][i].at \in Working /\ t.at \notin Working
    BY <1>5, <2>1, <2>4
  <2>6. t.at \in Working =>
          /\ t.step = Step(r, i)
          /\ steps'[t.step].state \in Claimed
          /\ task[r][i].at \in Working \/ steps[t.step].state \notin Claimed
    BY <1>5, <2>1, <2>4
  <2> QED
    BY <2>1, <2>5, <2>6, ExecMoves
<1>6. /\ \A p : Goto(r, i, p) => GoesOn(r, i, p)
      /\ AttemptFailed(r, i) => GoesOn(r, i, "execute") \/ GoesOn(r, i, "giveUp")
  BY DEF GoesOn, AttemptFailed
<1>7. CASE Lock(r, i)
  BY <1>4, <1>6, <1>7 DEF Lock, TaskPlaces, Working
<1>8. CASE markStepExecuting(r, i)
  BY <1>4, <1>5, <1>6, <1>8 DEF markStepExecuting, TaskPlaces, StepStates, Working, Claimed
<1>9. CASE Unlock(r, i)
  BY <1>4, <1>6, <1>9 DEF Unlock, TaskPlaces, Working
<1>10. CASE ExecuteOk(r, i)
  BY <1>4, <1>6, <1>10 DEF ExecuteOk, At, TaskPlaces, Working
<1>11. CASE ExecuteFails(r, i)
  BY <1>4, <1>6, <1>11 DEF ExecuteFails, At, TaskPlaces, Working
<1>12. CASE StatementFails(r, i)
  BY <1>4, <1>6, <1>12 DEF StatementFails, TaskPlaces, Working
<1>13. CASE markStepFilled(r, i)
  BY <1>5, <1>6, <1>13 DEF markStepFilled, At, TaskPlaces, StepStates, Working, Claimed
<1>14. CASE ClaimExposure(r, i)
  BY <1>4, <1>6, <1>14 DEF ClaimExposure, At, TaskPlaces, Working
<1>15. CASE BookExposure(r, i)
  BY <1>4, <1>6, <1>15 DEF BookExposure, At, TaskPlaces, Working
<1>16. CASE Recorded(r, i)
  BY <1>4, <1>6, <1>16 DEF Recorded, At, TaskPlaces, Working
<1>17. CASE markStepFailed(r, i)
  <2>1. GoesOn(r, i, "unlock") /\ SetState(r, i, "FAILED") /\ task[r][i].at \in Working
    BY <1>17 DEF markStepFailed, GoesOn, At, Working
  <2> QED
    BY <1>5, <2>1 DEF TaskPlaces, StepStates, Working
<1>18. CASE NoFallback(r, i)
  BY <1>4, <1>6, <1>18 DEF NoFallback, At, TaskPlaces, Working
<1>19. CASE createFallbackStep(r, i)
  <2>1. PICK p : /\ steps' = Append(steps, [steps[Step(r, i)] EXCEPT !.provider = p, !.state = "PENDING"])
                 /\ task' = [task EXCEPT ![r][i] =
                      [at |-> "lock", step |-> Len(steps) + 1, attempt |-> 1,
                       tried |-> task[r][i].tried \cup {p}, failed |-> FALSE]]
    BY <1>19 DEF createFallbackStep
  <2>2. \A q \in Runners, j \in Ids : task'[q][j] = task[q][j] \/ task'[q][j].at = "lock"
    BY <1>1, <2>1
  <2>3. \A k \in 1..Len(steps) : steps'[k] = steps[k]
    BY <1>1, <2>1
  <2>4. ASSUME NEW q \in Runners, NEW j \in Ids, task'[q][j].at \in Working
        PROVE  /\ task'[q][j] = task[q][j] /\ Step(q, j)' = Step(q, j)
               /\ task[q][j].at \in Working /\ steps'[Step(q, j)] = steps[Step(q, j)]
    <3>1. task'[q][j] = task[q][j] /\ task[q][j].at \in Working /\ task[q][j].at # "none"
      BY <2>2, <2>4 DEF Working
    <3>2. Step(q, j) \in 1..Len(steps)
      BY <3>1 DEF FillInv, TypeOK
    <3> QED
      BY <2>3, <3>1, <3>2 DEF Step
  <2>5. RowsAreClaimed'
    BY <2>4 DEF RowsAreClaimed
  <2>6. OneExecutorPerStep'
    BY <2>4 DEF OneExecutorPerStep, Executing, Working
  <2> QED
    BY <2>5, <2>6
<1> QED
  BY <1>7, <1>8, <1>9, <1>10, <1>11, <1>12, <1>13, <1>14, <1>15, <1>16, <1>17, <1>18, <1>19 DEF TaskStep

\* An operator who is careful resets no row that is being executed.
LEMMA RetryStepExec ==
  ASSUME FillInv, RowsAreClaimed, OneExecutorPerStep, scene.careful,
         NEW r \in Runners, NEW k \in Ids, NEW p \in UNION {Candidates[l] : l \in Legs},
         RetryStep(r, k, p)
  PROVE  RowsAreClaimed' /\ OneExecutorPerStep'
<1>1. task' = task /\ steps \in Seq(Rows) /\ k \in 1..Len(steps)
  BY BoundsAssumption DEF RetryStep, FillInv, TypeOK, Ids
<1>2. ASSUME NEW q \in Runners, NEW j \in Ids, task[q][j].at \in Working
      PROVE  Step(q, j) # k
  <2>1. InStep(q, j)
    BY <1>2 DEF InStep, Working
  <2>2. q \notin Holders(k)
    BY DEF RetryStep
  <2> QED
    BY <2>1, <2>2 DEF Holders
<1>3. \A j \in 1..Len(steps) : j # k => steps'[j] = steps[j]
  BY <1>1 DEF RetryStep
<1>4. RowsAreClaimed'
  <2> SUFFICES ASSUME NEW q \in Runners, NEW j \in Ids, task[q][j].at \in Working
               PROVE  steps'[Step(q, j)].state \in Claimed
    BY <1>1 DEF RowsAreClaimed, Step
  <2>1. Step(q, j) \in 1..Len(steps)
    BY DEF FillInv, TypeOK, Working
  <2> QED
    BY <1>2, <1>3, <2>1 DEF RowsAreClaimed
<1>5. OneExecutorPerStep'
  BY <1>1 DEF OneExecutorPerStep, Executing, Step
<1> QED
  BY <1>4, <1>5

\* Every step preserves the invariant, when operators are careful.
LEMMA NextExec ==
  ASSUME ExecInv, FillInv', scene.careful, [Next]_vars
  PROVE  ExecInv'
<1>1. FillInv /\ RowsAreClaimed /\ OneExecutorPerStep /\ TypeOK
  BY DEF ExecInv, FillInv
<1>2. CASE UNCHANGED vars
  BY <1>1, <1>2, ExecForgets DEF ExecInv, vars
<1>3. CASE Next
  <2>1. ASSUME NEW r \in Runners, Start(r) \/ RunStep(r) \/ Crash(r)
        PROVE  RowsAreClaimed' /\ OneExecutorPerStep'
    <3>1. steps' = steps
      BY <2>1 DEF Start, RunStep, MarkRunning, StartSteps, resolvePlanResult, Finish, Crash
    <3>2. \/ task' = task
          \/ \E t : task' = [task EXCEPT ![r] = t] /\ \A i \in Ids : t[i].at \notin Working
      <4>1. NoTask.at \notin Working /\ \A i : Begin(i).at \notin Working
        BY DEF Begin, NoTask, Working
      <4>2. CASE StartSteps(r)
        <5> DEFINE begun == [i \in Ids |-> IF i \in (1..Len(steps)) \ Is("FILLED") THEN Begin(i) ELSE NoTask]
        <5>1. task' = [task EXCEPT ![r] = begun]
          BY <4>2 DEF StartSteps
        <5>2. \A i \in Ids : begun[i].at \notin Working
          BY <4>1
        <5> HIDE DEF begun
        <5> QED
          BY <5>1, <5>2
      <4>3. CASE Crash(r)
        <5> DEFINE nothing == [i \in Ids |-> NoTask]
        <5>1. task' = [task EXCEPT ![r] = nothing]
          BY <4>3 DEF Crash
        <5>2. \A i \in Ids : nothing[i].at \notin Working
          BY <4>1
        <5> HIDE DEF nothing
        <5> QED
          BY <5>1, <5>2
      <4> QED
        BY <2>1, <4>2, <4>3 DEF Start, RunStep, MarkRunning, resolvePlanResult, Finish
    <3>3. \A q \in Runners, i \in Ids : task'[q][i] = task[q][i] \/ task'[q][i].at \notin Working
      BY <1>1, <3>2 DEF TypeOK
    <3> QED
      BY <1>1, <3>1, <3>3, ExecForgets
  <2>2. ASSUME NEW r \in Runners, NEW i \in Ids, TaskStep(r, i)
        PROVE  RowsAreClaimed' /\ OneExecutorPerStep'
    BY <1>1, <2>2, TaskStepExec
  <2>3. ASSUME NEW r \in Runners, NEW i \in Ids, Throw(r, i)
        PROVE  RowsAreClaimed' /\ OneExecutorPerStep'
    <3>1. steps' = steps /\ \A q \in Runners, j \in Ids : task'[q][j] = task[q][j] \/ task'[q][j].at = "done"
      <4>1. GoesOn(r, i, "done") /\ "done" \in TaskPlaces
        BY <2>3 DEF Throw, GoesOn, TaskPlaces
      <4>2. PICK t \in Tasks : t.at = "done" /\ task' = [task EXCEPT ![r] = [@ EXCEPT ![i] = t]]
        BY <1>1, <4>1, GoesOnMoves
      <4> QED
        BY <1>1, <2>3, <4>2 DEF Throw, TypeOK
    <3>2. "done" \notin Working
      BY DEF Working
    <3> QED
      BY <1>1, <3>1, <3>2, ExecForgets
  <2>4. ASSUME NEW k \in Ids, LockExpires(k)
        PROVE  RowsAreClaimed' /\ OneExecutorPerStep'
    BY <1>1, <2>4, ExecForgets DEF LockExpires
  <2>5. ASSUME NEW r \in Runners, NEW k \in Ids, NEW p \in UNION {Candidates[l] : l \in Legs}, RetryStep(r, k, p)
        PROVE  RowsAreClaimed' /\ OneExecutorPerStep'
    BY <1>1, <2>5, RetryStepExec
  <2>6. ASSUME ForceUnwind PROVE RowsAreClaimed' /\ OneExecutorPerStep'
    BY <1>1, <2>6, ExecForgets DEF ForceUnwind
  <2> QED
    BY <1>3, <2>1, <2>2, <2>3, <2>4, <2>5, <2>6 DEF Next, ExecInv
<1> QED
  BY <1>2, <1>3

\* plan-runner.ts:562-572: two calls never execute the same step at the same time,
\* whichever locks have expired or been deleted, as long as no operator retries a
\* step that a call is working on.
THEOREM StepsHaveOneExecutor ==
  ASSUME \A s \in Scenes : s.careful
  PROVE  Spec => []OneExecutorPerStep
<1>1. Init => ExecInv
  <2> SUFFICES ASSUME Init PROVE RowsAreClaimed /\ OneExecutorPerStep
    BY InitFill DEF ExecInv
  <2>1. \A r \in Runners, i \in Ids : task[r][i].at = "none"
    BY DEF Init, NoTask
  <2> QED
    BY <2>1 DEF RowsAreClaimed, OneExecutorPerStep, Executing, Working
<1>2. ExecInv /\ [Next]_vars => ExecInv'
  <2> SUFFICES ASSUME ExecInv, [Next]_vars PROVE ExecInv'
    OBVIOUS
  <2>1. FillInv' /\ scene.careful
    BY NextFill DEF ExecInv, FillInv, TypeOK
  <2> QED
    BY <2>1, NextExec
<1>3. ExecInv => OneExecutorPerStep
  BY DEF ExecInv
<1> QED
  BY <1>1, <1>2, <1>3, PTL DEF Spec

----------------------------------------------------------------------------
(* A call that is alone on its plan.                                       *)

\* Nobody else runs the plan, and no operator touches it.
Alone(r) == scene.calls = {r} /\ scene.retries = {}
Idle(q) == run[q].at = "idle" /\ \A i \in Ids : task[q][i].at = "none"

\* The providers that have failed on a leg for good.
FailedOn(rows, l) ==
  {rows[i].provider : i \in {k \in 1..Len(rows) : rows[k].state = "FAILED" /\ rows[k].leg = l}}
Leg(r, i) == steps[Step(r, i)].leg

\* The state of its row tells where a task can be.
FitsRow(place, failed, state) ==
  /\ place \in {"lock", "mark"} => state = "PENDING"
  /\ place \in {"execute", "fill", "giveUp"} => state \in {"EXECUTING", "FILLED"}
  /\ place \in {"claim", "book", "record"} => state = "FILLED"
  /\ place \in {"unlock", "done"} => state = IF failed THEN "FAILED" ELSE "FILLED"
  /\ place = "fallback" => state = "FAILED"
  /\ place \in {"lock", "mark", "execute", "fill", "claim", "book", "record", "giveUp"} => ~failed
  /\ place = "fallback" => failed

\* What a chain of steps has tried has failed, but for the provider in hand, and it
\* ends without a fill when there is nothing left to try.
ChainOK(r, i) ==
  LET t == task[r][i] IN
  t.at # "none" =>
    /\ FitsRow(t.at, t.failed, steps[t.step].state)
    /\ t.at = "lock" => t.step \notin locks
    /\ \A p \in t.tried : p = steps[t.step].provider \/ p \in FailedOn(steps, Leg(r, i))
    /\ t.at = "done" /\ t.failed => Candidates[Leg(r, i)] \subseteq t.tried
    /\ \A j \in Ids : task[r][j].at # "none" /\ Step(r, j) = t.step => j = i

\* A row is in the hands of a task, or it has failed and a task took over its leg.
RowKept(r, k) ==
  \E i \in Ids : /\ task[r][i].at # "none"
                 /\ Step(r, i) = k \/ (steps[k].state = "FAILED" /\ Leg(r, i) = steps[k].leg)

\* The call has not begun with the steps, is at them, or has resolved the plan.
LoneOK(r) ==
  /\ run[r].at # "asked"
  /\ run[r].at \in {"idle", "loaded", "running"} =>
       /\ ~Terminal(plan.state) /\ locks = {} /\ Is("PENDING") = 1..Len(steps)
       /\ \A i \in Ids : task[r][i].at = "none"
  /\ run[r].at \in {"steps", "resolved", "done"} =>
       /\ \A i \in Ids : ChainOK(r, i)
       /\ \A k \in 1..Len(steps) : RowKept(r, k)
  /\ run[r].at \in {"resolved", "done"} =>
       /\ \A i \in Ids : task[r][i].at \in {"none", "done"}
       /\ run[r].result = Resolution

LoneInv == \A r \in Runners : Alone(r) => LoneOK(r) /\ \A q \in Runners \ {r} : Idle(q)

\* Rows keep their legs and providers, and what has failed for good stays so.
LEMMA FailuresStay ==
  ASSUME Len(steps) \in Nat, Len(steps') \in Nat, Len(steps) <= Len(steps'),
         \A k \in 1..Len(steps) : /\ steps'[k].leg = steps[k].leg /\ steps'[k].provider = steps[k].provider
                                  /\ steps[k].state = "FAILED" => steps'[k].state = "FAILED"
  PROVE  \A l : FailedOn(steps, l) \subseteq FailedOn(steps', l)
<1> SUFFICES ASSUME NEW l, NEW p \in FailedOn(steps, l) PROVE p \in FailedOn(steps', l)
  OBVIOUS
<1>1. PICK k \in 1..Len(steps) : steps[k].state = "FAILED" /\ steps[k].leg = l /\ p = steps[k].provider
  BY DEF FailedOn
<1>2. /\ k \in 1..Len(steps') /\ steps'[k].state = "FAILED"
      /\ steps'[k].leg = l /\ p = steps'[k].provider
  BY <1>1
<1> QED
  BY <1>2 DEF FailedOn

\* A chain of the lone call moves, within its step or on to a new one.
LEMMA ChainMoves ==
  ASSUME FillInv, FillInv', NEW r \in Runners, LoneOK(r), run[r].at = "steps", run' = run,
         NEW i \in Ids, task[r][i].at # "none",
         NEW t \in Tasks, t.at # "none", t.step \in 1..Len(steps'),
         task' = [task EXCEPT ![r] = [@ EXCEPT ![i] = t]],
         Len(steps) <= Len(steps'),
         \A k \in 1..Len(steps') : k <= Len(steps) \/ k = t.step,
         \A k \in 1..Len(steps) :
           /\ steps'[k].leg = steps[k].leg /\ steps'[k].provider = steps[k].provider
           /\ steps[k].state = "FAILED" => steps'[k].state = "FAILED"
           /\ k # Step(r, i) => steps'[k] = steps[k],
         \/ t.step = Step(r, i)
         \/ t.step = Len(steps) + 1 /\ steps[Step(r, i)].state = "FAILED",
         steps'[t.step].leg = Leg(r, i),
         locks' \subseteq locks \cup {Step(r, i)},
         t.at = "lock" => t.step \notin locks',
         FitsRow(t.at, t.failed, steps'[t.step].state),
         \A p \in t.tried : p = steps'[t.step].provider \/ p \in FailedOn(steps', Leg(r, i)),
         t.at = "done" /\ t.failed => Candidates[Leg(r, i)] \subseteq t.tried
  PROVE  LoneOK(r)'
<1>1. TypeOK /\ Len(steps) \in Nat /\ Len(steps') \in Nat /\ Step(r, i) \in 1..Len(steps)
  BY DEF FillInv, TypeOK
<1>2. /\ task'[r][i] = t
      /\ \A j \in Ids : j # i => task'[r][j] = task[r][j]
  BY <1>1 DEF TypeOK
<1>3. /\ \A j \in Ids : ChainOK(r, j)
      /\ \A k \in 1..Len(steps) : RowKept(r, k)
  BY DEF LoneOK
<1>4. \A l : FailedOn(steps, l) \subseteq FailedOn(steps', l)
  BY <1>1, FailuresStay
<1>5. Leg(r, i)' = Leg(r, i) /\ Step(r, i)' = t.step
  BY <1>2 DEF Leg, Step
<1>6. ASSUME NEW j \in Ids, j # i, task[r][j].at # "none"
      PROVE  /\ Step(r, j) \in 1..Len(steps) /\ Step(r, j) # Step(r, i) /\ Step(r, j) # t.step
             /\ steps'[Step(r, j)] = steps[Step(r, j)]
             /\ Step(r, j)' = Step(r, j) /\ Leg(r, j)' = Leg(r, j)
  <2>1. Step(r, j) \in 1..Len(steps)
    BY <1>1, <1>6 DEF TypeOK
  <2>2. Step(r, j) # Step(r, i)
    BY <1>3, <1>6 DEF ChainOK, Step
  <2>3. Step(r, j) # t.step
    BY <1>1, <2>1, <2>2
  <2>4. Step(r, j)' = Step(r, j)
    BY <1>2, <1>6 DEF Step
  <2> QED
    BY <2>1, <2>2, <2>3, <2>4 DEF Leg
<1>7. ChainOK(r, i)'
  <2>1. \A j \in Ids : task'[r][j].at # "none" /\ Step(r, j)' = t.step => j = i
    BY <1>2, <1>6
  <2>2. \A p \in t.tried : p = steps'[t.step].provider \/ p \in FailedOn(steps', Leg(r, i)')
    BY <1>5
  <2> QED
    BY <1>2, <1>5, <2>1, <2>2 DEF ChainOK
<1>8. ASSUME NEW j \in Ids, j # i PROVE ChainOK(r, j)'
  <2>1. task'[r][j] = task[r][j]
    BY <1>2, <1>8
  <2>2. CASE task[r][j].at = "none"
    BY <2>1, <2>2 DEF ChainOK
  <2>3. CASE task[r][j].at # "none"
    <3>1. ChainOK(r, j) /\ Step(r, j) = task[r][j].step
      BY <1>3 DEF Step
    <3>2. steps'[task[r][j].step] = steps[task[r][j].step] /\ task[r][j].step # Step(r, i)
          /\ task[r][j].step # t.step
      BY <1>6, <1>8, <2>3, <3>1
    <3>3. \A p \in task[r][j].tried : p = steps[task[r][j].step].provider \/ p \in FailedOn(steps, Leg(r, j))
      BY <2>3, <3>1 DEF ChainOK
    <3>4. \A p \in task[r][j].tried : p = steps'[task[r][j].step].provider \/ p \in FailedOn(steps', Leg(r, j)')
      BY <1>4, <1>6, <1>8, <2>3, <3>2, <3>3
    <3>5. \A m \in Ids : task'[r][m].at # "none" /\ Step(r, m)' = task[r][j].step => m = j
      <4> SUFFICES ASSUME NEW m \in Ids, task'[r][m].at # "none", Step(r, m)' = task[r][j].step
                   PROVE  m = j
        OBVIOUS
      <4>1. m # i
        BY <1>5, <3>2
      <4>2. task[r][m].at # "none" /\ Step(r, m) = task[r][j].step
        BY <1>2, <1>6, <4>1
      <4> QED
        BY <2>3, <3>1, <4>2 DEF ChainOK
    <3>6. task[r][j].at = "lock" => task[r][j].step \notin locks'
      BY <2>3, <3>1, <3>2 DEF ChainOK
    <3>7. /\ FitsRow(task[r][j].at, task[r][j].failed, steps[task[r][j].step].state)
          /\ task[r][j].at = "done" /\ task[r][j].failed => Candidates[Leg(r, j)] \subseteq task[r][j].tried
      BY <2>3, <3>1 DEF ChainOK
    <3>8. Leg(r, j)' = Leg(r, j)
      BY <1>6, <1>8, <2>3
    <3> QED
      BY <2>1, <3>2, <3>4, <3>5, <3>6, <3>7, <3>8 DEF ChainOK
  <2> QED
    BY <2>2, <2>3
<1>9. ASSUME NEW k \in 1..Len(steps') PROVE RowKept(r, k)'
  <2>1. CASE k = t.step
    BY <1>2, <1>5, <2>1 DEF RowKept
  <2>2. CASE k # t.step
    <3>1. k \in 1..Len(steps) /\ steps'[k].leg = steps[k].leg
          /\ (steps[k].state = "FAILED" => steps'[k].state = "FAILED")
      BY <1>1, <2>2
    <3>2. PICK j \in Ids : /\ task[r][j].at # "none"
                           /\ Step(r, j) = k \/ (steps[k].state = "FAILED" /\ Leg(r, j) = steps[k].leg)
      BY <1>3, <3>1 DEF RowKept
    <3>3. CASE j = i
      <4>1. steps[k].state = "FAILED" /\ Leg(r, i) = steps[k].leg
        BY <2>2, <3>2, <3>3 DEF Leg
      <4> QED
        BY <1>2, <1>5, <3>1, <4>1 DEF RowKept
    <3>4. CASE j # i
      BY <1>2, <1>6, <3>1, <3>2, <3>4 DEF RowKept
    <3> QED
      BY <3>3, <3>4
  <2> QED
    BY <2>1, <2>2
<1>10. run'[r].at = "steps"
  OBVIOUS
<1> QED
  BY <1>7, <1>8, <1>9, <1>10 DEF LoneOK

\* A task that goes on keeps its step and what it has tried.
Moves(r, i, place, f) ==
  \/ /\ f = task[r][i].failed
     /\ \/ Goto(r, i, place)
        \/ task' = [task EXCEPT ![r][i].at = place, ![r][i].attempt = @ + 1]
  \/ f /\ task' = [task EXCEPT ![r][i].at = place, ![r][i].failed = TRUE]

LEMMA GoesOnKeeps ==
  ASSUME FillInv, NEW r \in Runners, NEW i \in Ids, NEW place \in TaskPlaces,
         NEW f \in BOOLEAN,
         Moves(r, i, place, f)
  PROVE  \E t \in Tasks : /\ t.at = place /\ t.failed = f
                          /\ t.step = Step(r, i) /\ t.tried = task[r][i].tried
                          /\ task' = [task EXCEPT ![r] = [@ EXCEPT ![i] = t]]
<1>1. task[r][i] \in Tasks /\ task \in [Runners -> [Ids -> Tasks]]
  BY DEF FillInv, TypeOK
<1>2. ASSUME NEW t \in Tasks, t.at = place, t.failed = f, t.step = task[r][i].step, t.tried = task[r][i].tried,
             task' = [task EXCEPT ![r][i] = t]
      PROVE  \E u \in Tasks : /\ u.at = place /\ u.failed = f
                              /\ u.step = Step(r, i) /\ u.tried = task[r][i].tried
                              /\ task' = [task EXCEPT ![r] = [@ EXCEPT ![i] = u]]
  BY <1>2 DEF Step
<1>3. CASE f = task[r][i].failed /\ Goto(r, i, place)
  <2> DEFINE t == [task[r][i] EXCEPT !.at = place]
  <2>1. t \in Tasks /\ t.at = place /\ t.failed = f /\ t.step = task[r][i].step /\ t.tried = task[r][i].tried
    BY <1>1, <1>3 DEF Tasks
  <2>2. task' = [task EXCEPT ![r][i] = t]
    BY <1>3 DEF Goto
  <2> HIDE DEF t
  <2> QED
    BY <1>2, <2>1, <2>2
<1>4. CASE f = task[r][i].failed /\ task' = [task EXCEPT ![r][i].at = place, ![r][i].attempt = @ + 1]
  <2> DEFINE t == [task[r][i] EXCEPT !.at = place, !.attempt = task[r][i].attempt + 1]
  <2>1. task[r][i].attempt + 1 \in Nat
    BY <1>1 DEF Tasks
  <2>2. t \in Tasks /\ t.at = place /\ t.failed = f /\ t.step = task[r][i].step /\ t.tried = task[r][i].tried
    BY <1>1, <1>4, <2>1 DEF Tasks
  <2>3. task' = [task EXCEPT ![r][i] = t]
    BY <1>1, <1>4
  <2> HIDE DEF t
  <2> QED
    BY <1>2, <2>2, <2>3
<1>5. CASE f /\ task' = [task EXCEPT ![r][i].at = place, ![r][i].failed = TRUE]
  <2> DEFINE t == [task[r][i] EXCEPT !.at = place, !.failed = TRUE]
  <2>1. t \in Tasks /\ t.at = place /\ t.failed = f /\ t.step = task[r][i].step /\ t.tried = task[r][i].tried
    BY <1>1, <1>5 DEF Tasks
  <2>2. task' = [task EXCEPT ![r][i] = t]
    BY <1>1, <1>5
  <2> HIDE DEF t
  <2> QED
    BY <1>2, <2>1, <2>2
<1> QED
  BY <1>3, <1>4, <1>5 DEF Moves

\* The tasks of the lone call move only while it is at its steps.
LEMMA AtItsSteps ==
  ASSUME FillInv, NEW r \in Runners, LoneOK(r), NEW i \in Ids,
         task[r][i].at \notin {"none", "done"}, run[r].at # "dead"
  PROVE  run[r].at = "steps"
<1>1. run[r] \in Runs
  BY DEF FillInv, TypeOK
<1> QED
  BY <1>1 DEF LoneOK, Runs

\* Within a step: its row goes from one state to another, and only until it has failed.
LEMMA WithinStep ==
  ASSUME FillInv, FillInv', NEW r \in Runners, LoneOK(r), run[r].at = "steps", run' = run,
         NEW i \in Ids, task[r][i].at # "none",
         NEW place \in TaskPlaces \ {"none", "lock"}, NEW f \in BOOLEAN,
         Moves(r, i, place, f),
         NEW state \in StepStates,
         SetState(r, i, state) \/ (steps' = steps /\ state = steps[Step(r, i)].state),
         steps[Step(r, i)].state = "FAILED" => state = "FAILED",
         locks' \subseteq locks \cup {Step(r, i)},
         FitsRow(place, f, state),
         place = "done" /\ f => Candidates[Leg(r, i)] \subseteq task[r][i].tried
  PROVE  LoneOK(r)'
<1>1. /\ TypeOK /\ steps \in Seq(Rows) /\ Len(steps) \in Nat /\ Step(r, i) \in 1..Len(steps)
      /\ place \in TaskPlaces
  BY DEF FillInv, TypeOK
<1>2. PICK t \in Tasks : /\ t.at = place /\ t.failed = f
                        /\ t.step = Step(r, i) /\ t.tried = task[r][i].tried
                        /\ task' = [task EXCEPT ![r] = [@ EXCEPT ![i] = t]]
  BY <1>1, GoesOnKeeps
<1>3. /\ Len(steps') = Len(steps) /\ steps'[Step(r, i)].state = state
      /\ steps'[Step(r, i)].leg = steps[Step(r, i)].leg
      /\ steps'[Step(r, i)].provider = steps[Step(r, i)].provider
      /\ \A k \in 1..Len(steps) : k # Step(r, i) => steps'[k] = steps[k]
  <2>1. CASE steps' = steps /\ state = steps[Step(r, i)].state
    BY <1>1, <2>1
  <2>2. CASE SetState(r, i, state)
    <3> DEFINE row == [steps[Step(r, i)] EXCEPT !.state = state]
    <3>1. steps[Step(r, i)] \in Rows
      BY <1>1, SeqElements
    <3>2. /\ row \in Rows /\ row.state = state
          /\ row.leg = steps[Step(r, i)].leg /\ row.provider = steps[Step(r, i)].provider
      BY <3>1 DEF Rows
    <3>3. steps' = [steps EXCEPT ![Step(r, i)] = row]
      BY <1>1, <2>2 DEF SetState
    <3> HIDE DEF row
    <3> QED
      BY <1>1, <3>2, <3>3, SeqUpdate
  <2> QED
    BY <2>1, <2>2
<1>4. \A k \in 1..Len(steps) :
        /\ steps'[k].leg = steps[k].leg /\ steps'[k].provider = steps[k].provider
        /\ steps[k].state = "FAILED" => steps'[k].state = "FAILED"
        /\ k # Step(r, i) => steps'[k] = steps[k]
  BY <1>1, <1>3
<1>5. \A l : FailedOn(steps, l) \subseteq FailedOn(steps', l)
  BY <1>1, <1>3, <1>4, FailuresStay
<1>6. ASSUME NEW p \in t.tried
      PROVE  p = steps'[t.step].provider \/ p \in FailedOn(steps', Leg(r, i))
  <2>1. ChainOK(r, i)
    BY DEF LoneOK
  <2>2. p = steps[Step(r, i)].provider \/ p \in FailedOn(steps, Leg(r, i))
    BY <1>2, <1>6, <2>1 DEF ChainOK, Step
  <2> QED
    BY <1>2, <1>3, <1>5, <2>2
<1>7. FitsRow(t.at, t.failed, steps'[t.step].state)
  BY <1>2, <1>3
<1>8. /\ t.at # "none" /\ t.at # "lock" /\ t.step \in 1..Len(steps')
      /\ steps'[t.step].leg = Leg(r, i) /\ Len(steps) <= Len(steps')
      /\ \A k \in 1..Len(steps') : k <= Len(steps)
      /\ t.at = "done" /\ t.failed => Candidates[Leg(r, i)] \subseteq t.tried
  BY <1>1, <1>2, <1>3 DEF Leg
<1> QED
  BY <1>2, <1>4, <1>6, <1>7, <1>8, ChainMoves

\* createFallbackStep takes a provider that its chain has not tried.
FallbackRow(r, i, p) == [steps[Step(r, i)] EXCEPT !.provider = p, !.state = "PENDING"]
FallbackTask(r, i, p) ==
  [at |-> "lock", step |-> Len(steps) + 1, attempt |-> 1, tried |-> task[r][i].tried \cup {p}, failed |-> FALSE]

LEMMA FallbackIs ==
  ASSUME NEW r, NEW i, createFallbackStep(r, i)
  PROVE  \E p \in Untried(r, i) :
           steps' = Append(steps, FallbackRow(r, i, p)) /\ task' = [task EXCEPT ![r][i] = FallbackTask(r, i, p)]
BY Zenon DEF createFallbackStep, FallbackRow, FallbackTask

\* A task that makes a step has begun and has not ended.
LEMMA TaskIsAt ==
  ASSUME NEW r, NEW i, TaskStep(r, i)
  PROVE  task[r][i].at \notin {"none", "done"} /\ UNCHANGED <<plan, run>>
<1>1. CASE createFallbackStep(r, i)
  <2>1. task[r][i].at = "fallback" /\ UNCHANGED <<plan, run>>
    BY <1>1, Zenon DEF createFallbackStep, At
  <2> QED
    BY <2>1
<1>2. CASE ~createFallbackStep(r, i)
  BY <1>2 DEF TaskStep, Lock, markStepExecuting, Unlock, ExecuteOk, ExecuteFails, StatementFails,
     markStepFilled, ClaimExposure, BookExposure, Recorded, markStepFailed, NoFallback, At
<1> QED
  BY <1>1, <1>2

\* A chain goes on with a fallback step: what it had in hand has failed on its leg.
LEMMA FallbackLone ==
  ASSUME FillInv, FillInv', NEW r \in Runners, LoneOK(r), run[r].at = "steps", run' = run,
         NEW i \in Ids, createFallbackStep(r, i)
  PROVE  LoneOK(r)'
<1>1. /\ TypeOK /\ Len(steps) \in Nat /\ Step(r, i) \in 1..Len(steps) /\ task[r][i].at # "none"
      /\ steps \in Seq(Rows)
  BY DEF FillInv, TypeOK, createFallbackStep, At
<1>2. /\ FitsRow(task[r][i].at, task[r][i].failed, steps[Step(r, i)].state)
      /\ \A p \in task[r][i].tried : p = steps[Step(r, i)].provider \/ p \in FailedOn(steps, Leg(r, i))
  BY <1>1 DEF LoneOK, ChainOK, Step
<1>3. PICK p \in Untried(r, i) :
        steps' = Append(steps, FallbackRow(r, i, p)) /\ task' = [task EXCEPT ![r][i] = FallbackTask(r, i, p)]
  BY FallbackIs
<1> DEFINE t == FallbackTask(r, i, p)
           row == FallbackRow(r, i, p)
<1>4. /\ task[r][i].at = "fallback" /\ steps[Step(r, i)].state = "FAILED" /\ locks' = locks
  BY <1>2 DEF createFallbackStep, At, FitsRow
<1>5. steps \in Seq(Rows) /\ steps[Step(r, i)] \in Rows
  BY <1>1, SeqElements
<1>6. p \in Nat
  BY <1>3, <1>5, CandidatesAssumption DEF Untried, Rows
<1>7. row \in Rows /\ row.state = "PENDING" /\ row.provider = p /\ row.leg = Leg(r, i)
  BY <1>5, <1>6 DEF Rows, StepStates, Leg, FallbackRow
<1>8. /\ t.at = "lock" /\ t.step = Len(steps) + 1 /\ ~t.failed /\ t.tried = task[r][i].tried \cup {p}
      /\ task' = [task EXCEPT ![r] = [@ EXCEPT ![i] = t]] /\ steps' = Append(steps, row)
  BY <1>3 DEF FallbackTask
<1> HIDE DEF t, row
<1>9. t \in Tasks
  <2>1. task' \in [Runners -> [Ids -> Tasks]] /\ task'[r][i] = t
    BY <1>1, <1>8 DEF FillInv, TypeOK
  <2> QED
    BY <2>1
<1>10. /\ Len(steps') = Len(steps) + 1
      /\ steps'[Len(steps) + 1] = row /\ \A k \in 1..Len(steps) : steps'[k] = steps[k]
  BY <1>5, <1>7, <1>8, SeqAppend
<1>11. \A l : FailedOn(steps, l) \subseteq FailedOn(steps', l)
  BY <1>1, <1>10, FailuresStay
<1>12. steps[Step(r, i)].provider \in FailedOn(steps, Leg(r, i))
  BY <1>1, <1>4 DEF FailedOn, Leg
<1>13. \A q \in t.tried : q = steps'[t.step].provider \/ q \in FailedOn(steps', Leg(r, i))
  BY <1>2, <1>7, <1>8, <1>10, <1>11, <1>12
<1>14. FitsRow(t.at, t.failed, steps'[t.step].state)
  BY <1>7, <1>8, <1>10 DEF FitsRow
<1>15. /\ t.step \in 1..Len(steps') /\ t.step \notin locks' /\ Len(steps) <= Len(steps')
       /\ \A k \in 1..Len(steps') : k <= Len(steps) \/ k = t.step
       /\ locks' \subseteq locks \cup {Step(r, i)} /\ steps'[t.step].leg = Leg(r, i)
       /\ t.at # "none" /\ t.at # "done"
  BY <1>1, <1>4, <1>7, <1>8, <1>10 DEF TypeOK
<1>16. \A k \in 1..Len(steps) :
         /\ steps'[k].leg = steps[k].leg /\ steps'[k].provider = steps[k].provider
         /\ steps[k].state = "FAILED" => steps'[k].state = "FAILED"
         /\ k # Step(r, i) => steps'[k] = steps[k]
  BY <1>10
<1> QED
  BY <1>1, <1>4, <1>8, <1>9, <1>13, <1>14, <1>15, <1>16, ChainMoves

\* Every step of a task of the lone call keeps what is said of its chains.
LEMMA TaskStepLone ==
  ASSUME FillInv, FillInv', NEW r \in Runners, LoneOK(r), NEW i \in Ids, TaskStep(r, i), UNCHANGED scene
  PROVE  LoneOK(r)'
<1>1. task[r][i].at \notin {"none", "done"} /\ UNCHANGED <<plan, run>>
  BY TaskIsAt
<1>2. CASE run[r].at = "dead"
  BY <1>1, <1>2 DEF LoneOK
<1>3. CASE run[r].at # "dead"
  <2>1. run[r].at = "steps" /\ run' = run
    BY <1>1, <1>3, AtItsSteps
  <2>2. /\ TypeOK /\ Len(steps) \in Nat /\ Step(r, i) \in 1..Len(steps) /\ task[r][i].failed \in BOOLEAN
    BY <1>1 DEF FillInv, TypeOK, Tasks
  <2>3. /\ FitsRow(task[r][i].at, task[r][i].failed, steps[Step(r, i)].state)
        /\ At(r, i, "lock") => Step(r, i) \notin locks
        /\ \A p \in task[r][i].tried : p = steps[Step(r, i)].provider \/ p \in FailedOn(steps, Leg(r, i))
    BY <1>1, <2>1 DEF LoneOK, ChainOK, Step, At
  <2>4. /\ TaskPlaces = {"none", "lock", "mark", "execute", "fill", "claim", "book", "record",
                         "giveUp", "unlock", "fallback", "done"}
        /\ StepStates = {"PENDING", "EXECUTING", "FILLED", "FAILED"}
    BY DEF TaskPlaces, StepStates
  <2>5. ASSUME NEW place \in TaskPlaces \ {"none", "lock"}, NEW f \in BOOLEAN, Moves(r, i, place, f),
               NEW state \in StepStates,
               SetState(r, i, state) \/ (steps' = steps /\ state = steps[Step(r, i)].state),
               steps[Step(r, i)].state = "FAILED" => state = "FAILED",
               locks' \subseteq locks \cup {Step(r, i)},
               FitsRow(place, f, state),
               place = "done" /\ f => Candidates[Leg(r, i)] \subseteq task[r][i].tried
        PROVE  LoneOK(r)'
    BY <1>1, <2>1, <2>5, WithinStep
  \* Statements that leave the row alone.
  <2>6. ASSUME NEW place \in TaskPlaces \ {"none", "lock"}, NEW f \in BOOLEAN, Moves(r, i, place, f),
               steps' = steps, locks' \subseteq locks \cup {Step(r, i)},
               FitsRow(place, f, steps[Step(r, i)].state),
               place = "done" /\ f => Candidates[Leg(r, i)] \subseteq task[r][i].tried
        PROVE  LoneOK(r)'
    <3>1. steps[Step(r, i)].state \in StepStates
      <4>1. steps \in Seq(Rows)
        BY <2>2 DEF TypeOK
      <4>2. steps[Step(r, i)] \in Rows
        BY <2>2, <4>1, SeqElements
      <4> QED
        BY <4>2 DEF Rows
    <3> QED
      BY <2>5, <2>6, <3>1
  <2>7. /\ \A p : Goto(r, i, p) => Moves(r, i, p, task[r][i].failed)
        /\ AttemptFailed(r, i) => \E p \in {"execute", "giveUp"} : Moves(r, i, p, task[r][i].failed)
    BY DEF Moves, AttemptFailed
  <2>8. CASE Lock(r, i)
    <3>1. Goto(r, i, "mark") /\ steps' = steps /\ locks' = locks \cup {Step(r, i)} /\ task[r][i].at = "lock"
      BY <2>3, <2>8 DEF Lock, At
    <3>2. FitsRow("mark", task[r][i].failed, steps[Step(r, i)].state)
      BY <2>3, <3>1 DEF FitsRow
    <3> QED
      BY <2>2, <2>4, <2>6, <2>7, <3>1, <3>2
  <2>9. CASE markStepExecuting(r, i)
    <3>1. /\ task[r][i].at = "mark" /\ locks' = locks
          /\ steps[Step(r, i)].state = "PENDING" /\ ~task[r][i].failed
      BY <2>3, <2>9 DEF markStepExecuting, At, FitsRow
    <3>2. SetState(r, i, "EXECUTING") /\ Goto(r, i, "execute")
      BY <2>9, <3>1 DEF markStepExecuting
    <3>3. FitsRow("execute", task[r][i].failed, "EXECUTING")
      BY <3>1 DEF FitsRow
    <3> QED
      BY <2>2, <2>4, <2>5, <2>7, <3>1, <3>2, <3>3
  <2>10. CASE ExecuteOk(r, i)
    <3>1. Goto(r, i, "fill") /\ steps' = steps /\ locks' = locks /\ task[r][i].at = "execute"
      BY <2>10 DEF ExecuteOk, At
    <3>2. FitsRow("fill", task[r][i].failed, steps[Step(r, i)].state)
      BY <2>3, <3>1 DEF FitsRow
    <3> QED
      BY <2>2, <2>4, <2>6, <2>7, <3>1, <3>2
  <2>11. CASE ExecuteFails(r, i) \/ StatementFails(r, i)
    <3>1. /\ AttemptFailed(r, i) /\ steps' = steps /\ locks' = locks
          /\ task[r][i].at \in {"execute", "fill", "claim", "book", "record"}
      BY <2>11 DEF ExecuteFails, StatementFails, At
    <3>2. /\ FitsRow("execute", task[r][i].failed, steps[Step(r, i)].state)
          /\ FitsRow("giveUp", task[r][i].failed, steps[Step(r, i)].state)
      BY <2>3, <3>1 DEF FitsRow
    <3>3. PICK p \in {"execute", "giveUp"} : Moves(r, i, p, task[r][i].failed)
      BY <2>7, <3>1
    <3> QED
      BY <2>2, <2>4, <2>6, <3>1, <3>2, <3>3
  <2>12. CASE markStepFilled(r, i)
    <3>1. /\ SetState(r, i, "FILLED") /\ Goto(r, i, "claim") /\ locks' = locks /\ task[r][i].at = "fill"
      BY <2>12 DEF markStepFilled, At
    <3>2. FitsRow("claim", task[r][i].failed, "FILLED") /\ steps[Step(r, i)].state # "FAILED"
      BY <2>3, <3>1 DEF FitsRow
    <3> QED
      BY <2>2, <2>4, <2>5, <2>7, <3>1, <3>2
  <2>13. CASE ClaimExposure(r, i) \/ BookExposure(r, i) \/ Recorded(r, i)
    <3>1. /\ \E p \in {"book", "record", "unlock"} : Goto(r, i, p)
          /\ steps' = steps /\ locks' = locks /\ task[r][i].at \in {"claim", "book", "record"}
      BY <2>13 DEF ClaimExposure, BookExposure, Recorded, At
    <3>2. \A p \in {"book", "record", "unlock"} : FitsRow(p, task[r][i].failed, steps[Step(r, i)].state)
      BY <2>3, <3>1 DEF FitsRow
    <3> QED
      BY <2>2, <2>4, <2>6, <2>7, <3>1, <3>2
  <2>14. CASE markStepFailed(r, i)
    <3>1. SetState(r, i, "FAILED") /\ Moves(r, i, "unlock", TRUE) /\ locks' = locks
      BY <2>14 DEF markStepFailed, Moves
    <3>2. FitsRow("unlock", TRUE, "FAILED")
      BY DEF FitsRow
    <3> QED
      BY <2>4, <2>5, <3>1, <3>2
  <2>15. CASE Unlock(r, i)
    <3>1. /\ Goto(r, i, IF task[r][i].failed THEN "fallback" ELSE "done")
          /\ steps' = steps /\ locks' \subseteq locks \cup {Step(r, i)} /\ task[r][i].at = "unlock"
      BY <2>15 DEF Unlock, At
    <3>2. /\ task[r][i].failed => FitsRow("fallback", task[r][i].failed, steps[Step(r, i)].state)
          /\ ~task[r][i].failed => FitsRow("done", task[r][i].failed, steps[Step(r, i)].state)
      BY <2>3, <3>1 DEF FitsRow
    <3> QED
      BY <2>2, <2>4, <2>6, <2>7, <3>1, <3>2
  <2>16. CASE NoFallback(r, i)
    <3>1. /\ Goto(r, i, "done") /\ steps' = steps /\ locks' = locks /\ task[r][i].at = "fallback"
          /\ Candidates[Leg(r, i)] \subseteq task[r][i].tried
      BY <2>16 DEF NoFallback, At, Untried, Leg
    <3>2. FitsRow("done", task[r][i].failed, steps[Step(r, i)].state)
      BY <2>3, <3>1 DEF FitsRow
    <3> QED
      BY <2>2, <2>4, <2>6, <2>7, <3>1, <3>2
  <2>17. CASE createFallbackStep(r, i)
    BY <2>1, <2>17, FallbackLone
  <2> QED
    BY <2>8, <2>9, <2>10, <2>11, <2>12, <2>13, <2>14, <2>15, <2>16, <2>17 DEF TaskStep
<1> QED
  BY <1>2, <1>3

\* A task writes no task of another call.
LEMMA TasksAreOwn ==
  ASSUME TypeOK, NEW r \in Runners, NEW i \in Ids, TaskStep(r, i)
  PROVE  \A q \in Runners \ {r} : task'[q] = task[q]
<1>1. task \in [Runners -> [Ids -> Tasks]]
  BY DEF TypeOK
<1>2. ASSUME NEW f, task' = [task EXCEPT ![r] = f]
      PROVE  \A q \in Runners \ {r} : task'[q] = task[q]
  BY <1>1, <1>2
<1>3. CASE createFallbackStep(r, i)
  <2>1. PICK p \in Untried(r, i) : task' = [task EXCEPT ![r][i] = FallbackTask(r, i, p)]
    BY <1>3, FallbackIs
  <2> QED
    BY <1>2, <2>1
<1>4. CASE ~createFallbackStep(r, i)
  <2>1. \/ \E p : Goto(r, i, p)
        \/ task' = [task EXCEPT ![r][i].at = "execute", ![r][i].attempt = @ + 1]
        \/ task' = [task EXCEPT ![r][i].at = "unlock", ![r][i].failed = TRUE]
    BY <1>4 DEF TaskStep, Lock, markStepExecuting, Unlock, ExecuteOk, ExecuteFails, StatementFails,
       markStepFilled, ClaimExposure, BookExposure, Recorded, markStepFailed, NoFallback, AttemptFailed
  <2>2. CASE \E p : Goto(r, i, p)
    BY <1>1, <2>2 DEF Goto
  <2>3. CASE task' = [task EXCEPT ![r][i].at = "execute", ![r][i].attempt = @ + 1]
    BY <1>1, <2>3
  <2>4. CASE task' = [task EXCEPT ![r][i].at = "unlock", ![r][i].failed = TRUE]
    BY <1>1, <2>4
  <2> QED
    BY <2>1, <2>2, <2>3, <2>4
<1> QED
  BY <1>3, <1>4

\* The chains stay as they are while rows and tasks do and locks only go.
LEMMA ChainsStay ==
  ASSUME NEW r \in Runners, \A i \in Ids : ChainOK(r, i), \A k \in 1..Len(steps) : RowKept(r, k),
         UNCHANGED <<steps, task>>, locks' \subseteq locks
  PROVE  /\ \A i \in Ids : ChainOK(r, i)'
         /\ \A k \in 1..Len(steps') : RowKept(r, k)'
<1>1. /\ \A i \in Ids : Leg(r, i)' = Leg(r, i) /\ Step(r, i)' = Step(r, i)
      /\ Len(steps') = Len(steps)
  BY DEF Leg, Step
<1>2. ASSUME NEW i \in Ids PROVE ChainOK(r, i)'
  <2>1. ChainOK(r, i)
    OBVIOUS
  <2> QED
    BY <1>1, <2>1 DEF ChainOK
<1>3. ASSUME NEW k \in 1..Len(steps') PROVE RowKept(r, k)'
  <2>1. RowKept(r, k)
    BY <1>1
  <2> QED
    BY <1>1, <2>1 DEF RowKept
<1> QED
  BY <1>2, <1>3

\* A task begins at its lock, with the provider of its row and none besides.
LEMMA BeginIs ==
  ASSUME NEW s
  PROVE  /\ Begin(s).at = "lock" /\ Begin(s).step = s /\ ~Begin(s).failed
         /\ Begin(s).tried = {steps[s].provider}
BY DEF Begin, NoTask

\* The call begins on rows that are all PENDING: each gets a task of its own.
LEMMA StartStepsLone ==
  ASSUME FillInv, NEW r \in Runners, LoneOK(r), StartSteps(r)
  PROVE  LoneOK(r)'
<1>1. /\ TypeOK /\ Len(steps) \in Nat /\ Len(steps) <= MaxSteps /\ steps \in Seq(Rows) /\ MaxSteps \in Nat
      /\ locks = {} /\ run[r] \in Runs /\ run \in [Runners -> Runs]
      /\ \A k \in 1..Len(steps) : steps[k].state = "PENDING"
  BY BoundsAssumption DEF FillInv, TypeOK, LoneOK, StartSteps, Is
<1>2. run'[r].at = "steps" /\ UNCHANGED <<steps, locks>>
  BY <1>1 DEF StartSteps, Runs
<1>3. ASSUME NEW i \in Ids
      PROVE  task'[r][i] = IF i \in 1..Len(steps) THEN Begin(i) ELSE NoTask
  <2>1. Is("FILLED") = {}
    BY <1>1 DEF Is
  <2>2. task'[r] = [j \in Ids |-> IF j \in (1..Len(steps)) \ Is("FILLED") THEN Begin(j) ELSE NoTask]
    BY <1>1 DEF StartSteps, TypeOK
  <2> QED
    BY <2>1, <2>2
<1>4. ASSUME NEW i \in 1..Len(steps)
      PROVE  /\ i \in Ids /\ task'[r][i].at = "lock" /\ task'[r][i].step = i
             /\ task'[r][i].tried = {steps[i].provider} /\ ~task'[r][i].failed
  <2>1. i \in Ids
    BY <1>1 DEF Ids
  <2>2. task'[r][i] = Begin(i)
    BY <1>3, <2>1
  <2> QED
    BY <2>1, <2>2, BeginIs
<1>5. \A i \in Ids : i \notin 1..Len(steps) => task'[r][i].at = "none"
  BY <1>3 DEF NoTask
<1>6. ASSUME NEW i \in Ids PROVE ChainOK(r, i)'
  <2>1. CASE i \in 1..Len(steps)
    <3>1. FitsRow("lock", task'[r][i].failed, steps'[i].state)
      BY <1>1, <1>2, <1>4, <2>1 DEF FitsRow
    <3>2. \A j \in Ids : task'[r][j].at # "none" /\ Step(r, j)' = i => j = i
      BY <1>4, <1>5 DEF Step
    <3> QED
      BY <1>1, <1>2, <1>4, <2>1, <3>1, <3>2 DEF ChainOK
  <2>2. CASE i \notin 1..Len(steps)
    BY <1>5, <2>2 DEF ChainOK
  <2> QED
    BY <2>1, <2>2
<1>7. \A k \in 1..Len(steps') : RowKept(r, k)'
  BY <1>2, <1>4 DEF RowKept, Step
<1> QED
  BY <1>2, <1>6, <1>7 DEF LoneOK

\* The lone call before and after its tasks.
LEMMA RunStepLone ==
  ASSUME FillInv, NEW r \in Runners, Alone(r), LoneOK(r), UNCHANGED scene,
         Start(r) \/ RunStep(r) \/ Crash(r)
  PROVE  LoneOK(r)'
<1>1. TypeOK /\ run \in [Runners -> Runs] /\ run[r] \in Runs /\ plan \in Plans
  BY DEF FillInv, TypeOK
<1>2. CASE Start(r)
  <2>1. run[r].at = "idle" /\ ~Terminal(plan.state)
    BY <1>2 DEF Start, Alone, LoneOK
  <2>2. run'[r].at = "loaded" /\ UNCHANGED <<plan, steps, locks, task>>
    BY <1>1, <1>2, <2>1 DEF Start
  <2> QED
    BY <2>1, <2>2 DEF LoneOK, Is
<1>3. CASE MarkRunning(r)
  <2>1. run[r].at = "loaded" /\ UNCHANGED <<steps, locks, task>> /\ run'[r].at = "running"
    BY <1>1, <1>3 DEF MarkRunning, Runs
  <2>2. plan'.state = "RUNNING"
    BY <1>1, <1>3 DEF MarkRunning, Plans
  <2> QED
    BY <2>1, <2>2 DEF LoneOK, Is, Terminal
<1>4. CASE StartSteps(r)
  BY <1>4, StartStepsLone
<1>5. CASE resolvePlanResult(r)
  <2>1. /\ run[r].at = "steps" /\ run'[r].at = "resolved" /\ run'[r].result = Resolution
        /\ UNCHANGED <<plan, steps, locks, task>>
        /\ \A i \in Ids : task[r][i].at \in {"none", "done"}
    BY <1>1, <1>5 DEF resolvePlanResult
  <2>2. Resolution' = Resolution
    BY <2>1 DEF Resolution, legsCovered, Is
  <2> QED
    BY <2>1, <2>2, ChainsStay DEF LoneOK
<1>6. CASE Finish(r)
  <2>1. /\ run[r].at = "resolved" /\ run'[r].at = "done" /\ run'[r].result = run[r].result
        /\ UNCHANGED <<steps, locks, task>>
    BY <1>1, <1>6 DEF Finish, Runs
  <2>2. plan'.allOrNone = plan.allOrNone
    BY <1>1, <1>6 DEF Finish, Plans
  <2>3. Resolution' = Resolution
    BY <2>1, <2>2 DEF Resolution, legsCovered, Is
  <2> QED
    BY <2>1, <2>3, ChainsStay DEF LoneOK
<1>7. CASE Crash(r)
  <2>1. run'[r].at = "dead"
    BY <1>1, <1>7 DEF Crash, Runs
  <2> QED
    BY <2>1 DEF LoneOK
<1> QED
  BY <1>2, <1>3, <1>4, <1>5, <1>6, <1>7 DEF RunStep

\* A plan as it was composed, before anybody runs it.
LEMMA InitLone == Init => LoneInv
<1> SUFFICES ASSUME Init, NEW r \in Runners, Alone(r) PROVE LoneOK(r) /\ \A q \in Runners \ {r} : Idle(q)
  BY DEF LoneInv
<1>1. \A q \in Runners : run[q].at = "idle" /\ \A i \in Ids : task[q][i].at = "none"
  BY DEF Init, NoTask
<1>2. FillInv /\ scene \in Scenes
  BY InitFill DEF FillInv, TypeOK
<1>3. ~Terminal(plan.state) /\ locks = {}
  BY DEF Init, Terminal
<1>4. Is("PENDING") = 1..Len(steps)
  <2> DEFINE n == Len(scene.planned)
             new(i) == [leg |-> scene.planned[i].leg, provider |-> scene.planned[i].provider, state |-> "PENDING"]
  <2>1. n \in Nat /\ steps = [i \in 1..n |-> new(i)] /\ \A i \in 1..n : new(i).state = "PENDING"
    BY <1>2, SceneFacts DEF Init
  <2> HIDE DEF n, new
  <2>2. Len(steps) = n
    BY <2>1
  <2> QED
    BY <2>1, <2>2 DEF Is
<1> QED
  BY <1>1, <1>3, <1>4 DEF LoneOK, Idle

\* Whoever takes a step, the plan of a lone call stays its own.
LEMMA NextLone ==
  ASSUME FillInv, FillInv', LoneInv, [Next]_vars
  PROVE  LoneInv'
<1> SUFFICES ASSUME NEW r \in Runners, Alone(r)' PROVE LoneOK(r)' /\ \A q \in Runners \ {r} : Idle(q)'
  BY DEF LoneInv
<1>1. TypeOK /\ run \in [Runners -> Runs] /\ task \in [Runners -> [Ids -> Tasks]]
  BY DEF FillInv, TypeOK
<1>2. scene' = scene /\ Alone(r) /\ LoneOK(r) /\ \A q \in Runners \ {r} : Idle(q)
  BY DEF Next, vars, Alone, LoneInv
<1>3. ASSUME UNCHANGED <<plan, steps, run, task>>, locks' \subseteq locks
      PROVE  LoneOK(r)' /\ \A q \in Runners \ {r} : Idle(q)'
  <2>1. Resolution' = Resolution /\ Is("PENDING")' = Is("PENDING") /\ Len(steps') = Len(steps)
    BY <1>3 DEF Resolution, legsCovered, Is
  <2>2. LoneOK(r)'
    BY <1>2, <1>3, <2>1, ChainsStay DEF LoneOK
  <2>3. \A q \in Runners \ {r} : Idle(q)'
    BY <1>2, <1>3 DEF Idle
  <2> QED
    BY <2>2, <2>3
<1>4. CASE UNCHANGED vars
  BY <1>3, <1>4 DEF vars
<1>5. ASSUME NEW q \in Runners, Start(q) \/ RunStep(q) \/ Crash(q)
      PROVE  LoneOK(r)' /\ \A p \in Runners \ {r} : Idle(p)'
  <2>1. q = r
    <3> SUFFICES ASSUME q # r PROVE FALSE
      OBVIOUS
    <3>1. run[q].at = "idle" /\ q \notin scene.calls
      BY <1>2 DEF Idle, Alone
    <3> QED
      BY <1>5, <3>1 DEF Start, RunStep, MarkRunning, StartSteps, resolvePlanResult, Finish, Crash
  <2>2. LoneOK(r)'
    BY <1>2, <1>5, <2>1, RunStepLone
  <2>3. \A p \in Runners \ {r} : run'[p] = run[p] /\ task'[p] = task[p]
    BY <1>1, <1>5, <2>1 DEF Start, RunStep, MarkRunning, StartSteps, resolvePlanResult, Finish, Crash
  <2> QED
    BY <1>2, <2>2, <2>3 DEF Idle
<1>6. ASSUME NEW q \in Runners, NEW i \in Ids, TaskStep(q, i)
      PROVE  LoneOK(r)' /\ \A p \in Runners \ {r} : Idle(p)'
  <2>1. task[q][i].at # "none" /\ run' = run
    BY <1>6, TaskIsAt
  <2>2. q = r
    BY <1>2, <2>1 DEF Idle
  <2>3. LoneOK(r)'
    BY <1>2, <1>6, <2>2, TaskStepLone
  <2>4. \A p \in Runners \ {r} : task'[p] = task[p]
    BY <1>1, <1>6, <2>2, TasksAreOwn
  <2> QED
    BY <1>2, <2>1, <2>3, <2>4 DEF Idle
<1>7. ASSUME NEW q \in Runners, NEW i \in Ids, Throw(q, i)
      PROVE  LoneOK(r)' /\ \A p \in Runners \ {r} : Idle(p)'
  <2>1. q = r
    BY <1>2, <1>7 DEF Idle, Throw
  <2>2. run'[r].at = "dead" /\ \A p \in Runners \ {r} : run'[p] = run[p] /\ task'[p] = task[p]
    BY <1>1, <1>7, <2>1 DEF Throw, Goto, Runs
  <2> QED
    BY <1>2, <2>2 DEF LoneOK, Idle
<1>8. ASSUME NEW k \in Ids, LockExpires(k)
      PROVE  LoneOK(r)' /\ \A p \in Runners \ {r} : Idle(p)'
  BY <1>3, <1>8 DEF LockExpires
<1>9. ~ForceUnwind /\ \A q \in Runners, k \in Ids : \A p : ~RetryStep(q, k, p)
  BY <1>2 DEF ForceUnwind, RetryStep, Alone
<1> QED
  BY <1>4, <1>5, <1>6, <1>7, <1>8, <1>9 DEF Next

LEMMA LoneAlways == Spec => [](FillInv /\ LoneInv)
<1>1. Init => FillInv /\ LoneInv
  BY InitFill, InitLone
<1>2. FillInv /\ LoneInv /\ [Next]_vars => (FillInv /\ LoneInv)'
  BY NextFill, NextLone
<1> QED
  BY <1>1, <1>2, PTL DEF Spec

\* When the lone call has ended, each row has filled, or it has failed and with it
\* every provider of its leg that no fill has covered.
LEMMA EndedLone ==
  ASSUME FillInv, LoneInv, NEW r \in Runners, Alone(r), run[r].at = "done", NEW k \in 1..Len(steps)
  PROVE  /\ steps[k].state \in {"FILLED", "FAILED"}
         /\ Covered(steps[k].leg) \/ Candidates[steps[k].leg] \subseteq FailedOn(steps, steps[k].leg)
<1>1. /\ \A i \in Ids : ChainOK(r, i) /\ task[r][i].at \in {"none", "done"}
      /\ RowKept(r, k)
  BY DEF LoneInv, LoneOK
<1>2. PICK i \in Ids : /\ task[r][i].at = "done"
                       /\ Step(r, i) = k \/ (steps[k].state = "FAILED" /\ Leg(r, i) = steps[k].leg)
  BY <1>1 DEF RowKept
<1>3. /\ Step(r, i) \in 1..Len(steps) /\ Leg(r, i) = steps[k].leg /\ task[r][i].failed \in BOOLEAN
  BY <1>2 DEF FillInv, TypeOK, Tasks, Leg
<1>4. /\ FitsRow("done", task[r][i].failed, steps[Step(r, i)].state)
      /\ \A p \in task[r][i].tried : p = steps[Step(r, i)].provider \/ p \in FailedOn(steps, Leg(r, i))
      /\ task[r][i].failed => Candidates[Leg(r, i)] \subseteq task[r][i].tried
  BY <1>1, <1>2 DEF ChainOK, Step
<1>5. steps[Step(r, i)].state = IF task[r][i].failed THEN "FAILED" ELSE "FILLED"
  BY <1>4 DEF FitsRow
<1>6. CASE task[r][i].failed
  <2>1. steps[Step(r, i)].provider \in FailedOn(steps, Leg(r, i))
    BY <1>3, <1>5, <1>6 DEF FailedOn, Leg
  <2> QED
    BY <1>2, <1>3, <1>4, <1>5, <1>6, <2>1
<1>7. CASE ~task[r][i].failed
  <2>1. Covered(Leg(r, i))
    BY <1>3, <1>5, <1>7 DEF Covered, Is, Leg
  <2> QED
    BY <1>2, <1>3, <1>5, <1>7, <2>1
<1> QED
  BY <1>3, <1>6, <1>7

\* plan-runner.ts:420-474: whatever fails, times out or is tried again, the only
\* call on a plan gives a leg up only when every provider that quoted it has failed.
THEOREM LegsAreTriedToTheEnd ==
  ASSUME \A s \in Scenes, r \in Runners : s.calls = {r} => s.retries = {}
  PROVE  Spec => []GivenUpOnlyWhenExhausted
<1>1. FillInv /\ LoneInv => GivenUpOnlyWhenExhausted
  <2> SUFFICES ASSUME FillInv, LoneInv, NEW r \in Runners, scene.calls = {r}, run[r].at = "done",
                      NEW l \in Legs, NEW k \in 1..Len(steps), steps[k].leg = l
               PROVE  Covered(l) \/ Candidates[l] \subseteq {steps[i].provider : i \in {j \in Is("FAILED") : steps[j].leg = l}}
    BY DEF GivenUpOnlyWhenExhausted
  <2>1. Alone(r)
    BY DEF FillInv, TypeOK, Alone
  <2>2. FailedOn(steps, l) = {steps[i].provider : i \in {j \in Is("FAILED") : steps[j].leg = l}}
    BY DEF FailedOn, Is
  <2> QED
    BY <2>1, <2>2, EndedLone
<1> QED
  BY <1>1, LoneAlways, PTL

\* What resolvePlanResult compares: the legs with a fill against the legs.
LEMMA CoveredLegs == legsCovered <=> \A k \in 1..Len(steps) : Covered(steps[k].leg)
<1> DEFINE all == {steps[i].leg : i \in 1..Len(steps)}
           covered == {steps[i].leg : i \in Is("FILLED")}
<1>1. covered \subseteq all
  BY DEF Is
<1>2. \A l : l \in covered <=> Covered(l)
  BY DEF Covered
<1>3. legsCovered <=> all \subseteq covered
  BY <1>1 DEF legsCovered
<1>4. all \subseteq covered <=> \A k \in 1..Len(steps) : steps[k].leg \in covered
  OBVIOUS
<1> HIDE DEF all, covered
<1> QED
  BY <1>2, <1>3, <1>4

\* plan-runner.ts:316-389: the only call on a plan answers what became of its
\* steps, and leaves none of them unfinished.
THEOREM ResultsAreTrue ==
  ASSUME \A s \in Scenes, r \in Runners : s.calls = {r} => s.retries = {}
  PROVE  Spec => []ResultMatchesSteps
<1>1. FillInv /\ LoneInv => ResultMatchesSteps
  <2> SUFFICES ASSUME FillInv, LoneInv, NEW r \in Runners, scene.calls = {r}, run[r].at = "done"
               PROVE  /\ Is("PENDING") = {} /\ Is("EXECUTING") = {}
                      /\ run[r].result = "COMPLETED" => \A i \in 1..Len(steps) : Covered(steps[i].leg)
                      /\ run[r].result = "PARTIAL" => ~plan.allOrNone /\ \E l, m \in Legs : Covered(l) /\ ~Covered(m)
                      /\ run[r].result = "FAILED" => Is("FILLED") = {}
    BY DEF ResultMatchesSteps
  <2>1. Alone(r) /\ plan.allOrNone \in BOOLEAN /\ steps \in Seq(Rows)
    BY DEF FillInv, TypeOK, Alone, Plans
  <2>2. \A k \in 1..Len(steps) : steps[k].state \in {"FILLED", "FAILED"}
    BY <2>1, EndedLone
  <2>3. Is("PENDING") = {} /\ Is("EXECUTING") = {}
    BY <2>2 DEF Is
  <2>4. run[r].result = Resolution
    BY <2>1 DEF LoneInv, LoneOK
  <2>5. \A k \in 1..Len(steps) : steps[k].leg \in Legs
    <3>1. \A k \in 1..Len(steps) : steps[k] \in Rows
      BY <2>1, SeqElements
    <3> QED
      BY <3>1 DEF Rows
  <2>6. legsCovered <=> \A k \in 1..Len(steps) : Covered(steps[k].leg)
    BY CoveredLegs
  <2>7. ASSUME Resolution = "COMPLETED" PROVE \A k \in 1..Len(steps) : Covered(steps[k].leg)
    <3>1. legsCovered \/ Is("FAILED") = {}
      BY <2>1, <2>7 DEF Resolution
    <3>2. CASE Is("FAILED") = {}
      BY <2>2, <3>2 DEF Is, Covered
    <3> QED
      BY <2>6, <3>1, <3>2
  <2>8. ASSUME Resolution = "PARTIAL" PROVE ~plan.allOrNone /\ \E l, m \in Legs : Covered(l) /\ ~Covered(m)
    <3>1. Is("FILLED") # {} /\ ~legsCovered /\ ~plan.allOrNone
      BY <2>1, <2>8 DEF Resolution
    <3>2. PICK k \in Is("FILLED") : TRUE
      BY <3>1
    <3>3. k \in 1..Len(steps) /\ Covered(steps[k].leg)
      BY <3>2 DEF Is, Covered
    <3>4. PICK j \in 1..Len(steps) : ~Covered(steps[j].leg)
      BY <2>6, <3>1
    <3> QED
      BY <2>5, <3>1, <3>3, <3>4
  <2>9. Resolution = "FAILED" => Is("FILLED") = {}
    BY <2>1 DEF Resolution
  <2> QED
    BY <2>3, <2>4, <2>7, <2>8, <2>9
<1> QED
  BY <1>1, LoneAlways, PTL
=============================================================================
