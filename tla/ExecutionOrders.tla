--------------------------- MODULE ExecutionOrders ---------------------------
(***************************************************************************)
(* src/execution-system: one execution order from READY_TO_PLACE on, under *)
(* everything that works on it at the same time: requests of its user      *)
(* (place, submitSignatures, status), the refresh job, the background      *)
(* submission of its signed legs, submissions of the same bundle through   *)
(* the route that goes past the order, and the execution status watcher.   *)
(*                                                                         *)
(* There are four copies of what has happened: the row of the order, the   *)
(* status record in Postgres, the status record in the memory of the       *)
(* process, and the venues.  Only startSubmit compares before it sets; all *)
(* other writes of the row carry what was read some time before.           *)
(***************************************************************************)
EXTENDS Naturals, FiniteSets

CONSTANTS MaxLegs,      \* legs of the longest route
          Directs,      \* requests to submit-signed-bundle
          Scenes,       \* the routes and requests, see SceneAssumption
          SlowSubmits,  \* TRUE: a submission may take more than 30 s
          MaxFaults     \* bound: crashes, lost answers, failed lookups, throws

ASSUME BoundsAssumption == MaxLegs \in Nat \ {0} /\ MaxFaults \in Nat
ASSUME DirectsAssumption == Directs \cap {"-", "place", "sign", "refresh", "submit", "watcher"} = {}

\* A request to place and one to sign may be served at a time.
Requests == {"place", "sign"}

\* Who sends legs to venues: the background submission of the order, of which the
\* process has one, and the requests that call SignedTradeBundleService.submit
\* themselves, which nothing keeps from overlapping with it or with each other.
Senders == {"submit"} \cup Directs

\* legs: how many legs the route has, submitted in this order; checked: those whose
\* fill counts only once its settlement is verified; requests: what the user asks
\* for; may: whether anything fails, and whether the clocks run.
ASSUME SceneAssumption ==
  Scenes \subseteq [legs : 1..MaxLegs, checked : SUBSET (1..MaxLegs),
                    requests : SUBSET (Requests \cup Directs), may : SUBSET {"fail", "age"}]

Legs == 1..MaxLegs
\* "refresh" stands for status, asked for by the user or by the refresh job.
Tasks == Requests \cup Senders \cup {"refresh", "watcher"}

VARIABLES scene,    \* which of the scenes it is
          order,    \* execution_orders_v1: state, executionId set?, blocker, signature needed?
          old,      \* were 30 s past its updated_at when it was SUBMITTING?
          db,       \* signed_trade_bundle_executions: status, submitted_legs
          aged,     \* is that row no longer in the list of the watcher?
          cache,    \* the same record in executionStatuses, a map of the process
          venue,    \* what has become of the last order a sender sent for a leg
          sent,     \* how many orders it sent for it
          applied,  \* its row in signed_trade_bundle_position_applications
          position, \* how often its fill is in user_execution_positions
          quote,    \* is the quote still fresh?
          task,     \* where each request and job is
          faults    \* how many faults have happened

row == <<order, old>>
records == <<db, aged, cache>>
market == <<venue, sent, quote>>
books == <<applied, position>>
vars == <<scene, row, records, market, books, task, faults>>

Route == 1..scene.legs
Checked == scene.checked

\* failed: is the status of the record FAILED?  by: whose order a leg is.
NoLeg == [by |-> "-", status |-> "-"]
NoRecord == [failed |-> FALSE, legs |-> [l \in Legs |-> NoLeg]]
NoPatch == [state |-> "-", exec |-> FALSE, interrupted |-> FALSE]

\* at: the statement that comes next; record: the status record in hand; to: the
\* patch that is about to be written.
Idle == [at |-> "idle", record |-> NoRecord, to |-> NoPatch]

Init ==
  /\ scene \in Scenes
  /\ order \in [state : {IF "place" \in scene.requests THEN "READY_TO_PLACE" ELSE "NEEDS_SIGNATURE"},
               exec : {FALSE}, interrupted : {FALSE}, signed : BOOLEAN]
  /\ "place" \notin scene.requests => order.signed
  /\ old = FALSE
  /\ db = NoRecord /\ cache = NoRecord /\ aged = FALSE
  /\ venue = [s \in Senders |-> [l \in Legs |-> "none"]]
  /\ sent = [s \in Senders |-> [l \in Legs |-> 0]]
  /\ applied = [s \in Senders |-> [l \in Legs |-> FALSE]]
  /\ position = [s \in Senders |-> [l \in Legs |-> 0]]
  /\ quote = TRUE
  /\ task = [t \in Tasks |-> Idle]
  /\ faults = 0

At(t, place) == task[t].at = place
Become(t, fields) == task' = [task EXCEPT ![t] = fields]
Goto(t, place) == Become(t, [task[t] EXCEPT !.at = place])
\* A direct submission is one request, and answered once.
End(t) == Become(t, [Idle EXCEPT !.at = IF t \in Directs THEN "done" ELSE "idle"])
Fault == "fail" \in scene.may /\ faults < MaxFaults /\ faults' = faults + 1

----------------------------------------------------------------------------
(* updateOrder, the last thing a task does: the row is written with what   *)
(* the task found some time ago, whatever its state is by now.  (Its own   *)
(* read of the row, for the columns it carries over, is not a step.)       *)

Patch(state) == [state |-> state, exec |-> FALSE, interrupted |-> FALSE]
Write(patch) ==
  /\ order' = [order EXCEPT !.state = patch.state, !.exec = @ \/ patch.exec,
                            !.interrupted = patch.interrupted]
  /\ old' = FALSE

UpdateOrder(t, patch) == Become(t, [Idle EXCEPT !.at = "save", !.to = patch])

\* A submission that throws fails the order, a direct one answers its caller.
Throw(s) == IF s = "submit" THEN UpdateOrder(s, Patch("FAILED")) ELSE End(s)

SaveOrder(t) ==
  /\ At(t, "save")
  /\ Write(task[t].to)
  /\ End(t)
  /\ UNCHANGED <<records, market, books, faults>>

----------------------------------------------------------------------------
(* Status records.                                                         *)

HasFailed(legs) == \E l \in Legs : legs[l].status = "FAILED"
AllFilled(legs) == \A l \in Route : legs[l].status = "FILLED"

\* Mutant: one filled leg fills the bundle.
SummarizeSomeLeg(r) ==
  IF r.failed THEN "FAILED"
  ELSE IF \E l \in Route : r.legs[l].status = "FILLED" THEN "FILLED" ELSE "SUBMITTED"

\* summarizeStoredExecutionStatus, and stateFromSignedStatus of it.
Summarize(r) ==
  IF r.failed THEN "FAILED" ELSE IF AllFilled(r.legs) THEN "FILLED" ELSE "SUBMITTED"

\* findStoredExecutionStatus
FindStored == IF cache # NoRecord THEN cache ELSE db

\* A fill counts for a position; the settlement of a checked leg is verified.
Settled(s, l) == venue[s][l] = "settled" \/ (venue[s][l] = "filled" /\ l \notin Checked)

\* Mutant: the settlement of a leg is not asked for.
FetchFillOnly(s, l) ==
  CASE venue[s][l] = "killed" -> "FAILED"
    [] venue[s][l] \in {"filled", "settled"} -> "FILLED"
    [] OTHER -> "OPEN"

\* fetchFillState and fetchSettlementState of a leg, and its status after them.
FetchLeg(s, l) ==
  CASE venue[s][l] = "killed" -> "FAILED"
    [] Settled(s, l) -> "FILLED"
    [] OTHER -> "OPEN"

\* refreshStoredExecutionStatus: a leg that failed is not asked for again, and a
\* lookup that throws leaves its leg as it was.  The status is that of the legs.
RefreshedLegs(legs, asked) ==
  [l \in Legs |-> IF l \in asked /\ legs[l].status \in {"OPEN", "FILLED"}
                  THEN [legs[l] EXCEPT !.status = FetchLeg(legs[l].by, l)] ELSE legs[l]]
Refreshed(r, asked) ==
  [failed |-> HasFailed(RefreshedLegs(r.legs, asked)), legs |-> RefreshedLegs(r.legs, asked)]

Refresh(t, r) ==
  \/ Become(t, [Idle EXCEPT !.at = "store", !.record = Refreshed(r, Legs)]) /\ UNCHANGED faults
  \/ Fault /\ \E l \in Route :
       Become(t, [Idle EXCEPT !.at = "store", !.record = Refreshed(r, Legs \ {l})])

\* updateFromSubmitResult (a submission is never more than SUBMITTED) and
\* updateFromSignedStatus: a row that is FILLED by now is left alone.
Outcome(t, r) == IF t = "submit" /\ ~r.failed THEN "SUBMITTED" ELSE Summarize(r)
Conclude(t, r) ==
  IF order.state = "FILLED" /\ Outcome(t, r) # "FILLED" THEN End(t)
  ELSE UpdateOrder(t, [Patch(Outcome(t, r)) EXCEPT !.exec = TRUE])

\* The submission and status go on to the order; the watcher and a direct
\* submission have nothing to do with it.
Finish(t, r) == IF t \in {"submit", "refresh"} THEN Conclude(t, r) ELSE End(t)

----------------------------------------------------------------------------
(* place, submitSignatures and status.                                     *)

isTerminalOrPendingSubmit == order.state \in {"SUBMITTING", "SUBMITTED", "FILLED", "FAILED", "EXPIRED"}

\* Both requests read the row; a row that is under way turns them into Status.
\* Signatures are refused unless the order waits for them.
ReadOrder(r) ==
  /\ r \in scene.requests
  /\ At(r, "idle")
  /\ ~isTerminalOrPendingSubmit
  /\ r = "sign" => order.state = "NEEDS_SIGNATURE"
  /\ Become(r, [Idle EXCEPT !.at = "check"])
  /\ UNCHANGED <<row, records, market, books, faults>>

\* Either request looks at the quote (expireOrder) and at the depth of the venues
\* (blockOrder); place also at the readiness, which blocks it too, and prepares
\* the signature requests of an order that needs them.
Place(r) ==
  /\ At(r, "check")
  /\ \/ ~quote /\ Write(Patch("EXPIRED"))
     \/ quote /\ Write(Patch("BLOCKED"))
     \/ quote /\ r = "place" /\ order.signed /\ Write(Patch("NEEDS_SIGNATURE"))
  /\ End(r)
  /\ UNCHANGED <<records, market, books, faults>>

StartsFrom(r) == IF r = "sign" THEN {"NEEDS_SIGNATURE"} ELSE {"READY_TO_PLACE"}

\* submitOrderAsync: startSubmit compares and sets; submitInFlight has one
\* submission at a time.
StartSubmit(r) ==
  /\ At(r, "check")
  /\ quote
  /\ r = "sign" \/ ~order.signed
  /\ order.state \in StartsFrom(r)
  /\ order' = [order EXCEPT !.state = "SUBMITTING"]
  /\ old' = FALSE
  /\ task' = [task EXCEPT ![r] = Idle,
                          !["submit"] = IF @.at = "idle" THEN [Idle EXCEPT !.at = "load"] ELSE @]
  /\ UNCHANGED <<records, market, books, faults>>

\* startSubmit finds another state: the answer is the order's status.
NotStarted(r) ==
  /\ At(r, "check")
  /\ quote
  /\ r = "sign" \/ ~order.signed
  /\ order.state \notin StartsFrom(r)
  /\ End(r)
  /\ UNCHANGED <<row, records, market, books, faults>>

\* Mutant: a submission without an execution id is waited for.
NeverInterrupted == FALSE

\* recoverInterruptedSubmit
Interrupted == order.state = "SUBMITTING" /\ ~order.exec /\ old

\* status: an interrupted submission, an expired quote, or getExecutionStatus of
\* the record if there is one.
Status ==
  /\ At("refresh", "idle")
  /\ \/ Interrupted
        /\ UpdateOrder("refresh", [Patch("FAILED") EXCEPT !.interrupted = TRUE])
        /\ UNCHANGED faults
     \/ ~quote /\ order.state \notin {"SUBMITTING", "SUBMITTED", "FILLED", "FAILED"}
        /\ UpdateOrder("refresh", Patch("EXPIRED"))
        /\ UNCHANGED faults
     \/ ~Interrupted
        /\ (quote \/ order.state \in {"SUBMITTING", "SUBMITTED", "FILLED", "FAILED"})
        /\ FindStored # NoRecord
        /\ Refresh("refresh", FindStored)
  /\ UNCHANGED <<row, records, market, books>>

\* listRefreshableOrders; the two minutes of a FAILED order are left open.
Pending == order.state \in {"SUBMITTING", "SUBMITTED"}
Refreshable == Pending \/ (order.state = "FAILED" /\ order.exec)

----------------------------------------------------------------------------
(* runSubmitInBackground and SignedTradeBundleService.submit.              *)

\* submit-signed-bundle: neither the order nor what is in flight is looked at.
StartDirect(d) ==
  /\ d \in scene.requests
  /\ At(d, "idle")
  /\ Become(d, [Idle EXCEPT !.at = "load"])
  /\ UNCHANGED <<row, records, market, books, faults>>

\* Mutant: the record is not looked for.
LoadQuoteOnly(s) ==
  /\ At(s, "load")
  /\ IF quote THEN Goto(s, "leg") ELSE Throw(s)
  /\ UNCHANGED <<row, records, market, books, faults>>

\* An expired quote or a stale readiness throws; a bundle that has a record is
\* not submitted again, the record is the result.
LoadQuote(s) ==
  /\ At(s, "load")
  /\ \/ ~quote /\ Throw(s)
     \/ quote /\ FindStored # NoRecord /\ Finish(s, FindStored)
     \/ quote /\ FindStored = NoRecord /\ (Throw(s) \/ Goto(s, "leg"))
  /\ UNCHANGED <<row, records, market, books, faults>>

\* The leg that comes next.
Leg(s) == CHOOSE l \in Route : /\ task[s].record.legs[l] = NoLeg
                              /\ \A k \in 1..(l - 1) : task[s].record.legs[k] # NoLeg

Answered(s, status) ==
  Become(s, [task[s] EXCEPT
    !.record = [failed |-> status = "FAILED",
                legs |-> [@.legs EXCEPT ![Leg(s)] = [by |-> s, status |-> status]]],
    !.at = IF status = "FAILED" \/ Leg(s) = scene.legs THEN "merge" ELSE "leg"])

\* prepareOrder throws, or the signature of the leg is missing or does not
\* verify: nothing is recorded of the legs that were sent before it.
PrepareThrows(s) ==
  /\ At(s, "leg")
  /\ Fault
  /\ Throw(s)
  /\ UNCHANGED <<row, records, market, books>>

\* submitOrder: the venue takes the order, and may have filled it already.
SubmitLeg(s) ==
  /\ At(s, "leg")
  /\ \E state \in {"open", "filled"} :
       /\ venue' = [venue EXCEPT ![s][Leg(s)] = state]
       /\ Answered(s, IF state = "filled" /\ Leg(s) \notin Checked THEN "FILLED" ELSE "OPEN")
  /\ sent' = [sent EXCEPT ![s][Leg(s)] = @ + 1]
  /\ UNCHANGED <<row, records, quote, books, faults>>

\* The venue refuses it: the rest of the bundle is not sent.
LegRefused(s) ==
  /\ At(s, "leg")
  /\ Answered(s, "FAILED")
  /\ UNCHANGED <<row, records, market, books, faults>>

\* The venue has it but the answer is an error (a timeout, a dropped connection).
AnswerLost(s) ==
  /\ At(s, "leg")
  /\ Fault
  /\ venue' = [venue EXCEPT ![s][Leg(s)] = "open"]
  /\ sent' = [sent EXCEPT ![s][Leg(s)] = @ + 1]
  /\ Answered(s, "FAILED")
  /\ UNCHANGED <<row, records, quote, books>>

\* mergeSubmittedLegFailures: of a leg that both have, a failure gives way to what
\* was there, and anything else replaces it.
Prevails(was, now) == now = NoLeg \/ (now.status = "FAILED" /\ was.status \in {"OPEN", "FILLED"})
Merge(there, legs) ==
  [l \in Legs |-> IF Prevails(there[l], legs[l]) THEN there[l] ELSE legs[l]]

\* recordExecutionStatus looks for the record once more; the status is that of
\* what was submitted now.
MergeRecord(s) ==
  /\ At(s, "merge")
  /\ Become(s, [task[s] EXCEPT !.at = "store", !.record.legs = Merge(FindStored.legs, @)])
  /\ UNCHANGED <<row, records, market, books, faults>>

----------------------------------------------------------------------------
(* The watcher, and what every holder of a status record does with it.     *)

\* listActiveExecutionStatuses: the record is in Postgres and has not failed, and it
\* is not too old for the list or too far down in it.
Listed == db # NoRecord /\ ~db.failed /\ ~aged

\* Mutant: only bundles that are FILLED are watched.
RefreshFilled ==
  /\ At("watcher", "idle")
  /\ Listed
  /\ Summarize(db) = "FILLED"
  /\ Refresh("watcher", db)
  /\ UNCHANGED <<row, records, market, books>>

\* The watcher asks the venues of a listed record (refreshStatus).
RefreshActive ==
  /\ At("watcher", "idle")
  /\ Listed
  /\ Refresh("watcher", db)
  /\ UNCHANGED <<row, records, market, books>>

\* The record leaves the list when it has not been written for 900 s, or when there
\* are 50 that were written after it; in the second case it may come back.  (What
\* the watcher has in hand it is about to write.)
RecordAges ==
  /\ "age" \in scene.may
  /\ db # NoRecord /\ ~db.failed
  /\ At("watcher", "idle")
  /\ aged' = ~aged
  /\ UNCHANGED <<row, db, cache, market, books, task, faults>>

\* saveExecutionStatus, in the map and in Postgres; the watcher has no map.
saveExecutionStatus(t) ==
  /\ At(t, "store")
  /\ db' = task[t].record
  /\ aged' = FALSE
  /\ cache' = IF t = "watcher" THEN cache ELSE task[t].record
  /\ Goto(t, "apply")
  /\ UNCHANGED <<row, market, books, faults>>

\* recordFilledLeg of each: a transaction that inserts or locks the row of the
\* application, which is one of the order of the venue, and adds to the position
\* what the application lacks.
recordFilledLegs(legs) ==
  LET Fills(s, l) == legs[l] = [by |-> s, status |-> "FILLED"]
  IN  /\ applied' = [s \in Senders |-> [l \in Legs |-> applied[s][l] \/ Fills(s, l)]]
      /\ position' = [s \in Senders |-> [l \in Legs |->
           IF Fills(s, l) /\ ~applied[s][l] THEN position[s][l] + 1 ELSE position[s][l]]]

\* recordFilledPositions
RecordFilledPositions(t) ==
  /\ At(t, "apply")
  /\ recordFilledLegs(task[t].record.legs)
  /\ Finish(t, task[t].record)
  /\ UNCHANGED <<row, records, market, faults>>

----------------------------------------------------------------------------
(* The venues, the clock and the process.                                  *)

VenueMoves(s, l) ==
  /\ \/ venue[s][l] = "open" /\ \E v \in {"filled", "killed"} : venue' = [venue EXCEPT ![s][l] = v]
     \/ venue[s][l] = "filled" /\ l \in Checked /\ venue' = [venue EXCEPT ![s][l] = "settled"]
  /\ UNCHANGED <<row, records, sent, quote, books, task, faults>>

QuoteExpires ==
  /\ "age" \in scene.may
  /\ quote
  /\ quote' = FALSE
  /\ UNCHANGED <<row, records, venue, sent, books, task, faults>>

\* SUBMIT_START_INTERRUPTED_AFTER_MS have passed.
SubmitAges ==
  /\ "age" \in scene.may
  /\ order.state = "SUBMITTING"
  /\ ~old
  /\ SlowSubmits \/ At("submit", "idle")
  /\ old' = TRUE
  /\ UNCHANGED <<order, records, market, books, task, faults>>

\* The process stops: its map and whatever it was doing are gone.
Restart ==
  /\ Fault
  /\ cache' = NoRecord
  /\ task' = [t \in Tasks |-> Idle]
  /\ UNCHANGED <<row, db, aged, market, books>>

RefreshOpenOrders == Refreshable /\ Status

\* What a task that has begun does next.
Step(t) ==
  \/ SaveOrder(t) \/ saveExecutionStatus(t) \/ RecordFilledPositions(t)
  \/ Place(t) \/ StartSubmit(t) \/ NotStarted(t)

SubmitStep(s) == LoadQuote(s) \/ SubmitLeg(s) \/ LegRefused(s) \/ MergeRecord(s)

Next ==
  /\ \/ \E r \in Requests : ReadOrder(r)
     \/ \E t \in Tasks : Step(t)
     \/ \E d \in Directs : StartDirect(d)
     \/ \E s \in Senders : SubmitStep(s) \/ PrepareThrows(s) \/ AnswerLost(s)
     \/ Status \/ RefreshActive
     \/ \E s \in Senders, l \in Legs : VenueMoves(s, l)
     \/ QuoteExpires \/ SubmitAges \/ RecordAges \/ Restart
  /\ UNCHANGED scene

\* What is begun goes on, both timers keep firing and time passes; the user need
\* not ask and the venues need not fill.
Fairness ==
  /\ \A t \in Tasks \ Senders : WF_vars(Step(t) /\ UNCHANGED scene)
  /\ \A s \in Senders : WF_vars((Step(s) \/ SubmitStep(s)) /\ UNCHANGED scene)
  /\ WF_vars(Pending /\ RefreshOpenOrders /\ UNCHANGED scene)
  /\ WF_vars(RefreshActive /\ UNCHANGED scene)
  /\ WF_vars(SubmitAges /\ UNCHANGED scene)

Spec == Init /\ [][Next]_vars /\ Fairness

----------------------------------------------------------------------------
OrderStates == {"READY_TO_PLACE", "NEEDS_SIGNATURE", "BLOCKED", "SUBMITTING", "SUBMITTED",
                "FILLED", "FAILED", "EXPIRED"}
Rows == [state : OrderStates, exec : BOOLEAN, interrupted : BOOLEAN, signed : BOOLEAN]
LegRecords == [by : Senders, status : {"OPEN", "FILLED", "FAILED"}] \cup {NoLeg}
Records == [failed : BOOLEAN, legs : [Legs -> LegRecords]]
Places == {"idle", "done", "check", "load", "leg", "merge", "store", "apply", "save"}

\* The shape of the rows and of the tasks (execution-order-orchestrator.ts).
TypeOK ==
  /\ scene \in Scenes
  /\ order \in Rows
  /\ db \in Records /\ cache \in Records
  /\ venue \in [Senders -> [Legs -> {"none", "open", "filled", "killed", "settled"}]]
  /\ sent \in [Senders -> [Legs -> 0..(1 + MaxFaults)]]
  /\ position \in [Senders -> [Legs -> 0..(1 + MaxFaults)]]
  /\ \A t \in Tasks : task[t].at \in Places /\ task[t].record \in Records /\ task[t].to.state \in OrderStates \cup {"-"}
  /\ faults \in 0..MaxFaults

\* Whose orders a record holds.
By(r) == {r.legs[l].by : l \in Legs}

\* signed-trade-bundle.ts:266-269 (tests/signed-trade-bundle.test.ts:1011): who has
\* recorded its legs does not send one again, whichever late write has made the
\* order signable again, whatever the process has forgotten in a restart and
\* whoever else has submitted the bundle.  (Two submissions that both looked before
\* either recorded send every leg twice: nothing in the code keeps them apart.)
RecordedIsNotResent ==
  [][\A s \in Senders : sent'[s] # sent[s] => s \notin By(db) \cup By(cache)]_vars

\* execution-routing.repository.ts:395-534 (tests/execution-status-watcher.test.ts:160):
\* the watcher, the requests and the submissions all record the fills they see; the
\* fill of an order is in the position once, and only when the venue has really
\* settled it.
PositionIsFill ==
  /\ TypeOK
  /\ \A s \in Senders, l \in Legs : position[s][l] <= 1 /\ (position[s][l] = 1 => Settled(s, l))

\* execution-order-orchestrator.ts:671-693: an order that says FILLED is one whose
\* legs have all filled, whatever overwrote its row before.
FilledIsReal == order.state = "FILLED" => \A l \in Route : \E s \in Senders : Settled(s, l)

\* execution-order-orchestrator.ts:854-874: an order does not stay SUBMITTING, not
\* even when the process of its submission is gone.
SubmitEnds == order.state = "SUBMITTING" ~> order.state # "SUBMITTING"

\* A leg of the record has filled, nobody has added it to the position yet, and the
\* watcher still lists the record.
LacksFill(l) ==
  /\ Listed
  /\ \E s \in Senders : db.legs[l].by = s /\ Settled(s, l) /\ position[s][l] = 0

\* execution-status-watcher.ts:116-168: a settled leg of a recorded bundle reaches
\* the position, with nobody asking for the order, unless another leg failed, a
\* later record has another order for the leg, or the record has left the list.
FillIsRecorded == \A l \in Legs : LacksFill(l) ~> ~LacksFill(l)

\* execution-order-orchestrator.ts:1523 "Order submit was interrupted before the
\* venue received it.": no leg of an order that says so was sent.
InterruptedWasNotSent == order.interrupted => \A l \in Legs : sent["submit"][l] = 0
=============================================================================
