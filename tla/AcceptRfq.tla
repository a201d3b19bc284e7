----------------------------- MODULE AcceptRfq -----------------------------
(***************************************************************************)
(* POST /rfq/:id/accept: acceptRFQ and the submission handlers of          *)
(* src/api/server.ts, over the execution control gateway                   *)
(* (src/execution-control), the execution router                           *)
(* (src/core/execution-router), the RFQ row and the risk reservation.      *)
(*                                                                         *)
(* A call reserves, builds a plan (which may cross the whole order         *)
(* internally at once), takes an idempotency key, opens an execution       *)
(* record and hands over to a submission job; the job of a plan may run on *)
(* after the call has returned.  The RFQ's status is read, checked and     *)
(* written by separate statements, with no compare-and-set anywhere.       *)
(*                                                                         *)
(* A reservation is looked for and committed in two steps, as in the risk  *)
(* engine; the Redis lock around them is LockOutlives, as in RiskEngine.   *)
(* The order router and the plan runner are reduced to what they return.   *)
(***************************************************************************)
EXTENDS Naturals, FiniteSets, RfqStates, ReservationBook

CONSTANTS MarketOf,      \* the canonical market of each RFQ
          LockOutlives,  \* TRUE: the 5 s of the risk lock outlast its transaction
          Ranks,         \* how many ranked quotes the router has to try
          MaxFaults,     \* bound: calls that die, session locks that run out
          None           \* no key, no binding, nobody

ASSUME RanksAssumption == Ranks \in Nat
ASSUME MaxFaultsAssumption == MaxFaults \in Nat
\* A binding hash of a plan is no kind of execution, and neither is no binding.
ASSUME BindingAssumption ==
  LET kinds == {"INTERNAL_CROSS", "SOR_PLAN", "LEGACY_RFQ"}
  IN  Accepts \cap kinds = {} /\ None \notin Accepts \cup kinds

Rfqs == {RfqOf[c] : c \in Accepts}
Markets == {MarketOf[r] : r \in Rfqs}

VARIABLES sorEnabled,   \* SOR_ENABLED: plans instead of the quote router
          background,   \* plans are not awaited
          status,       \* rfq_sessions.status
          sessionLock,  \* rfq:<id>:lock -> the call that set it
          binding,      \* execution_idempotency_keys: RFQ -> binding hash
          record,       \* execution_records by provider_execution_key
          call,         \* acceptRFQ and the gateway, per call
          job,          \* the submission handler of each call
          executed,     \* calls whose execution has reached a venue
          faults

config == <<sorEnabled, background>>
rows == <<status, binding, record>>
vars == <<config, rows, journal, sessionLock, call, job, executed, faults>>

NoJob == [at |-> "none", goal |-> None, seen |-> None, result |-> None,
          rank |-> 0, found |-> FALSE, stale |-> FALSE]

\* The provider execution keys: a plan's own, or one for all the executions
\* of its kind in a market.
Keys == Accepts \cup ({"INTERNAL_CROSS", "LEGACY_RFQ"} \X Markets)

Init ==
  /\ sorEnabled \in BOOLEAN
  /\ background \in BOOLEAN
  /\ status \in [Rfqs -> {"BROADCAST", "AWAITING_USER"}]
  /\ ReservationInit
  /\ sessionLock = [r \in Rfqs |-> None]
  /\ binding = [r \in Rfqs |-> None]
  /\ record = [k \in Keys |-> None]
  /\ call = [c \in Accepts |-> [at |-> "reserve", kind |-> None, state |-> None,
                               fresh |-> TRUE]]
  /\ job = [c \in Accepts |-> NoJob]
  /\ executed = {}
  /\ faults = 0

Rfq(c) == RfqOf[c]
At(c, place) == call[c].at = place
Goto(c, place) == call' = [call EXCEPT ![c].at = place]
JobAt(c, place) == job[c].at = place
JobGoto(c, place) == job' = [job EXCEPT ![c].at = place]

----------------------------------------------------------------------------
(* acceptRFQ                                                               *)

\* The calls whose reserving transaction is under way.
Reserving(r) == {c \in Accepts : RfqOf[c] = r /\ At(c, "insert")}

\* Mutant: no look at the reservations there are.
FindNothing(c) ==
  /\ At(c, "reserve")
  /\ LockOutlives => Reserving(Rfq(c)) = {}
  /\ Goto(c, "insert")
  /\ UNCHANGED <<config, rows, journal, sessionLock, job, executed, faults>>

\* validateBeforeExecution: no reservation is committed, and while a lock
\* outlives its transaction nobody else is about to commit one; or an error.
FindReservation(c) ==
  /\ At(c, "reserve")
  /\ \/ /\ HoldersOf(Rfq(c)) = {}
        /\ LockOutlives => Reserving(Rfq(c)) = {}
        /\ Goto(c, "insert")
     \/ Goto(c, "ended")
  /\ UNCHANGED <<config, rows, journal, sessionLock, job, executed, faults>>

\* The row is committed, whoever else has one by now, or the call is refused.
GrantReservation(c) ==
  /\ At(c, "insert")
  /\ \/ journal' = journal \cup {c} /\ Goto(c, "build")
     \/ Goto(c, "ended") /\ UNCHANGED journal
  /\ UNCHANGED <<config, rows, sessionLock, job, executed, faults>>

\* buildPlan: a plan for what is left, or the whole order crossed.
Build(c) ==
  /\ At(c, "build")
  /\ \E kind \in {"INTERNAL_CROSS", IF sorEnabled THEN "SOR_PLAN" ELSE "LEGACY_RFQ"} :
       call' = [call EXCEPT ![c].at = "findKey", ![c].kind = kind]
  /\ UNCHANGED <<config, rows, journal, sessionLock, job, executed, faults>>

\* buildPlan throws: the reservation is given back.
BuildFails(c) ==
  /\ At(c, "build")
  /\ Release(c)
  /\ Goto(c, "ended")
  /\ UNCHANGED <<config, rows, sessionLock, job, executed, faults>>

----------------------------------------------------------------------------
(* ExecutionControlGateway.execute                                         *)

\* What the binding hash tells apart: a plan, or a kind without a plan.
BindingOf(c) == IF call[c].kind = "SOR_PLAN" THEN c ELSE call[c].kind

KeyOf(c) == IF call[c].kind = "SOR_PLAN" THEN c
            ELSE <<call[c].kind, MarketOf[Rfq(c)]>>

\* ExecutionIdempotencyService.reserve: find the key, compare its binding.
\* A route or a quote that is too old by now blocks the call like a mismatch.
FindKey(c) ==
  /\ At(c, "findKey")
  /\ \E fresh \in BOOLEAN :
       call' = [call EXCEPT ![c].fresh = fresh,
         ![c].at = CASE binding[Rfq(c)] = None         -> "insertKey"
                     [] binding[Rfq(c)] = BindingOf(c) -> "open"
                     [] OTHER                          -> "openMismatched"]
  /\ UNCHANGED <<config, rows, journal, sessionLock, job, executed, faults>>

\* The upsert keeps the binding of a key that is there by now.
InsertKey(c) ==
  /\ At(c, "insertKey")
  /\ binding' = [binding EXCEPT ![Rfq(c)] = IF @ = None THEN BindingOf(c) ELSE @]
  /\ Goto(c, "open")
  /\ UNCHANGED <<config, status, record, journal, sessionLock, job, executed, faults>>

\* The record as its call writes it: ON CONFLICT DO UPDATE, whoever had it.
WriteRecord(c, state) ==
  record' = [record EXCEPT ![KeyOf(c)] = state]

\* audit.initialize: the machine of this call starts in CREATED.
OpenRecord(c) ==
  /\ call[c].at \in {"open", "openMismatched"}
  /\ WriteRecord(c, "CREATED")
  /\ call' = [call EXCEPT ![c].state = "CREATED",
       ![c].at = IF At(c, "open") /\ call[c].fresh THEN "check" ELSE "block"]
  /\ UNCHANGED <<config, status, binding, journal, sessionLock, job, executed, faults>>

\* transitionMany: the checks, then one write of the last state.
MoveRecord(c, path, place) ==
  IF RecordCanMove(call[c].state, path)
  THEN /\ WriteRecord(c, path[Len(path)])
       /\ call' = [call EXCEPT ![c].at = place, ![c].state = path[Len(path)]]
  ELSE /\ Goto(c, "ended")
       /\ UNCHANGED record

\* Blocked: FAILED, and acceptRFQ throws; nothing is given back.
Block(c) ==
  /\ At(c, "block")
  /\ MoveRecord(c, <<"FAILED">>, "ended")
  /\ UNCHANGED <<config, status, binding, journal, sessionLock, job, executed, faults>>

Check(c) ==
  /\ At(c, "check")
  /\ MoveRecord(c, <<"CHECKED", "QUOTED">>, "approve")
  /\ UNCHANGED <<config, status, binding, journal, sessionLock, job, executed, faults>>

Approve(c) ==
  /\ At(c, "approve")
  /\ MoveRecord(c, <<"APPROVED">>, "submit")
  /\ UNCHANGED <<config, status, binding, journal, sessionLock, job, executed, faults>>

\* The hand-over: the job starts, and a plan in the background is reported
\* as submitted at once.
Submit(c) ==
  /\ At(c, "submit")
  /\ job' = [job EXCEPT ![c].goal = "ACCEPTED",
       ![c].at = IF call[c].kind = "INTERNAL_CROSS" THEN "release" ELSE "read"]
  /\ Goto(c, IF call[c].kind = "SOR_PLAN" /\ background
             THEN "submitted" ELSE "waiting")
  /\ UNCHANGED <<config, rows, journal, sessionLock, executed, faults>>

PathOf(result) == CASE result = "PARTIAL" -> <<"EXECUTING", "PARTIALLY_FILLED">>
                    [] result = "FAILED"  -> <<"FAILED">>
                    [] OTHER              -> <<"EXECUTING", "FILLED", "SETTLED">>

\* The outcome is recorded; an exception of the handler is an outcome nobody
\* knows, and is recorded as SYNC_PENDING if the record's machine lets it.
Finish(c) ==
  /\ \/ At(c, "submitted") /\ MoveRecord(c, PathOf("SUBMITTED"), "ended")
     \/ /\ At(c, "waiting")
        /\ JobAt(c, "done")
        /\ MoveRecord(c, PathOf(job[c].result), "ended")
     \/ /\ At(c, "waiting")
        /\ JobAt(c, "threw")
        /\ MoveRecord(c, <<"SYNC_PENDING">>, "ended")
  /\ UNCHANGED <<config, status, binding, journal, sessionLock, job, executed, faults>>

----------------------------------------------------------------------------
(* The submission handlers.                                                *)

JobOnly == <<config, rows, journal, sessionLock, call, executed, faults>>

\* What a handler does once the RFQ has the status it asked for.
AfterStatus(c) ==
  CASE job[c].goal = "ACCEPTED" /\ call[c].kind = "INTERNAL_CROSS" ->
         [job[c] EXCEPT !.at = "read", !.goal = "SETTLED", !.result = "COMPLETED"]
    [] job[c].goal = "ACCEPTED" /\ call[c].kind = "SOR_PLAN" ->
         [job[c] EXCEPT !.at = "read", !.goal = "EXECUTING"]
    [] job[c].goal = "ACCEPTED" /\ call[c].kind = "LEGACY_RFQ" ->
         [job[c] EXCEPT !.at = "routerRead"]
    [] job[c].goal = "EXECUTING" -> [job[c] EXCEPT !.at = "run"]
    [] OTHER                     -> [job[c] EXCEPT !.at = "done"]

\* Mutant: no look at the state machine.
ReadUnchecked(c) ==
  LET r == Rfq(c) IN
  /\ JobAt(c, "read")
  /\ job' = [job EXCEPT ![c] =
       IF status[r] = @.goal THEN AfterStatus(c) ELSE [@ EXCEPT !.at = "write"]]
  /\ UNCHANGED JobOnly

\* transitionRFQState: the status is read and checked,
ReadStatus(c) ==
  LET r == Rfq(c) IN
  /\ JobAt(c, "read")
  /\ job' = [job EXCEPT ![c] =
       CASE status[r] = @.goal            -> AfterStatus(c)
         [] RfqCanMove(status[r], @.goal) -> [@ EXCEPT !.at = "write"]
         [] OTHER                         -> [@ EXCEPT !.at = "threw"]]
  /\ UNCHANGED JobOnly

\* and written by a second statement, whatever it is by then.
WriteStatus(c) ==
  /\ JobAt(c, "write")
  /\ status' = [status EXCEPT ![Rfq(c)] = job[c].goal]
  /\ job' = [job EXCEPT ![c] = AfterStatus(c)]
  /\ UNCHANGED <<config, binding, record, journal, sessionLock, call, executed, faults>>

\* INTERNAL_CROSS gives the reservation back first.
ReleaseFirst(c) ==
  /\ JobAt(c, "release")
  /\ Release(c)
  /\ JobGoto(c, "read")
  /\ UNCHANGED <<config, rows, sessionLock, call, executed, faults>>

\* Mutant: a plan that failed leaves the status as it is.
RunPlanForgetting(c) ==
  /\ JobAt(c, "run")
  /\ executed' = executed \cup {c}
  /\ Release(c)
  /\ \E result \in {"COMPLETED", "PARTIAL", "FAILED"} :
       job' = [job EXCEPT ![c].result = result, ![c].goal = "SETTLED",
                          ![c].at = IF result = "FAILED" THEN "done" ELSE "read"]
  /\ UNCHANGED <<config, rows, sessionLock, call, faults>>

\* PlanRunner.run: the first step it books gives the reservation back.
RunPlan(c) ==
  /\ JobAt(c, "run")
  /\ executed' = executed \cup {c}
  /\ Release(c) \/ UNCHANGED journal
  /\ \/ \E result \in {"COMPLETED", "PARTIAL", "FAILED"} :
          job' = [job EXCEPT ![c].at = "read", ![c].result = result,
                    ![c].goal = IF result = "FAILED" THEN "FAILED" ELSE "SETTLED"]
     \/ JobGoto(c, "threw")
  /\ UNCHANGED <<config, rows, sessionLock, call, faults>>

----------------------------------------------------------------------------
(* ExecutionRouterService.execute, the handler of a LEGACY_RFQ.            *)

\* The session is read before the lock is taken.
RouterRead(c) ==
  /\ JobAt(c, "routerRead")
  /\ job' = [job EXCEPT ![c].at = "routerLock", ![c].seen = status[Rfq(c)]]
  /\ UNCHANGED JobOnly

RouterLock(c) ==
  /\ JobAt(c, "routerLock")
  /\ IF sessionLock[Rfq(c)] = None
     THEN /\ sessionLock' = [sessionLock EXCEPT ![Rfq(c)] = c]
          /\ JobGoto(c, "start")
     ELSE JobGoto(c, "threw") /\ UNCHANGED sessionLock
  /\ UNCHANGED <<config, rows, journal, call, executed, faults>>

\* transitionSessionToState with the status that was read before the lock.
RouterMove(c, from, to, place) ==
  IF RfqCanMove(from, to)
  THEN /\ status' = [status EXCEPT ![Rfq(c)] = to]
       /\ JobGoto(c, place)
  ELSE JobGoto(c, "unlock") /\ UNCHANGED status

RouterStart(c) ==
  /\ JobAt(c, "start")
  /\ RouterMove(c, job[c].seen, "EXECUTING", "quotes")
  /\ UNCHANGED <<config, binding, record, journal, sessionLock, call, executed, faults>>

\* The next ranked quote: unknown, stale, refused by the venue, or executed.
TryQuote(c) ==
  /\ JobAt(c, "quotes")
  /\ job[c].rank < Ranks
  /\ \E outcome \in {"notFound", "stale", "refused", "executed"} :
       /\ job' = [job EXCEPT ![c].rank = @ + 1,
            ![c].found = @ \/ outcome # "notFound",
            ![c].stale = @ \/ outcome = "stale",
            ![c].at = IF outcome = "executed" THEN "book" ELSE "quotes"]
       /\ executed' = IF outcome = "executed" THEN executed \cup {c} ELSE executed
  /\ UNCHANGED <<config, rows, journal, sessionLock, call, faults>>

\* Nothing left to try: no quote was known, or one was stale, or all failed.
QuotesTried(c) ==
  /\ JobAt(c, "quotes")
  /\ job[c].rank = Ranks
  /\ IF (Ranks > 0 /\ ~job[c].found) \/ job[c].stale
     THEN JobGoto(c, "fail")
     ELSE job' = [job EXCEPT ![c].at = "unlock", ![c].result = "FAILED"]
  /\ UNCHANGED JobOnly

RouterFail(c) ==
  /\ JobAt(c, "fail")
  /\ RouterMove(c, job[c].seen, "FAILED", "unlock")
  /\ UNCHANGED <<config, binding, record, journal, sessionLock, call, executed, faults>>

\* The execution row and the exposure, then SETTLED.
RouterSettle(c) ==
  /\ JobAt(c, "book")
  /\ status' = [status EXCEPT ![Rfq(c)] = "SETTLED"]
  /\ job' = [job EXCEPT ![c].at = "unlock", ![c].result = "COMPLETED"]
  /\ UNCHANGED <<config, binding, record, journal, sessionLock, call, executed, faults>>

\* The finally block deletes the lock, whoever has it; then the exception
\* goes on, or the handler looks at the result.
RouterUnlock(c) ==
  /\ JobAt(c, "unlock")
  /\ sessionLock' = [sessionLock EXCEPT ![Rfq(c)] = None]
  /\ job' = [job EXCEPT ![c].at = IF job[c].result = None THEN "threw" ELSE "read",
        ![c].goal = IF job[c].result = "COMPLETED" THEN "SETTLED" ELSE "FAILED"]
  /\ UNCHANGED <<config, rows, journal, call, executed, faults>>

----------------------------------------------------------------------------
(* The environment.                                                        *)

Fault == faults < MaxFaults /\ faults' = faults + 1

SessionLockExpires(r) ==
  /\ sessionLock[r] # None
  /\ Fault
  /\ sessionLock' = [sessionLock EXCEPT ![r] = None]
  /\ UNCHANGED <<config, rows, journal, call, job, executed>>

JobRuns(c) == job[c].at \notin {"none", "done", "threw", "died"}
UnderLock(c) == job[c].at \in {"start", "quotes", "fail", "book"}

\* A statement of the handler fails; under the lock the finally block runs.
JobThrows(c) ==
  /\ JobRuns(c)
  /\ Fault
  /\ JobGoto(c, IF UnderLock(c) THEN "unlock" ELSE "threw")
  /\ UNCHANGED <<config, rows, journal, sessionLock, call, executed>>

\* The process that serves a call dies, with the job it started.
Crash(c) ==
  /\ call[c].at \notin {"reserve", "ended"} \/ JobRuns(c)
  /\ Fault
  /\ Goto(c, "ended")
  /\ job' = IF JobRuns(c) THEN [job EXCEPT ![c].at = "died"] ELSE job
  /\ UNCHANGED <<config, rows, journal, sessionLock, executed>>

CallStep(c) == FindReservation(c) \/ GrantReservation(c) \/ Build(c) \/ BuildFails(c) \/ FindKey(c)
               \/ InsertKey(c) \/ OpenRecord(c) \/ Block(c) \/ Check(c)
               \/ Approve(c) \/ Submit(c) \/ Finish(c)
JobStep(c) == ReadStatus(c) \/ WriteStatus(c) \/ ReleaseFirst(c) \/ RunPlan(c)
              \/ RouterRead(c) \/ RouterLock(c) \/ RouterStart(c) \/ TryQuote(c)
              \/ QuotesTried(c) \/ RouterFail(c) \/ RouterSettle(c) \/ RouterUnlock(c)

Next ==
  \/ \E c \in Accepts : CallStep(c) \/ JobStep(c) \/ JobThrows(c) \/ Crash(c)
  \/ \E r \in Rfqs : SessionLockExpires(r)

\* The event loop runs every promise that has been started.
Fairness == \A c \in Accepts : WF_vars(CallStep(c)) /\ WF_vars(JobStep(c))

Spec == Init /\ [][Next]_vars /\ Fairness

----------------------------------------------------------------------------
(* Properties.                                                             *)

\* The shape of the rows and of the calls (server.ts:1421-1588).
TypeOK ==
  /\ status \in [Rfqs -> RfqStatuses]
  /\ sessionLock \in [Rfqs -> Accepts \cup {None}]
  /\ record \in [Keys -> RecordStates \cup {None}]
  /\ journal \subseteq Accepts /\ executed \subseteq Accepts
  /\ faults \in 0 .. MaxFaults
  /\ \A c \in Accepts : job[c].rank \in 0 .. Ranks

\* risk-engine.ts:134-198 and server.ts:1506-1588: acceptances of one RFQ race
\* for its reservation, the session lock runs out or a handler dies between its
\* venue call and its writes: the RFQ is sent to venues by at most one of them,
\* provided the risk lock outlives its transaction (LockOutlives).  Nothing in
\* exposure_journal forbids a second reservation once it has run out.
SentOnce ==
  /\ TypeOK
  /\ \A c, d \in executed : Rfq(c) = Rfq(d) => c = d

\* transitionRFQState (server.ts:1421-1451): the status is read, checked and written by separate statements of several
\* jobs, the router's from a session read before its lock: every write is
\* still a move of the RFQ's state machine from what the row held, while the risk
\* lock outlives its transaction: only the reservation keeps other jobs away.
StatusFollowsMachine ==
  [][\A r \in Rfqs : status'[r] # status[r] => RfqCanMove(status[r], status'[r])]_vars

\* server.ts:1506-1588: an RFQ that started to execute is settled or failed,
\* unless the handler of one of its acceptances threw or died.
ExecutionEnds ==
  \A r \in Rfqs : (status[r] = "EXECUTING") ~>
    \/ status[r] \in {"SETTLED", "FAILED"}
    \/ \E c \in Accepts : Rfq(c) = r /\ job[c].at \in {"threw", "died"}
=============================================================================
