------------------------------ MODULE Funding -------------------------------
(* One funding intent (core/funding/funding-service.ts): the user asks for a *)
(* route per venue, signs and submits each of them, and the service follows  *)
(* the money over a bridge to the venue until it can be traded with.  The    *)
(* user's requests, the readiness watcher and the cleanup of stale intents   *)
(* all read the intent, wait for somebody, and write single rows without     *)
(* looking at them again (repositories/funding.repository.ts).               *)
EXTENDS Naturals, FiniteSets

CONSTANTS
  Bridged,    \* the legs that go over a bridge (LI.FI); the others are direct transfers
  Rechecked,  \* the legs of POLYMARKET, which are verified again when they are ready
  Scenes,     \* [legs, clients, quotes, requotes]: who takes part, the number of
              \* quotes, and whether an intent with a submitted leg is quoted again
  SlowRequests, \* a submission may take longer than an expired quote takes to be
              \* cancelled, than the cleanup's transaction, or than the watcher waits
  MaxFaults   \* how often a bridge or a venue answers wrongly or not at all

VARIABLES
  scene,
  intent,     \* funding_intents.status, or "DELETED"
  old,        \* updated_at is older than what the cleanup waits for
  expired,    \* the quotes of the legs are too old to be submitted
  leg,        \* funding_route_legs and their funding_reconciliation_records
  paid, bridged, credited,  \* where the money of a quoted leg is: outside the service
  task,       \* what each client is doing
  faults

\* The legs of an intent are numbered in the order they are refreshed.
ConstantsFit ==
  /\ MaxFaults \in Nat
  /\ \A s \in Scenes :
       /\ Cardinality(s.legs) \in Nat \ {0} /\ s.legs = 1..Cardinality(s.legs)
       /\ s.quotes \in Nat /\ s.requotes \in BOOLEAN
ASSUME ConstantsAssumption == ConstantsFit

fundingVars == <<scene, intent, old, expired, leg, paid, bridged, credited, task, faults>>
rows == <<intent, old, expired, leg>>
world == <<paid, bridged, credited>>

Legs == scene.legs
Clients == {"wallet", "user", "watcher", "cleanup"}
Last == Cardinality(Legs)

\* A leg's row: its id (the quote it came with, 0 before any), and whether it has
\* a transaction hash, a reconciliation record, one that says ready_to_trade.
NoLeg == [quote |-> 0, status |-> "-", sent |-> FALSE, dest |-> FALSE, checked |-> FALSE, ready |-> FALSE]
NewLeg(q) == [NoLeg EXCEPT !.quote = q, !.status = "SIGNATURE_REQUIRED"]

\* A client between two statements: `view` is what getIntent returned, `states`
\* what a refresh has found so far.
Idle == [at |-> "idle", l |-> 0, view |-> <<>>, states |-> <<>>, seen |-> <<>>,
         answer |-> "-", received |-> FALSE, ready |-> FALSE]

At(t, place) == t \in scene.clients /\ task[t].at = place
Become(t, job) == task' = [task EXCEPT ![t] = job]
Proceed(t, place) == Become(t, [task[t] EXCEPT !.at = place])
End(t) == Become(t, Idle)
Statuses(view) == [l \in Legs |-> view[l].status]

\* The row this client means still exists: a new quote deletes the old legs.
Mine(t) == task[t].view[task[t].l]
Exists(t) == leg[task[t].l].quote = Mine(t).quote

Fault == faults < MaxFaults /\ faults' = faults + 1
NoFault == UNCHANGED faults

----------------------------------------------------------------------------
(* Statuses.                                                               *)

All(s, S) == \A l \in Legs : s[l] \in S
Some(s, S) == \E l \in Legs : s[l] \in S

\* Mutant: one ready leg is enough.
aggregateSomeReady(s) ==
  IF Some(s, {"READY"}) THEN "READY_TO_TRADE"
  ELSE IF Some(s, {"RETRY_REQUIRED"}) THEN "PARTIALLY_FAILED" ELSE "BRIDGING"

\* The status of the intent, from those of its legs.
aggregateFundingStatus(s) ==
  IF All(s, {"READY"})                THEN "READY_TO_TRADE"
  ELSE IF Some(s, {"READY"})          THEN "PARTIALLY_READY_TO_TRADE"
  ELSE IF All(s, {"CANCELLED"})       THEN "FAILED"
  ELSE IF Some(s, {"RETRY_REQUIRED"}) THEN "PARTIALLY_FAILED"
  ELSE IF Some(s, {"BRIDGE_PENDING"}) THEN "BRIDGING"
  ELSE IF Some(s, {"CREDIT_PENDING"}) THEN "ROUTES_SUBMITTED"
  ELSE "USER_SIGNATURE_REQUIRED"

\* updateIntentStatus: whatever the row says now.
updateIntentStatus(s) ==
  IF intent = "DELETED" THEN UNCHANGED <<intent, old>>
  ELSE intent' = s /\ old' = FALSE

Submitted(l) == IF l \in Bridged THEN "BRIDGE_PENDING" ELSE "CREDIT_PENDING"

----------------------------------------------------------------------------
(* quoteIntent and submitRouteLeg: the user's wallet.                      *)

Quotes == {leg[l].quote : l \in Legs}
QuoteIntent ==
  /\ At("wallet", "idle")
  /\ intent # "DELETED"
  /\ \E q \in Quotes : q < scene.quotes
  /\ scene.requotes \/ paid = {}
  /\ Proceed("wallet", "replace")
  /\ UNCHANGED <<scene, rows, world, faults>>

\* One transaction; the foreign key refuses legs of an intent that is gone.
replaceRouteLegs ==
  /\ At("wallet", "replace")
  /\ IF intent = "DELETED"
     THEN End("wallet") /\ UNCHANGED <<leg, expired>>
     ELSE /\ leg' = [l \in Legs |-> NewLeg(leg[l].quote + 1)]
          /\ expired' = FALSE
          /\ Proceed("wallet", "quoted")
  /\ UNCHANGED <<scene, intent, old, world, faults>>

QuoteEnds ==
  /\ At("wallet", "quoted")
  /\ updateIntentStatus("USER_SIGNATURE_REQUIRED")
  /\ End("wallet")
  /\ UNCHANGED <<scene, expired, leg, world, faults>>

\* The user signs a quoted transaction and a chain takes it.
Pay(l) ==
  /\ At("wallet", "idle")
  /\ leg[l].quote > 0
  /\ ~expired
  /\ paid' = paid \cup {<<l, leg[l].quote>>}
  /\ UNCHANGED <<scene, rows, bridged, credited, task, faults>>

\* The hash is new and the quote has not expired.
SubmitRouteLeg(l) ==
  /\ At("wallet", "idle")
  /\ <<l, leg[l].quote>> \in paid
  /\ ~expired /\ ~leg[l].sent
  /\ SlowRequests \/ ~At("cleanup", "cancel")
  /\ Become("wallet", [Idle EXCEPT !.at = "hash", !.l = l, !.view = leg])
  /\ UNCHANGED <<scene, rows, world, faults>>

updateRouteLegSubmission ==
  /\ At("wallet", "hash")
  /\ leg' = IF ~Exists("wallet") THEN leg
            ELSE [leg EXCEPT ![task["wallet"].l].sent = TRUE, ![task["wallet"].l].status = Submitted(task["wallet"].l)]
  /\ Proceed("wallet", IF task["wallet"].l \in Bridged THEN "sent" ELSE "direct")
  /\ UNCHANGED <<scene, intent, old, expired, world, faults>>

\* A direct transfer has its provider status written too, with the same status.
SubmitDirect ==
  /\ At("wallet", "direct")
  /\ leg' = IF Exists("wallet") THEN [leg EXCEPT ![task["wallet"].l].status = "CREDIT_PENDING"] ELSE leg
  /\ Proceed("wallet", "sent")
  /\ UNCHANGED <<scene, intent, old, expired, world, faults>>

SubmitEnds ==
  /\ At("wallet", "sent")
  /\ updateIntentStatus(aggregateFundingStatus(
       [Statuses(task["wallet"].view) EXCEPT ![task["wallet"].l] = Submitted(task["wallet"].l)]))
  /\ End("wallet")
  /\ UNCHANGED <<scene, expired, leg, world, faults>>

----------------------------------------------------------------------------
(* refreshIntentStatus, asked for by the user or by the watcher.           *)

\* Mutants: the watcher forgets legs to retry, or intents with a ready leg.
listWithoutRetries ==
  /\ intent \notin {"READY_TO_TRADE", "FAILED", "CANCELLED", "DELETED"}
  /\ \E l \in Legs : leg[l].status \in {"BRIDGE_PENDING", "CREDIT_PENDING"}
listWithoutPartlyReady ==
  /\ intent \notin {"READY_TO_TRADE", "PARTIALLY_READY_TO_TRADE", "FAILED", "CANCELLED", "DELETED"}
  /\ \E l \in Legs : leg[l].status \in {"BRIDGE_PENDING", "CREDIT_PENDING", "RETRY_REQUIRED"}

\* The intents that may still become ready.
listFundingIntentsForReadinessWatch ==
  /\ intent \notin {"READY_TO_TRADE", "FAILED", "CANCELLED", "DELETED"}
  /\ \E l \in Legs : leg[l].status \in {"BRIDGE_PENDING", "CREDIT_PENDING", "RETRY_REQUIRED"}

\* The watcher leaves a leg alone that was written a moment ago (staleAfterSeconds).
RefreshIntentStatus(t) ==
  /\ At(t, "idle")
  /\ \/ t = "user" /\ intent # "DELETED"
     \/ /\ t = "watcher" /\ listFundingIntentsForReadinessWatch
        /\ SlowRequests \/ task["wallet"].at \notin {"direct", "sent"}
  /\ \A q \in Quotes : q > 0
  /\ Become(t, [Idle EXCEPT !.at = "leg", !.l = 1, !.view = leg, !.states = Statuses(leg)])
  /\ UNCHANGED <<scene, rows, world, faults>>

\* On to the next leg, with the status s for this one.
NextLeg(t, s) ==
  Become(t, [task[t] EXCEPT !.states[task[t].l] = s, !.l = @ + 1, !.seen = <<>>, !.answer = "-",
                            !.received = FALSE, !.ready = FALSE,
                            !.at = IF task[t].l = Last THEN "total" ELSE "leg"])

\* A leg without a hash, or that is ready, is left alone; a bridge is asked where
\* the money is and may fail or throw; a direct transfer is verified.
RefreshLeg(t) ==
  /\ At(t, "leg")
  /\ LET l == task[t].l
         v == Mine(t)
     IN  IF ~v.sent \/ (v.status = "READY" /\ l \notin Rechecked)
         THEN NextLeg(t, v.status) /\ NoFault
         ELSE IF v.status = "READY" \/ l \notin Bridged THEN Proceed(t, "verify") /\ NoFault
         ELSE \/ /\ Become(t, [task[t] EXCEPT !.at = "provider",
                      !.answer = IF <<l, v.quote>> \in bridged THEN "DONE" ELSE "PENDING"])
                 /\ NoFault
              \/ Fault /\ Become(t, [task[t] EXCEPT !.at = "provider", !.answer = "FAILED"])
              \/ Fault /\ End(t)
  /\ UNCHANGED <<scene, rows, world>>

mapLifiStatusToFundingLeg(answer) ==
  CASE answer = "DONE"    -> "CREDIT_PENDING"
    [] answer = "PENDING" -> "BRIDGE_PENDING"
    [] answer = "FAILED"  -> "RETRY_REQUIRED"

\* The answer is written to the leg; its audit event fails when the leg is gone.
RefreshProvider(t) ==
  /\ At(t, "provider")
  /\ LET answer == task[t].answer
         status == mapLifiStatusToFundingLeg(answer)
     IN  /\ leg' = IF Exists(t) THEN [leg EXCEPT ![task[t].l].status = status, ![task[t].l].dest = (answer = "DONE")]
                   ELSE leg
         /\ IF ~Exists(t) /\ answer # "PENDING" THEN End(t)
            ELSE IF answer = "DONE" THEN Proceed(t, "verify")
            ELSE NextLeg(t, status)
  /\ UNCHANGED <<scene, intent, old, expired, world, faults>>

\* verifyVenueReadiness reads the leg again and asks the venue for its balance: the
\* money has to have arrived, by the leg's own word, and the balance to be there.
VerifyVenueReadiness(t) ==
  /\ At(t, "verify")
  /\ IF ~Exists(t) THEN End(t) /\ NoFault
     ELSE LET l == task[t].l
              received == leg[l].dest \/ leg[l].status \in {"CREDIT_PENDING", "READY"}
              check(ready) == Become(t, [task[t] EXCEPT !.at = "apply", !.received = received, !.ready = ready])
          IN  \/ check(received /\ \E q \in Quotes : <<l, q>> \in credited) /\ NoFault
              \/ Fault /\ check(FALSE)
  /\ UNCHANGED <<scene, rows, world>>

\* applyVenueReadinessResult: the legs are read once more, for the intent.
ApplyReadiness(t) ==
  /\ At(t, "apply")
  /\ Become(t, [task[t] EXCEPT !.at = "record", !.seen = Statuses(leg)])
  /\ UNCHANGED <<scene, rows, world, faults>>

\* The record; a leg that is gone is refused by its foreign key.
createReconciliationRecord(t) ==
  /\ At(t, "record")
  /\ IF Exists(t)
     THEN /\ leg' = [leg EXCEPT ![task[t].l].checked = TRUE, ![task[t].l].ready = @ \/ task[t].ready]
          /\ Proceed(t, "write")
     ELSE End(t) /\ UNCHANGED leg
  /\ UNCHANGED <<scene, intent, old, expired, world, faults>>

\* No checker answers FAILED, so a leg is never to be retried because of one.
Verified(t) == IF task[t].ready THEN "READY" ELSE "CREDIT_PENDING"

\* The destination is that of the leg as it was verified, which is confirmed only
\* if the checker found it received: a status written since then is lost.
WriteLeg(t) ==
  /\ At(t, "write")
  /\ leg' = IF Exists(t)
            THEN [leg EXCEPT ![task[t].l].status = Verified(t), ![task[t].l].dest = task[t].received]
            ELSE leg
  /\ Proceed(t, "intent")
  /\ UNCHANGED <<scene, intent, old, expired, world, faults>>

WriteIntent(t) ==
  /\ At(t, "intent")
  /\ updateIntentStatus(aggregateFundingStatus([task[t].seen EXCEPT ![task[t].l] = Verified(t)]))
  /\ Proceed(t, "verified")
  /\ UNCHANGED <<scene, expired, leg, world, faults>>

\* The audit event of a leg that is gone fails; else its row is read back.
ReadBack(t) ==
  /\ At(t, "verified")
  /\ IF Exists(t) THEN NextLeg(t, leg[task[t].l].status) ELSE End(t)
  /\ UNCHANGED <<scene, rows, world, faults>>

RefreshEnds(t) ==
  /\ At(t, "total")
  /\ updateIntentStatus(aggregateFundingStatus(task[t].states))
  /\ End(t)
  /\ UNCHANGED <<scene, expired, leg, world, faults>>

----------------------------------------------------------------------------
(* cleanupStaleIntents.                                                    *)

\* Mutant: the hashes of the legs are not looked at.
SelectAnyLegs ==
  /\ At("cleanup", "idle")
  /\ intent = "USER_SIGNATURE_REQUIRED" /\ old
  /\ \A l \in Legs : ~leg[l].checked
  /\ Proceed("cleanup", "cancel")
  /\ UNCHANGED <<scene, rows, world, faults>>

\* An intent that waits for a signature, has no hash and no record.
SelectCancelCandidates ==
  /\ At("cleanup", "idle")
  /\ intent = "USER_SIGNATURE_REQUIRED" /\ old
  /\ \A l \in Legs : ~leg[l].sent /\ ~leg[l].checked
  /\ Proceed("cleanup", "cancel")
  /\ UNCHANGED <<scene, rows, world, faults>>

\* The legs are cancelled that still have no hash, the intent in any case; they
\* are locked from one statement to the next, so this is one step.
cancelFundingIntents ==
  /\ At("cleanup", "cancel")
  /\ leg' = [l \in Legs |-> IF leg[l].quote > 0 /\ ~leg[l].sent /\ leg[l].status # "READY"
                            THEN [leg[l] EXCEPT !.status = "CANCELLED"] ELSE leg[l]]
  /\ updateIntentStatus("CANCELLED")
  /\ End("cleanup")
  /\ UNCHANGED <<scene, expired, world, faults>>

\* An intent that was never quoted is deleted by a single statement.
DeleteUnused ==
  /\ At("cleanup", "idle")
  /\ intent = "INTENT_CREATED" /\ old
  /\ \A l \in Legs : leg[l].quote = 0
  /\ intent' = "DELETED"
  /\ UNCHANGED <<scene, old, expired, leg, world, task, faults>>

----------------------------------------------------------------------------
(* Time and the chains.                                                    *)

\* A quote expires in minutes; the cleanup waits for longer than that.
QuotesExpire ==
  /\ ~expired
  /\ expired' = TRUE
  /\ UNCHANGED <<scene, intent, old, leg, world, task, faults>>

GrowsOld ==
  /\ ~old /\ expired
  /\ SlowRequests \/ task["wallet"].at \in {"idle", "replace"}
  /\ old' = TRUE
  /\ UNCHANGED <<scene, intent, expired, leg, world, task, faults>>

Arrives(p) ==
  /\ p \in paid \ bridged
  /\ p[1] \in Bridged
  /\ bridged' = bridged \cup {p}
  /\ UNCHANGED <<scene, rows, paid, credited, task, faults>>

IsCredited(p) ==
  /\ p \in (IF p[1] \in Bridged THEN bridged ELSE paid) \ credited
  /\ credited' = credited \cup {p}
  /\ UNCHANGED <<scene, rows, paid, bridged, task, faults>>

FundingInit ==
  /\ scene \in Scenes
  /\ intent = "INTENT_CREATED"
  /\ old = FALSE /\ expired = TRUE
  /\ leg = [l \in Legs |-> NoLeg]
  /\ paid = {} /\ bridged = {} /\ credited = {}
  /\ task = [t \in Clients |-> Idle]
  /\ faults = 0

WalletStep == replaceRouteLegs \/ QuoteEnds \/ updateRouteLegSubmission \/ SubmitDirect \/ SubmitEnds
RefreshStep(t) ==
  \/ RefreshLeg(t) \/ RefreshProvider(t) \/ VerifyVenueReadiness(t) \/ ApplyReadiness(t)
  \/ createReconciliationRecord(t) \/ WriteLeg(t) \/ WriteIntent(t) \/ ReadBack(t) \/ RefreshEnds(t)

FundingNext ==
  \/ QuoteIntent \/ WalletStep
  \/ \E l \in Legs : Pay(l) \/ SubmitRouteLeg(l)
  \/ \E t \in {"user", "watcher"} : RefreshIntentStatus(t) \/ RefreshStep(t)
  \/ SelectCancelCandidates \/ cancelFundingIntents \/ DeleteUnused
  \/ QuotesExpire \/ GrowsOld
  \/ \E p \in paid : Arrives(p) \/ IsCredited(p)

\* A request goes on once it has begun, and the watcher comes round again: an
\* interval runs it while the process lives (funding-readiness-watcher.ts:62).
FundingFairness ==
  /\ WF_fundingVars(WalletStep)
  /\ WF_fundingVars(cancelFundingIntents)
  /\ WF_fundingVars(RefreshStep("user"))
  /\ WF_fundingVars(RefreshIntentStatus("watcher") \/ RefreshStep("watcher"))

FundingSpec == FundingInit /\ [][FundingNext]_fundingVars /\ FundingFairness

----------------------------------------------------------------------------
(* Properties.                                                             *)

LegStatuses == {"-", "SIGNATURE_REQUIRED", "BRIDGE_PENDING", "CREDIT_PENDING",
                "RETRY_REQUIRED", "READY", "CANCELLED"}
IntentStatuses == {"INTENT_CREATED", "USER_SIGNATURE_REQUIRED", "BRIDGING", "ROUTES_SUBMITTED",
                   "PARTIALLY_FAILED", "PARTIALLY_READY_TO_TRADE", "READY_TO_TRADE", "FAILED",
                   "CANCELLED", "DELETED"}

\* The shape of the rows (core/funding/types.ts).
FundingTypeOK ==
  /\ scene \in Scenes
  /\ intent \in IntentStatuses /\ old \in BOOLEAN /\ expired \in BOOLEAN
  /\ \A l \in Legs : leg[l].quote \in 0..scene.quotes /\ leg[l].status \in LegStatuses
  /\ credited \subseteq paid /\ bridged \subseteq paid
  /\ paid \subseteq Legs \X (1..scene.quotes)
  /\ faults \in 0..MaxFaults

\* funding-service.ts:620-657 (tests/funding-v0.test.ts:3469): whoever refreshes
\* whom and however late an answer is written, a leg that says it is ready has a
\* record of it of its own, and so has every leg of an intent that says so, unless
\* the intent was quoted again; and the rows keep their shape.
ReadyIsEvidenced ==
  /\ FundingTypeOK
  /\ \A l \in Legs : leg[l].status = "READY" => leg[l].ready
  /\ intent = "READY_TO_TRADE" /\ ~scene.requotes => \A l \in Legs : leg[l].ready

\* funding.repository.ts:288-309: the cleanup never cancels an intent whose legs
\* were submitted, although it looks at them before it writes: only a quote that
\* came in between can still be submitted, and then its submission has the last word.
SubmittedIsNotCancelled ==
  intent = "CANCELLED" /\ (\E l \in Legs : leg[l].sent) =>
    At("wallet", "direct") \/ At("wallet", "sent")

\* funding-readiness-watcher.ts:78-122: money that the venue has credited becomes
\* usable (hasReadyVenueBalance counts the record) with nobody asking, whatever
\* failed on the way, if its hash was recorded and the intent not quoted again.
FundsBecomeUsable ==
  []<>(~scene.requotes =>
         \A l \in Legs : leg[l].sent /\ <<l, leg[l].quote>> \in credited => leg[l].ready)

\* funding-service.ts:578-580: and the intent says so in the end, if the watcher is
\* the only one to refresh it.
IntentBecomesReady ==
  (~scene.requotes /\ "user" \notin scene.clients /\ \A l \in Legs : leg[l].ready) ~> intent = "READY_TO_TRADE"
=============================================================================
