----------------------------- MODULE OrderBook -----------------------------
(***************************************************************************)
(* src/core/internal-engine/order-book.ts: the Redis copy of the resting   *)
(* orders, one Redis command at a time, under everything that writes it:   *)
(* attempts of the crossing engine, the rebuild script and the             *)
(* reconciliation job.  An order has a member in a sorted set and a JSON   *)
(* key, and no command touches both.                                       *)
(*                                                                         *)
(* The order locks are left out: they may expire under their owner         *)
(* (OrderLocker), so nothing here may rely on them.                        *)
(***************************************************************************)
EXTENDS Naturals, FiniteSets

CONSTANTS Attempts,     \* attemptCross calls, one after the other
          Rebuilders,   \* runs of rebuild-internal-cross-book
          Reconcilers,  \* runs of the internal_cross domain of ReconciliationV2
          Resting,      \* resting orders
          Size,         \* the size each was placed with
          NoKey,        \* book:order:<id> does not exist
          Scenes,       \* who may be at work on what, see SceneType
          MaxFaults     \* bound: crashes, failed commands and expired keys

Clients == Attempts \cup Rebuilders \cup Reconcilers

\* clients: the clients that run; open: the orders that rest in the book when it
\* begins; expiring: the 24 h time to live of a key may run out.
SceneType == [clients : SUBSET Clients, open : SUBSET Resting, expiring : BOOLEAN]

\* Orders are placed with a size, a remaining size is never the absence of a key,
\* and a client is of one kind.
ConstantsFit ==
  /\ Size \in [Resting -> Nat \ {0}] /\ NoKey \notin Nat /\ MaxFaults \in Nat
  /\ Attempts \cap Rebuilders = {} /\ Attempts \cap Reconcilers = {}
  /\ Scenes \subseteq SceneType
ASSUME ConstantsAssumption == ConstantsFit

VARIABLES scene,     \* which of the scenes it is
          remaining, \* remaining_size in internal_orders, 0 when FILLED
          member,    \* members of the sorted sets
          key,       \* remaining under book:order:m, or NoKey
          job,       \* what each client is doing
          faults     \* how many faults have happened

bookVars == <<member, key>>
serviceVars == <<scene, remaining, member, key, job, faults>>

\* at: the next command; todo: orders not yet visited (with the remaining size
\* read from Postgres); found: entries an attempt has read; cur: the order the
\* command is about; val: the remaining size it will write.
Idle == [at |-> "idle", todo |-> {}, found |-> {}, cur |-> 0, val |-> 0]

BookInit ==
  /\ scene \in Scenes
  /\ remaining = [m \in Resting |-> IF m \in scene.open THEN Size[m] ELSE 0]
  /\ member = scene.open
  /\ key = [m \in Resting |-> IF m \in scene.open THEN Size[m] ELSE NoKey]
  /\ job = [c \in Clients |-> Idle]
  /\ faults = 0

At(c, place) == job[c].at = place
Cur(c) == job[c].cur
Move(c, fields) == job' = [job EXCEPT ![c] = fields]
Goto(c, place) == Move(c, [job[c] EXCEPT !.at = place])

\* The client's loop, where it looks for its next order.
LoopOf(c) == IF c \in Attempts THEN "match" ELSE "loop"

----------------------------------------------------------------------------
(* removeOrder: GET, and if the order has a key, ZREM and DEL.             *)

\* A rebuild goes on to addOrder after each removal.
AfterRemove(c) == IF c \in Rebuilders THEN "zadd" ELSE LoopOf(c)

RemoveGet(c) ==
  /\ At(c, "removeGet")
  /\ Goto(c, IF key[Cur(c)] = NoKey THEN AfterRemove(c) ELSE "zrem")
  /\ UNCHANGED <<remaining, member, key, faults>>

RemoveMember(c) ==
  /\ At(c, "zrem")
  /\ member' = member \ {Cur(c)}
  /\ Goto(c, "del")
  /\ UNCHANGED <<remaining, key, faults>>

RemoveKey(c) ==
  /\ At(c, "del")
  /\ key' = [key EXCEPT ![Cur(c)] = NoKey]
  /\ Goto(c, AfterRemove(c))
  /\ UNCHANGED <<remaining, member, faults>>

(* addOrder: ZADD and SET, sent together and executed in that order.       *)

AddMember(c) ==
  /\ At(c, "zadd")
  /\ member' = member \cup {Cur(c)}
  /\ Goto(c, "set")
  /\ UNCHANGED <<remaining, key, faults>>

AddKey(c) ==
  /\ At(c, "set")
  /\ key' = [key EXCEPT ![Cur(c)] = job[c].val]
  /\ Goto(c, LoopOf(c))
  /\ UNCHANGED <<remaining, member, faults>>

(* updateRemaining: GET, and if the order has a key, SET.                  *)

UpdateGet(c) ==
  /\ At(c, "updateGet")
  /\ Goto(c, IF key[Cur(c)] = NoKey THEN LoopOf(c) ELSE "updateSet")
  /\ UNCHANGED <<remaining, member, key, faults>>

UpdateSet(c) ==
  /\ At(c, "updateSet")
  /\ key' = [key EXCEPT ![Cur(c)] = job[c].val]
  /\ Goto(c, LoopOf(c))
  /\ UNCHANGED <<remaining, member, faults>>

----------------------------------------------------------------------------
(* getBestOppositeOrders and the matching of what it returns.              *)

ReadMembers(c) ==
  /\ c \in Attempts \cap scene.clients
  /\ At(c, "idle")
  /\ member # {}
  /\ Move(c, [Idle EXCEPT !.at = "read", !.todo = member])
  /\ UNCHANGED <<remaining, member, key, faults>>

\* GET of one member's key: an entry, or a member to be dropped.
ReadKey(c) ==
  /\ At(c, "read")
  /\ \E m \in job[c].todo :
       LET rest == [job[c] EXCEPT !.todo = @ \ {m}]
       IN  Move(c, IF key[m] = NoKey THEN [rest EXCEPT !.at = "drop", !.cur = m]
                                     ELSE [rest EXCEPT !.found = @ \cup {m}])
  /\ UNCHANGED <<remaining, member, key, faults>>

DropMember(c) ==
  /\ At(c, "drop")
  /\ member' = member \ {Cur(c)}
  /\ Goto(c, "read")
  /\ UNCHANGED <<remaining, key, faults>>

ReadDone(c) ==
  /\ At(c, "read")
  /\ job[c].todo = {}
  /\ Goto(c, "match")
  /\ UNCHANGED <<remaining, member, key, faults>>

Candidate(c, m) == At(c, "match") /\ m \in job[c].found
Handle(c, m, place, val) ==
  Move(c, [job[c] EXCEPT !.at = place, !.cur = m, !.val = val, !.found = @ \ {m}])

\* Mutant: an order that is PARTIAL is removed.
TradeThenRemove(c, m) ==
  /\ Candidate(c, m)
  /\ \E q \in 1..remaining[m] :
       /\ remaining' = [remaining EXCEPT ![m] = @ - q]
       /\ Handle(c, m, "removeGet", remaining[m] - q)
  /\ UNCHANGED <<bookVars, faults>>

\* A committed trade, then syncRedisBook: remove when FILLED, else update.
Trade(c, m) ==
  /\ Candidate(c, m)
  /\ \E q \in 1..remaining[m] :
       /\ remaining' = [remaining EXCEPT ![m] = @ - q]
       /\ Handle(c, m, IF remaining[m] = q THEN "removeGet" ELSE "updateGet", remaining[m] - q)
  /\ UNCHANGED <<bookVars, faults>>

\* A repeated pair: what the rolled back transaction read is written to the book.
Replay(c, m) ==
  /\ Candidate(c, m)
  /\ remaining[m] > 0
  /\ Handle(c, m, "updateGet", remaining[m])
  /\ UNCHANGED <<remaining, bookVars, faults>>

\* The row is closed: safeRemoveStaleMaker.
Stale(c, m) ==
  /\ Candidate(c, m)
  /\ remaining[m] = 0
  /\ Handle(c, m, "removeGet", 0)
  /\ UNCHANGED <<remaining, bookVars, faults>>

\* The attempt has no more use for its batch.
AttemptDone(c) ==
  /\ At(c, "match")
  /\ job[c].found = {}
  /\ Move(c, Idle)
  /\ UNCHANGED <<remaining, bookVars, faults>>

----------------------------------------------------------------------------
(* rebuild and reconcileInternalCross.                                     *)

\* Both load rows first and visit them one by one afterwards.
Load(c, rows) ==
  /\ At(c, "idle")
  /\ Move(c, [Idle EXCEPT !.at = "loop", !.todo = {<<m, remaining[m]>> : m \in rows}])
  /\ UNCHANGED <<remaining, bookVars, faults>>

loadAuthoritativeOrders(c) ==
  /\ c \in Rebuilders \cap scene.clients
  /\ Load(c, {m \in Resting : remaining[m] > 0})

LoadPages(c) ==
  /\ c \in Reconcilers \cap scene.clients
  /\ Load(c, Resting)

\* The loop comes to the order p[1], which had p[2] left when it was read.
Visit(c, p, place) ==
  /\ At(c, "loop")
  /\ Move(c, [job[c] EXCEPT !.todo = @ \ {p}, !.cur = p[1], !.val = p[2], !.at = place])
  /\ UNCHANGED <<remaining, bookVars, faults>>

RebuildOrder(c) ==
  /\ c \in Rebuilders
  /\ \E p \in job[c].todo : Visit(c, p, "removeGet")

Missing(p) == p[2] > 0 /\ key[p[1]] = NoKey
Orphaned(p) == p[2] = 0 /\ key[p[1]] # NoKey

\* Mutant: closed orders are not looked for.
ReconcileOpenOrder(c) ==
  /\ c \in Reconcilers
  /\ \E p \in job[c].todo : Visit(c, p, IF Missing(p) THEN "zadd" ELSE "loop")

\* getOrderSnapshot, and autoFix: only the key is looked at, never the member.
ReconcileOrder(c) ==
  /\ c \in Reconcilers
  /\ \E p \in job[c].todo :
       Visit(c, p, CASE Missing(p) -> "zadd" [] Orphaned(p) -> "removeGet" [] OTHER -> "loop")

LoopDone(c) ==
  /\ At(c, "loop")
  /\ job[c].todo = {}
  /\ Move(c, Idle)
  /\ UNCHANGED <<remaining, bookVars, faults>>

----------------------------------------------------------------------------
Fault ==
  /\ faults < MaxFaults
  /\ faults' = faults + 1

\* A Redis command of syncRedisBook, safeRemoveStaleMaker or the rebuild's
\* removeOrder fails: the error is swallowed and the operation left half done.
Swallowed(c) ==
  /\ Fault
  /\ c \notin Reconcilers
  /\ job[c].at \in {"removeGet", "zrem", "del", "updateGet", "updateSet"}
  /\ Goto(c, IF job[c].at \in {"removeGet", "zrem", "del"} THEN AfterRemove(c) ELSE LoopOf(c))
  /\ UNCHANGED <<remaining, bookVars>>

\* Any other failure, or the end of the process, stops the client here.
Stop(c) ==
  /\ Fault
  /\ ~At(c, "idle")
  /\ Move(c, Idle)
  /\ UNCHANGED <<remaining, bookVars>>

\* The 24 h time to live of a key runs out; its member has none.
KeyExpires(m) ==
  /\ scene.expiring
  /\ Fault
  /\ key[m] # NoKey
  /\ key' = [key EXCEPT ![m] = NoKey]
  /\ UNCHANGED <<remaining, member, job>>

Command(c) ==
  \/ RemoveGet(c) \/ RemoveMember(c) \/ RemoveKey(c)
  \/ AddMember(c) \/ AddKey(c)
  \/ UpdateGet(c) \/ UpdateSet(c)

AttemptStep(c) ==
  \/ ReadMembers(c) \/ ReadKey(c) \/ DropMember(c) \/ ReadDone(c)
  \/ \E m \in Resting : Trade(c, m) \/ Replay(c, m) \/ Stale(c, m)
  \/ AttemptDone(c)

RebuildStep(c) == loadAuthoritativeOrders(c) \/ RebuildOrder(c)
ReconcileStep(c) == LoadPages(c) \/ ReconcileOrder(c)

ClientStep(c) ==
  \/ Command(c)
  \/ AttemptStep(c)
  \/ RebuildStep(c)
  \/ ReconcileStep(c)
  \/ LoopDone(c)

BookNext ==
  /\ \/ \E c \in Clients : ClientStep(c) \/ Swallowed(c) \/ Stop(c)
     \/ \E m \in Resting : KeyExpires(m)
  /\ UNCHANGED scene

\* What the code guarantees: a client that has begun goes on to its end.
BookFairness ==
  \A c \in Clients : WF_serviceVars(ClientStep(c) /\ ~At(c, "idle") /\ UNCHANGED scene)

BookSpec == BookInit /\ [][BookNext]_serviceVars /\ BookFairness

----------------------------------------------------------------------------
Places == {"idle", "loop", "read", "drop", "match", "removeGet", "zrem", "del",
           "zadd", "set", "updateGet", "updateSet"}

\* The shape of the book and of the clients.
BookTypeOK ==
  /\ scene \in Scenes
  /\ remaining \in [Resting -> Nat]
  /\ member \subseteq Resting
  /\ key \in [Resting -> Nat \cup {NoKey}]
  /\ \A c \in Clients :
       /\ job[c].at \in Places /\ job[c].cur \in Resting \cup {0} /\ job[c].val \in Nat
       /\ job[c].found \subseteq Resting
       /\ job[c].todo \subseteq (IF c \in Attempts THEN Resting ELSE Resting \X Nat)
  /\ faults \in 0..MaxFaults

\* engine.ts:499-532: with no key expiring and no repair job running, failures
\* and crashes of attempts never take an order that is open out of the book.
OpenOrdersStay ==
  /\ BookTypeOK
  /\ scene.clients \subseteq Attempts /\ ~scene.expiring =>
       \A m \in Resting : remaining[m] > 0 => m \in member /\ key[m] # NoKey

\* What it does not guarantee: attempts keep coming with the orders that cross, and
\* the repair job is run again and again with dryRun false and autoFix true, which
\* nothing under src/ schedules (reconciliation-v2.job.ts:233-234).
KeptRunning ==
  \A c \in Attempts \cup Reconcilers : WF_serviceVars(ClientStep(c) /\ UNCHANGED scene)

\* engine.ts:297, 352 "Removing stale book entry.": an order that is closed does
\* not stay in the book, whatever was left half done and whatever a rebuild or a
\* late update has put back, provided that the repair job is kept running with
\* autoFix while attempts keep coming.
ClosedOrdersLeave ==
  KeptRunning =>
    \A m \in Resting :
      remaining[m] = 0 /\ Reconcilers \subseteq scene.clients ~> (m \notin member /\ key[m] = NoKey)
=============================================================================
