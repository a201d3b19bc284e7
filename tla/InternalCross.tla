--------------------------- MODULE InternalCross ---------------------------
(***************************************************************************)
(* src/core/internal-engine/engine.ts: attemptCross, run by any number of  *)
(* concurrent callers against the Postgres rows of the resting orders, the *)
(* Redis book that caches them, and the Redis locks of OrderLocker.        *)
(*                                                                         *)
(* A match transaction is one step here; MatchTransaction takes it apart.  *)
(* Reading the book, and bringing one entry of it up to date, are one step *)
(* each here; OrderBook takes those apart.  The locker's commands          *)
(* interleave one by one.                                                  *)
(***************************************************************************)
EXTENDS OrderLocker, Integers, Functions

CONSTANTS Makers, Takers,     \* ids of resting orders and of incoming orders
          Order,              \* what each was placed with (InternalOrder)
          TakerOf,            \* the incoming order each attempt is called with
          SafePairs,          \* profile pairs isSafeForInternalPooling accepts
          NoProfile,          \* resolution_profile_id is null
          NoKey,              \* book:order:<id> does not exist
          BatchSize,          \* the limit attemptCross reads the book with: 10
          BookKeyMayExpire,   \* TRUE: the 24 h ttl of a book key may run out
          RebuildEnabled      \* TRUE: rebuild-internal-cross-book may be run

\* Every worker of the locker is one call of attemptCross.
Attempts == Workers

ASSUME OrderIdsAssumption == Orders = Makers \cup Takers
ASSUME SizesAssumption == \A o \in Orders : Order[o].size \in Nat \ {0}
ASSUME TakerAssumption == TakerOf \in [Attempts -> Takers]

VARIABLES row,      \* row[m]: remaining_size of m in internal_orders
          trades,   \* trades[t][m]: size of the trades row of the pair, or 0
          member,   \* the orders in the sorted sets book:<market>:<side>
          snap,     \* snap[m]: the JSON under book:order:m
          att,      \* the local variables of each attempt
          loaded    \* loaded[m]: remaining_size a rebuild has read and not yet written

crossVars == <<row, trades, member, snap, att, loaded>>
vars == <<lockerVars, crossVars>>

NoEntry == [maker |-> 0, remaining |-> 0, profile |-> NoProfile]
NoAttempt == [state |-> "idle", remaining |-> 0, filled |-> 0, batch |-> {},
              progressed |-> FALSE, entry |-> NoEntry, newRemaining |-> 0, error |-> FALSE]

Init ==
  /\ LockerInit
  /\ row = [m \in Makers |-> Order[m].size]
  /\ trades = [t \in Takers |-> [m \in Makers |-> 0]]
  /\ member = Makers
  /\ snap = [m \in Makers |-> [remaining |-> Order[m].size, profile |-> Order[m].profile]]
  /\ att = [a \in Attempts |-> NoAttempt]
  /\ loaded = [m \in Makers |-> 0]

----------------------------------------------------------------------------
(* The book, read and written by whole operations.                         *)

scoreFor(side, price) == IF side = "buy" THEN -price ELSE price

\* zrangebyscore returns by score, then by member: creation time, then id.
Before(m, n) ==
  LET sm == scoreFor(Order[m].side, Order[m].price)
      sn == scoreFor(Order[n].side, Order[n].price)
  IN  \/ sm < sn
      \/ sm = sn /\ Order[m].created < Order[n].created
      \/ sm = sn /\ Order[m].created = Order[n].created /\ m < n

\* The members within the incoming order's price limit, at most BatchSize of them.
WithinLimit(t) ==
  {m \in member : /\ Order[m].side # Order[t].side
                  /\ scoreFor(Order[m].side, Order[m].price)
                       <= scoreFor(Order[m].side, Order[t].price)}
Hits(t) ==
  {m \in WithinLimit(t) : Cardinality({n \in WithinLimit(t) : Before(n, m)}) < BatchSize}

EntryOf(m) == [maker |-> m, remaining |-> snap[m].remaining, profile |-> snap[m].profile]

\* A removal whose caller swallows errors: done, half done (the member is gone,
\* the key is not) or not done.
removeOrder(m) ==
  IF snap[m] = NoKey THEN UNCHANGED <<member, snap>>
  ELSE \/ member' = member \ {m} /\ snap' = [snap EXCEPT ![m] = NoKey]
       \/ member' = member \ {m} /\ UNCHANGED snap
       \/ UNCHANGED <<member, snap>>

updateRemaining(m, remaining) ==
  /\ UNCHANGED member
  /\ \/ snap[m] # NoKey /\ snap' = [snap EXCEPT ![m].remaining = remaining]
     \/ UNCHANGED snap

----------------------------------------------------------------------------
(* attemptCross *)

\* An order whose row says FILLED; nothing under src ever cancels one.
Closed(m) == row[m] = 0

isMakerResolutionEligible(t, profile) ==
  \/ Order[t].profile = NoProfile
  \/ profile = NoProfile
  \/ Order[t].profile = profile
  \/ <<Order[t].profile, profile>> \in SafePairs

Start(a) ==
  /\ att[a].state = "idle"
  /\ att' = [att EXCEPT ![a] = [NoAttempt EXCEPT !.state = "fetch",
                                                 !.remaining = Order[TakerOf[a]].size]]
  /\ UNCHANGED <<lockerVars, row, trades, member, snap, loaded>>

\* getBestOppositeOrders: a member whose key is missing is removed and skipped.
Fetch(a) ==
  LET hits == Hits(TakerOf[a])
      found == {m \in hits : snap[m] # NoKey}
  IN  /\ att[a].state = "fetch"
      /\ member' = member \ (hits \ found)
      /\ att' = [att EXCEPT ![a].batch = {EntryOf(m) : m \in found},
                            ![a].progressed = FALSE,
                            ![a].state = IF found = {} THEN "done" ELSE "scan"]
      /\ UNCHANGED <<lockerVars, row, trades, snap, loaded>>

\* e is the candidate the for loop of attempt a comes to next.
IsNext(a, e) ==
  /\ att[a].state = "scan"
  /\ att[a].remaining > 0
  /\ e \in att[a].batch
  /\ \A f \in att[a].batch : ~Before(f.maker, e.maker)

\* CANCEL_NEWEST: the rest of the incoming order is dropped, both loops end.
SelfTrade(a, e) ==
  /\ IsNext(a, e)
  /\ Order[e.maker].user = Order[TakerOf[a]].user
  /\ att' = [att EXCEPT ![a].remaining = 0, ![a].batch = {}, ![a].state = "done"]
  /\ UNCHANGED <<lockerVars, row, trades, member, snap, loaded>>

SkipIneligible(a, e) ==
  /\ IsNext(a, e)
  /\ Order[e.maker].user # Order[TakerOf[a]].user
  /\ ~isMakerResolutionEligible(TakerOf[a], e.profile)
  /\ att' = [att EXCEPT ![a].batch = @ \ {e}]
  /\ UNCHANGED <<lockerVars, row, trades, member, snap, loaded>>

\* Mutant: no check of the owner.
LockPairOfAnyUser(a, e) ==
  /\ IsNext(a, e)
  /\ isMakerResolutionEligible(TakerOf[a], e.profile)
  /\ acquireDualOrderLocks(a, TakerOf[a], e.maker)
  /\ att' = [att EXCEPT ![a].batch = @ \ {e}, ![a].entry = e, ![a].state = "match"]
  /\ UNCHANGED <<row, trades, member, snap, loaded>>

LockPair(a, e) ==
  /\ IsNext(a, e)
  /\ Order[e.maker].user # Order[TakerOf[a]].user
  /\ isMakerResolutionEligible(TakerOf[a], e.profile)
  /\ acquireDualOrderLocks(a, TakerOf[a], e.maker)
  /\ att' = [att EXCEPT ![a].batch = @ \ {e}, ![a].entry = e, ![a].state = "match"]
  /\ UNCHANGED <<row, trades, member, snap, loaded>>

\* OrderLockError is not caught: the attempt rejects, its earlier trades stand.
LockRefused(a) ==
  /\ att[a].state = "match"
  /\ Rejected(a)
  /\ att' = [att EXCEPT ![a].state = "rejected"]
  /\ UNCHANGED <<row, trades, member, snap, loaded>>

\* Mutant: the book is read again as long as something is left to fill.
BatchDoneReadAgain(a) ==
  /\ att[a].state = "scan"
  /\ att[a].batch = {} \/ att[a].remaining = 0
  /\ att' = [att EXCEPT ![a].batch = {},
                        ![a].state = IF att[a].remaining > 0 THEN "fetch" ELSE "done"]
  /\ UNCHANGED <<lockerVars, row, trades, member, snap, loaded>>

\* The for loop is over: read the book again only after a trade.
BatchDone(a) ==
  /\ att[a].state = "scan"
  /\ att[a].batch = {} \/ att[a].remaining = 0
  /\ att' = [att EXCEPT ![a].batch = {},
                        ![a].state = IF att[a].progressed /\ att[a].remaining > 0
                                     THEN "fetch" ELSE "done"]
  /\ UNCHANGED <<lockerVars, row, trades, member, snap, loaded>>

----------------------------------------------------------------------------
(* matchMakerOrder, under the locks of the pair.                           *)

Matching(a) == att[a].state = "match" /\ lpc[a] = "held"
Maker(a) == att[a].entry.maker

\* Mutant: the size is limited by the Redis copy of the resting order.
matchSizeOfEntry(a) ==
  IF att[a].remaining <= att[a].entry.remaining THEN att[a].remaining ELSE att[a].entry.remaining

\* What is left to fill on the resting order, from its locked row.
matchSize(a) == IF att[a].remaining <= row[Maker(a)] THEN att[a].remaining ELSE row[Maker(a)]

\* The row is closed: ROLLBACK, the stale entry is removed from the book.
MakerGone(a) ==
  /\ Matching(a)
  /\ Closed(Maker(a))
  /\ removeOrder(Maker(a))
  /\ releaseLocks(a)
  /\ att' = [att EXCEPT ![a].state = "release"]
  /\ UNCHANGED <<row, trades, loaded>>

\* uq_trades_match: this pair has traded before. ROLLBACK, no progress.
TradeReplay(a) ==
  /\ Matching(a)
  /\ ~Closed(Maker(a))
  /\ trades[TakerOf[a]][Maker(a)] # 0
  /\ att' = [att EXCEPT ![a].state = "sync", ![a].newRemaining = row[Maker(a)]]
  /\ UNCHANGED <<lockerVars, row, trades, member, snap, loaded>>

\* Mutant: the conflict of a pair that has traded before overwrites its trade.
WriteTradeOver(a) ==
  /\ ~Closed(Maker(a))
  /\ trades' = [trades EXCEPT ![TakerOf[a]][Maker(a)] = matchSize(a)]
  /\ row' = [row EXCEPT ![Maker(a)] = @ - matchSize(a)]

\* The rows the transaction writes: the trade and the resting order.
WriteTrade(a) ==
  /\ ~Closed(Maker(a))
  /\ trades[TakerOf[a]][Maker(a)] = 0
  /\ trades' = [trades EXCEPT ![TakerOf[a]][Maker(a)] = matchSize(a)]
  /\ row' = [row EXCEPT ![Maker(a)] = @ - matchSize(a)]

\* Mutant: what has been filled is not added up.
CommitUncounted(a) ==
  /\ Matching(a)
  /\ WriteTrade(a)
  /\ att' = [att EXCEPT ![a].state = "sync",
                        ![a].newRemaining = row'[Maker(a)],
                        ![a].remaining = @ - matchSize(a),
                        ![a].filled = matchSize(a),
                        ![a].progressed = TRUE]
  /\ UNCHANGED <<lockerVars, member, snap, loaded>>

\* COMMIT is acknowledged.
Commit(a) ==
  /\ Matching(a)
  /\ WriteTrade(a)
  /\ att' = [att EXCEPT ![a].state = "sync",
                        ![a].newRemaining = row'[Maker(a)],
                        ![a].remaining = @ - matchSize(a),
                        ![a].filled = @ + matchSize(a),
                        ![a].progressed = TRUE]
  /\ UNCHANGED <<lockerVars, member, snap, loaded>>

\* Mutant: the error is swallowed and the next candidate tried.
TransactionErrorSwallowed(a) ==
  /\ Matching(a)
  /\ WriteTrade(a) \/ UNCHANGED <<row, trades>>
  /\ releaseLocks(a)
  /\ att' = [att EXCEPT ![a].state = "release"]
  /\ UNCHANGED <<member, snap, loaded>>

\* A query throws, or COMMIT takes effect and its answer is lost: the error is
\* rethrown once the finally block has released the locks.
TransactionError(a) ==
  /\ Matching(a)
  /\ WriteTrade(a) \/ UNCHANGED <<row, trades>>
  /\ releaseLocks(a)
  /\ att' = [att EXCEPT ![a].state = "release", ![a].error = TRUE]
  /\ UNCHANGED <<member, snap, loaded>>

\* syncRedisBook, whose errors are swallowed, then the finally block.
SyncBook(a) ==
  /\ att[a].state = "sync"
  /\ IF att[a].newRemaining = 0 THEN removeOrder(Maker(a))
                               ELSE updateRemaining(Maker(a), att[a].newRemaining)
  /\ releaseLocks(a)
  /\ att' = [att EXCEPT ![a].state = "release"]
  /\ UNCHANGED <<row, trades, loaded>>

\* The locks are released: the next candidate, or the pending error.
Released(a) ==
  /\ att[a].state = "release"
  /\ lpc[a] = "idle"
  /\ att' = [att EXCEPT ![a].state = IF att[a].error THEN "rejected" ELSE "scan"]
  /\ UNCHANGED <<lockerVars, row, trades, member, snap, loaded>>

\* A Redis call throws out of attemptCross, or the process dies.
Throw(a) ==
  /\ \/ att[a].state \in {"fetch", "scan"} /\ UNCHANGED lockerVars
     \/ att[a].state \in {"match", "sync", "release"} /\ Abandon(a)
  /\ att' = [att EXCEPT ![a].state = "rejected"]
  /\ UNCHANGED <<row, trades, member, snap, loaded>>

----------------------------------------------------------------------------
(* The locker's own steps, the passing of time, and the rebuild script.    *)

Locker(a) ==
  /\ LockerStep(a)
  /\ UNCHANGED crossVars

LockExpires(k) ==
  /\ Expire(k)
  /\ UNCHANGED crossVars

BookKeyExpires(m) ==
  /\ BookKeyMayExpire
  /\ snap[m] # NoKey
  /\ snap' = [snap EXCEPT ![m] = NoKey]
  /\ UNCHANGED <<lockerVars, row, trades, member, att, loaded>>

\* rebuild: loadAuthoritativeOrders reads every open row at once ...
RebuildLoad ==
  /\ RebuildEnabled
  /\ \A m \in Makers : loaded[m] = 0
  /\ loaded' = row
  /\ UNCHANGED <<lockerVars, row, trades, member, snap, att>>

\* ... and writes them back one by one; internal_orders has no profile to restore.
RebuildOrder(m) ==
  /\ loaded[m] # 0
  /\ member' = member \cup {m}
  /\ snap' = [snap EXCEPT ![m] = [remaining |-> loaded[m], profile |-> NoProfile]]
  /\ loaded' = [loaded EXCEPT ![m] = 0]
  /\ UNCHANGED <<lockerVars, row, trades, att>>

AttemptStep(a) ==
  \/ Fetch(a)
  \/ \E e \in att[a].batch : SelfTrade(a, e) \/ SkipIneligible(a, e) \/ LockPair(a, e)
  \/ LockRefused(a)
  \/ BatchDone(a)
  \/ MakerGone(a)
  \/ TradeReplay(a)
  \/ Commit(a)
  \/ TransactionError(a)
  \/ SyncBook(a)
  \/ Released(a)
  \/ Locker(a)

Next ==
  \/ \E a \in Attempts : Start(a) \/ AttemptStep(a) \/ Throw(a)
  \/ \E k \in Orders : LockExpires(k)
  \/ \E m \in Makers : BookKeyExpires(m) \/ RebuildOrder(m)
  \/ RebuildLoad

\* A call that has begun is awaited to its end; nothing obliges a caller to
\* start one, a query to fail, a key to expire or an operator to rebuild.
Fairness == \A a \in Attempts : WF_vars(AttemptStep(a))

Spec == Init /\ [][Next]_vars /\ Fairness

----------------------------------------------------------------------------
AttemptStates == {"idle", "fetch", "scan", "match", "sync", "release", "done", "rejected"}

\* The shape of the tables, the book and the attempts (types.ts:29-58).
TypeOK ==
  /\ LockerTypeOK
  /\ row \in [Makers -> Nat]
  /\ trades \in [Takers -> [Makers -> Nat]]
  /\ member \subseteq Makers
  /\ \A m \in Makers : snap[m] = NoKey \/ [snap[m] EXCEPT !.remaining = 0] \in
       [remaining : {0}, profile : {NoProfile} \cup {Order[o].profile : o \in Orders}]
  /\ \A a \in Attempts :
       /\ att[a].state \in AttemptStates
       /\ att[a].remaining \in Nat
       /\ att[a].filled \in Nat
       /\ att[a].entry.maker \in Makers \cup {0}
       /\ \A e \in att[a].batch : e.maker \in Makers
  /\ loaded \in [Makers -> Nat]

Filled(t) == SumFunction(trades[t])

\* engine.ts:288-304: whatever the Redis book says, whichever lock has expired
\* and wherever an attempt has died, the rows only change by whole trades of
\* pairs that have not traded before, each within what the resting order had.
Ledger == INSTANCE CrossLedger WITH open <- row, traded <- trades,
                                    SizeOf <- [o \in Orders |-> Order[o].size]
ImplementsLedger == Ledger!Spec

\* Nothing is lost or made up between internal_orders and trades.
MakerConserved == Ledger!Conserved

\* One call never fills its order beyond its size, even when it dies half-way
\* and even though the incoming order has no row of its own (engine.ts:84-85).
TakerNotOverfilled ==
  \A t \in Takers : Filled(t) <= Order[t].size

\* engine.ts:192-196: what a finished call reports is what it has traded, and
\* the two sizes add up to the order unless a self-trade cancelled the rest;
\* and everything keeps its shape.
ReportIsTrue ==
  /\ TypeOK
  /\ \A a \in Attempts :
       att[a].state = "done" =>
         /\ att[a].filled = Filled(TakerOf[a])
         /\ \/ att[a].filled + att[a].remaining = Order[TakerOf[a]].size
            \/ /\ att[a].remaining = 0
               /\ \E m \in Makers : Order[m].user = Order[TakerOf[a]].user

\* engine.ts:114-122: nobody trades with themselves.
NoSelfTrade ==
  \A t \in Takers, m \in Makers : trades[t][m] # 0 => Order[t].user # Order[m].user

\* engine.ts:96-190: a call ends, because the book is read again only after a
\* trade and a pair trades once.
AttemptTerminates ==
  \A a \in Attempts : att[a].state = "fetch" ~> att[a].state \in {"done", "rejected"}
=============================================================================
