-------------------------- MODULE MatchTransaction --------------------------
(***************************************************************************)
(* src/core/internal-engine/engine.ts: the statements of one               *)
(* matchMakerOrder transaction, run by several clients at once.  Postgres  *)
(* runs them at READ COMMITTED: a SELECT ... FOR UPDATE waits for the row  *)
(* and then reads what was last committed, what a transaction writes shows *)
(* at its COMMIT, and its row locks go with it.                            *)
(***************************************************************************)
EXTENDS Integers, Sequences, Functions, FiniteSets

CONSTANTS Txs,             \* calls of matchMakerOrder
          Makers, Takers,  \* resting and incoming orders
          Order,           \* user, side, price and size of each
          TakerOf, MakerOf,\* the pair each call matches
          Wanted,          \* remainingTakerSize of each call
          One,             \* what a contract pays at most, in price units
          None             \* no lock holder; no exposure row

ASSUME TxAssumption ==
  /\ TakerOf \in [Txs -> Takers]
  /\ MakerOf \in [Txs -> Makers]
  /\ \A x \in Txs : Wanted[x] \in 1..Order[TakerOf[x]].size
  \* getBestOppositeOrders only returns orders of the other side.
  /\ \A x \in Txs : Order[TakerOf[x]].side # Order[MakerOf[x]].side
ASSUME OrderAssumption ==
  /\ One \in Nat
  /\ \A o \in Makers \cup Takers : /\ Order[o].size \in Nat \ {0}
                                   /\ Order[o].price \in 0..One
                                   /\ Order[o].side \in {"buy", "sell"}

Balance == [gross : Int, net : Int]
ASSUME SetsAssumption ==
  /\ IsFiniteSet(Makers) /\ IsFiniteSet(Takers)
  /\ None \notin Txs /\ None \notin Balance

Users == {Order[o].user : o \in Makers \cup Takers}
Accounts == Users \X {"buy", "sell"}     \* UNIQUE (user, market, side)

VARIABLES row,         \* committed internal_orders.remaining_size
          trades,      \* committed trades: size of the pair's trade, or 0
          exposure,    \* committed exposure rows: [gross, net], or None
          journal,     \* committed exposure_journal rows of each account
          makerLock,   \* row locks on internal_orders
          accountLock, \* row locks on exposure, and inserts not yet committed
          tx           \* what each transaction has read so far

vars == <<row, trades, exposure, journal, makerLock, accountLock, tx>>

NoTx == [state |-> "start", size |-> 0, prev |-> <<>>]

Init ==
  /\ row = [m \in Makers |-> Order[m].size]
  /\ trades = [t \in Takers |-> [m \in Makers |-> 0]]
  /\ exposure = [c \in Accounts |-> None]
  /\ journal = [c \in Accounts |-> <<>>]
  /\ makerLock = [m \in Makers |-> None]
  /\ accountLock = [c \in Accounts |-> None]
  /\ tx = [x \in Txs |-> NoTx]

\* atomicUpdateExposure is called for the incoming order, then for the maker.
PartyOf(x, i) == IF i = 1 THEN TakerOf[x] ELSE MakerOf[x]
AccountOf(x, i) == <<Order[PartyOf(x, i)].user, Order[PartyOf(x, i)].side>>

\* calculateExposureDelta and buildExposureDeltaPayload: gross is the most that
\* can be lost, net what can be gained beyond it.
exposureDelta(side, price, size) ==
  LET cost == IF side = "buy" THEN price ELSE One - price
  IN  [gross |-> cost * size, net |-> (One - cost) * size - cost * size]

Plus(e, d) == [gross |-> e.gross + d.gross, net |-> e.net + d.net]
Zero == [gross |-> 0, net |-> 0]

----------------------------------------------------------------------------

\* BEGIN; SELECT ... FROM internal_orders ... FOR UPDATE of an open row.
loadMakerForUpdate(x) ==
  /\ tx[x].state = "start"
  /\ makerLock[MakerOf[x]] = None
  /\ row[MakerOf[x]] > 0
  /\ makerLock' = [makerLock EXCEPT ![MakerOf[x]] = x]
  /\ tx' = [tx EXCEPT ![x].state = "insertTrade",
                      ![x].size = IF Wanted[x] <= row[MakerOf[x]]
                                  THEN Wanted[x] ELSE row[MakerOf[x]]]
  /\ UNCHANGED <<row, trades, exposure, journal, accountLock>>

\* The same row when it is closed: ROLLBACK.
MakerNotOpen(x) ==
  /\ tx[x].state = "start"
  /\ makerLock[MakerOf[x]] = None
  /\ row[MakerOf[x]] = 0
  /\ tx' = [tx EXCEPT ![x].state = "rolledBack"]
  /\ UNCHANGED <<row, trades, exposure, journal, makerLock, accountLock>>

\* Mutant: the conflict is not looked at.
insertTradeAnyway(x) ==
  /\ tx[x].state = "insertTrade"
  /\ tx' = [tx EXCEPT ![x].state = "selectExposure"]
  /\ UNCHANGED <<row, trades, exposure, journal, makerLock, accountLock>>

\* INSERT INTO trades ... ON CONFLICT DO NOTHING. No other transaction can be
\* inserting the same pair: it would hold the lock on the same maker row.
insertTradeIfNeeded(x) ==
  /\ tx[x].state = "insertTrade"
  /\ trades[TakerOf[x]][MakerOf[x]] = 0
  /\ tx' = [tx EXCEPT ![x].state = "selectExposure"]
  /\ UNCHANGED <<row, trades, exposure, journal, makerLock, accountLock>>

\* What the transaction holds when it ends.
Unlock(x) ==
  /\ makerLock' = [m \in Makers |-> IF makerLock[m] = x THEN None ELSE makerLock[m]]
  /\ accountLock' = [c \in Accounts |-> IF accountLock[c] = x THEN None ELSE accountLock[c]]

\* Mutant: no ROLLBACK.
DuplicateTradeLeftOpen(x) ==
  /\ tx[x].state = "insertTrade"
  /\ trades[TakerOf[x]][MakerOf[x]] # 0
  /\ tx' = [tx EXCEPT ![x].state = "rolledBack"]
  /\ UNCHANGED <<row, trades, exposure, journal, makerLock, accountLock>>

\* The pair's trade exists: ROLLBACK.
DuplicateTrade(x) ==
  /\ tx[x].state = "insertTrade"
  /\ trades[TakerOf[x]][MakerOf[x]] # 0
  /\ Unlock(x)
  /\ tx' = [tx EXCEPT ![x].state = "rolledBack"]
  /\ UNCHANGED <<row, trades, exposure, journal>>

\* The account atomicUpdateExposure works on: the second call follows the first.
Account(x) == AccountOf(x, Len(tx[x].prev) + 1)

\* What the row held is remembered: the new values are computed from it.
Read(x, prev) ==
  tx' = [tx EXCEPT ![x].prev = Append(@, prev),
                   ![x].state = IF tx[x].prev = <<>> THEN "selectExposure" ELSE "commit"]

\* Mutant: no FOR UPDATE.
UpdateExposureUnlocked(x) ==
  /\ tx[x].state = "selectExposure"
  /\ exposure[Account(x)] # None
  /\ Read(x, exposure[Account(x)])
  /\ UNCHANGED <<row, trades, exposure, journal, makerLock, accountLock>>

\* SELECT ... FROM exposure ... FOR UPDATE finds the row, and the UPDATE follows.
UpdateExposure(x) ==
  /\ tx[x].state = "selectExposure"
  /\ exposure[Account(x)] # None
  /\ accountLock[Account(x)] = None
  /\ accountLock' = [accountLock EXCEPT ![Account(x)] = x]
  /\ Read(x, exposure[Account(x)])
  /\ UNCHANGED <<row, trades, exposure, journal, makerLock>>

\* The SELECT finds no row, so it locks nothing.
SelectNoExposure(x) ==
  /\ tx[x].state = "selectExposure"
  /\ exposure[Account(x)] = None
  /\ tx' = [tx EXCEPT ![x].state = "insertExposure"]
  /\ UNCHANGED <<row, trades, exposure, journal, makerLock, accountLock>>

\* INSERT INTO exposure waits for another insert of the same key to end.
InsertExposure(x) ==
  /\ tx[x].state = "insertExposure"
  /\ accountLock[Account(x)] = None
  /\ exposure[Account(x)] = None
  /\ accountLock' = [accountLock EXCEPT ![Account(x)] = x]
  /\ Read(x, Zero)
  /\ UNCHANGED <<row, trades, exposure, journal, makerLock>>

\* The INSERT meets a row committed since the SELECT, any statement fails, or
\* the client dies: the transaction is rolled back and the error rethrown.
Fails(x) ==
  /\ tx[x].state \in {"start", "insertTrade", "selectExposure", "insertExposure", "commit"}
  /\ Unlock(x)
  /\ tx' = [tx EXCEPT ![x].state = "failed"]
  /\ UNCHANGED <<row, trades, exposure, journal>>

UniqueViolation(x) ==
  /\ tx[x].state = "insertExposure"
  /\ accountLock[Account(x)] = None
  /\ exposure[Account(x)] # None
  /\ Fails(x)

Delta(x, i) == exposureDelta(Order[PartyOf(x, i)].side, Order[MakerOf[x]].price, tx[x].size)

\* The journal row of each of the two accounts, whose new_gross and new_net are
\* also what the exposure row is set to.
Posting(x, i) == [prev |-> tx[x].prev[i], new |-> Plus(tx[x].prev[i], Delta(x, i))]

\* COMMIT: the trade, the maker's row, both exposure rows and their journal.
Commit(x) ==
  LET first == AccountOf(x, 1)
      second == AccountOf(x, 2)
  IN  /\ tx[x].state = "commit"
      /\ trades' = [trades EXCEPT ![TakerOf[x]][MakerOf[x]] = tx[x].size]
      /\ row' = [row EXCEPT ![MakerOf[x]] = @ - tx[x].size]
      /\ exposure' = [exposure EXCEPT ![first] = Posting(x, 1).new, ![second] = Posting(x, 2).new]
      /\ journal' = [journal EXCEPT ![first] = Append(@, Posting(x, 1)),
                                    ![second] = Append(@, Posting(x, 2))]
      /\ Unlock(x)
      /\ tx' = [tx EXCEPT ![x].state = "committed"]

----------------------------------------------------------------------------
\* x waits for a lock that y holds.
WaitsFor(x, y) ==
  \/ tx[x].state = "start" /\ makerLock[MakerOf[x]] = y
  \/ tx[x].state \in {"selectExposure", "insertExposure"} /\ accountLock[Account(x)] = y

\* Transactions that match opposite ways between the same users lock their
\* accounts in opposite orders; Postgres makes one of such a circle fail.
Deadlocked(x) ==
  \E S \in SUBSET Txs : /\ x \in S
                        /\ \A y \in S : \E z \in S : WaitsFor(y, z)

DeadlockDetected(x) == Deadlocked(x) /\ Fails(x)

Statement(x) ==
  \/ loadMakerForUpdate(x) \/ MakerNotOpen(x)
  \/ insertTradeIfNeeded(x) \/ DuplicateTrade(x)
  \/ UpdateExposure(x) \/ SelectNoExposure(x) \/ InsertExposure(x) \/ UniqueViolation(x)
  \/ DeadlockDetected(x)
  \/ Commit(x)

Next == \E x \in Txs : Statement(x) \/ Fails(x)

\* The client awaits each statement and Postgres breaks deadlocks by itself.
Fairness == \A x \in Txs : WF_vars(Statement(x))

Spec == Init /\ [][Next]_vars /\ Fairness

----------------------------------------------------------------------------
TxStates == {"start", "insertTrade", "selectExposure", "insertExposure", "commit",
             "rolledBack", "failed", "committed"}

\* The shape of the tables and of the transactions.
TypeOK ==
  /\ row \in [Makers -> Nat]
  /\ trades \in [Takers -> [Makers -> Nat]]
  /\ exposure \in [Accounts -> Balance \cup {None}]
  /\ journal \in [Accounts -> Seq([prev : Balance, new : Balance])]
  /\ makerLock \in [Makers -> Txs \cup {None}]
  /\ accountLock \in [Accounts -> Txs \cup {None}]
  /\ tx \in [Txs -> [state : TxStates, size : Nat, prev : Seq(Balance)]]

\* engine.ts:285-308: statement by statement, whatever else runs and wherever a
\* transaction fails, the tables change as the ledger allows.
Ledger == INSTANCE CrossLedger WITH open <- row, traded <- trades,
            SizeOf <- [o \in Makers \cup Takers |-> Order[o].size]
ImplementsLedger == Ledger!Spec

\* The exposure that a trade of size n between t and m puts on the account c.
Share(t, m, c) ==
  LET of(o) == IF <<Order[o].user, Order[o].side>> = c
               THEN exposureDelta(Order[o].side, Order[m].price, trades[t][m])
               ELSE Zero
  IN  Plus(of(t), of(m))

Sum(c, field) ==
  SumFunction([p \in Takers \X Makers |-> Share(p[1], p[2], c)[field]])

\* engine.ts:406-467: exposure is read, added to and written back by different
\* statements, for two accounts per trade, and still no trade is lost from an
\* account or counted twice; each journal row of an account starts where the
\* one before it ended, and the last one ends at the exposure row.
Chain(j) == \A i \in 1..Len(j) : j[i].prev = IF i = 1 THEN Zero ELSE j[i - 1].new
ExposureIsSumOfTrades ==
  /\ TypeOK
  /\ \A c \in Accounts :
       LET e == IF exposure[c] = None THEN Zero ELSE exposure[c]
           j == journal[c]
       IN  /\ e.gross = Sum(c, "gross") /\ e.net = Sum(c, "net")
           /\ Chain(j)
           /\ exposure[c] = IF j = <<>> THEN None ELSE j[Len(j)].new

\* engine.ts:418-423 takes the incoming user's account before the maker's, which
\* is no fixed order: transactions can wait for each other in a circle, and every
\* one of them ends only because Postgres breaks the circle.
TransactionEnds ==
  \A x \in Txs : <>(tx[x].state \in {"committed", "rolledBack", "failed"})
=============================================================================
