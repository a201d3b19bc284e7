----------------------- MODULE MatchTransactionProofs -----------------------
(***************************************************************************)
(* Proofs about MatchTransaction, for any number of transactions, orders   *)
(* and users: statement by statement it implements CrossLedger, and the    *)
(* exposure of every account is the sum of the trades it has part in.  And *)
(* about OrderBook, the Redis book that the callers of the transaction     *)
(* bring up to date after it, for any clients and orders.                  *)
(***************************************************************************)
EXTENDS MatchTransaction, OrderBook, Sums, SequenceTheorems, TLAPS

----------------------------------------------------------------------------
(* The inductive invariant.                                                *)

Transactions == [state : TxStates, size : Nat, prev : Seq(Balance)]

\* What an account holds: no row counts as nothing.
Value(c) == IF exposure[c] = None THEN Zero ELSE exposure[c]

Updating == {"selectExposure", "insertExposure", "commit"}
HasMaker == {"insertTrade"} \cup Updating

\* A transaction that goes on has the resting order and the accounts it has
\* read locked, and what it has read is still what is committed.
TxOK(x) ==
  LET r == tx[x] IN
  /\ r.state \in HasMaker =>
       /\ makerLock[MakerOf[x]] = x
       /\ r.size \in 1..Wanted[x] /\ r.size <= row[MakerOf[x]]
  /\ r.state \in Updating => trades[TakerOf[x]][MakerOf[x]] = 0
  /\ r.state \in {"start", "insertTrade"} => r.prev = <<>>
  /\ r.state \in {"selectExposure", "insertExposure"} => Len(r.prev) <= 1
  /\ r.state = "commit" => Len(r.prev) = 2
  /\ r.state \in Updating =>
       \A i \in 1..Len(r.prev) : /\ accountLock[AccountOf(x, i)] = x
                                 /\ r.prev[i] = Value(AccountOf(x, i))

TxInv == TypeOK /\ \A x \in Txs : TxOK(x)

\* Each account is the sum of its trades and the end of its journal.
AccountOK(c) ==
  /\ Value(c).gross = Sum(c, "gross") /\ Value(c).net = Sum(c, "net")
  /\ Chain(journal[c])
  /\ exposure[c] = IF journal[c] = <<>> THEN None ELSE journal[c][Len(journal[c])].new

LEMMA PairFacts ==
  /\ \A x \in Txs : /\ TakerOf[x] \in Takers /\ MakerOf[x] \in Makers
                    /\ Wanted[x] \in 1..Order[TakerOf[x]].size
                    /\ \A i \in {1, 2} : AccountOf(x, i) \in Accounts
                    /\ AccountOf(x, 1) # AccountOf(x, 2)
  /\ \A o \in Makers \cup Takers : Order[o].size \in Nat /\ Order[o].price \in Int
  /\ One \in Int
<1>1. \A x \in Txs : TakerOf[x] \in Takers /\ MakerOf[x] \in Makers
  BY TxAssumption
<1>2. ASSUME NEW x \in Txs, NEW i \in {1, 2}
      PROVE  AccountOf(x, i) = <<Order[PartyOf(x, i)].user, Order[PartyOf(x, i)].side>> /\ PartyOf(x, i) \in Makers \cup Takers
  BY <1>1 DEF AccountOf, PartyOf
<1>3. \A x \in Txs, i \in {1, 2} : AccountOf(x, i) \in Accounts
  BY <1>2, OrderAssumption DEF Accounts, Users
<1>4. \A x \in Txs : AccountOf(x, 1) # AccountOf(x, 2)
  BY TxAssumption DEF AccountOf, PartyOf
<1> QED
  BY <1>1, <1>3, <1>4, TxAssumption, OrderAssumption

LEMMA ZeroIsBalance == Zero \in Balance /\ None # Zero
BY SetsAssumption DEF Zero, Balance

LEMMA ValueType == TypeOK => \A c \in Accounts : Value(c) \in Balance
BY ZeroIsBalance DEF TypeOK, Value

LEMMA InitTx == Init => TxInv
<1> SUFFICES ASSUME Init PROVE TxInv
  OBVIOUS
<1>1. NoTx \in Transactions
  BY DEF NoTx, Transactions, TxStates
<1>2. TypeOK
  BY <1>1, PairFacts DEF Init, TypeOK, Transactions
<1>3. \A x \in Txs : TxOK(x)
  BY DEF Init, TxOK, NoTx, HasMaker, Updating
<1> QED
  BY <1>2, <1>3 DEF TxInv

----------------------------------------------------------------------------
(* One transaction moves; the others keep what they have.                  *)

LEMMA TxMoves ==
  ASSUME TypeOK, NEW x \in Txs, NEW t \in Transactions, tx' = [tx EXCEPT ![x] = t]
  PROVE  tx' \in [Txs -> Transactions] /\ tx'[x] = t /\ \A y \in Txs \ {x} : tx'[y] = tx[y]
BY DEF TypeOK, Transactions

LEMMA StateMoves ==
  ASSUME TypeOK, NEW x \in Txs, NEW s \in TxStates, tx' = [tx EXCEPT ![x].state = s]
  PROVE  /\ tx' \in [Txs -> Transactions] /\ \A y \in Txs \ {x} : tx'[y] = tx[y]
         /\ tx'[x].state = s /\ tx'[x].size = tx[x].size /\ tx'[x].prev = tx[x].prev
<1> DEFINE t == [tx[x] EXCEPT !.state = s]
<1>1. tx[x] \in Transactions
  BY DEF TypeOK, Transactions
<1>2. t \in Transactions /\ t.state = s /\ t.size = tx[x].size /\ t.prev = tx[x].prev
  BY <1>1 DEF Transactions
<1>3. tx' = [tx EXCEPT ![x] = t]
  OBVIOUS
<1> HIDE DEF t
<1> QED
  BY <1>2, <1>3, TxMoves

\* What a transaction has locked stays as it is while another one moves.
LEMMA OthersStand ==
  ASSUME TxInv, NEW x \in Txs,
         \A y \in Txs \ {x} : tx'[y] = tx[y],
         \A m \in Makers : makerLock[m] \in Txs \ {x} =>
           makerLock'[m] = makerLock[m] /\ row'[m] = row[m] /\ \A t \in Takers : trades'[t][m] = trades[t][m],
         \A c \in Accounts : accountLock[c] \in Txs \ {x} =>
           accountLock'[c] = accountLock[c] /\ exposure'[c] = exposure[c],
         TxOK(x)'
  PROVE  \A y \in Txs : TxOK(y)'
<1> SUFFICES ASSUME NEW y \in Txs \ {x} PROVE TxOK(y)'
  OBVIOUS
<1>1. TxOK(y) /\ tx'[y] = tx[y] /\ MakerOf[y] \in Makers /\ TakerOf[y] \in Takers
  BY PairFacts DEF TxInv
<1>2. tx[y].state \in HasMaker => /\ makerLock'[MakerOf[y]] = y /\ row'[MakerOf[y]] = row[MakerOf[y]]
                                  /\ trades'[TakerOf[y]][MakerOf[y]] = trades[TakerOf[y]][MakerOf[y]]
  BY <1>1 DEF TxOK
<1>3. tx[y].state \in Updating => Len(tx[y].prev) <= 2 /\ Len(tx[y].prev) \in Nat
  <2>1. tx[y].prev \in Seq(Balance)
    BY DEF TxInv, TypeOK
  <2>2. Len(tx[y].prev) \in Nat
    BY <2>1, LenProperties
  <2>3. tx[y].state \in Updating => Len(tx[y].prev) <= 1 \/ Len(tx[y].prev) = 2
    BY <1>1 DEF TxOK, Updating
  <2>4. \A n \in Nat : n <= 1 \/ n = 2 => n <= 2
    OBVIOUS
  <2> QED
    BY <2>2, <2>3, <2>4
<1>4. ASSUME tx[y].state \in Updating, NEW i \in 1..Len(tx[y].prev)
      PROVE  accountLock'[AccountOf(y, i)] = y /\ tx[y].prev[i] = Value(AccountOf(y, i))'
  <2>1. i \in {1, 2}
    BY <1>3, <1>4
  <2>2. AccountOf(y, i) \in Accounts /\ accountLock[AccountOf(y, i)] = y /\ tx[y].prev[i] = Value(AccountOf(y, i))
    BY <1>1, <1>4, <2>1, PairFacts DEF TxOK
  <2>3. accountLock'[AccountOf(y, i)] = y /\ exposure'[AccountOf(y, i)] = exposure[AccountOf(y, i)]
    BY <2>2
  <2> QED
    BY <2>2, <2>3 DEF Value
<1>5. \A i \in 1..Len(tx[y].prev) : AccountOf(y, i)' = AccountOf(y, i)
  BY DEF AccountOf, PartyOf
<1> QED
  BY <1>1, <1>2, <1>4, <1>5 DEF TxOK, HasMaker

\* The end of a transaction leaves the locks of the others alone.
LEMMA UnlockLeaves ==
  ASSUME TypeOK, NEW x \in Txs, Unlock(x)
  PROVE  /\ makerLock' \in [Makers -> Txs \cup {None}] /\ accountLock' \in [Accounts -> Txs \cup {None}]
         /\ \A m \in Makers : makerLock[m] \in Txs \ {x} => makerLock'[m] = makerLock[m]
         /\ \A c \in Accounts : accountLock[c] \in Txs \ {x} => accountLock'[c] = accountLock[c]
BY DEF TypeOK, Unlock

LEMMA EndsOK ==
  ASSUME NEW x \in Txs, tx'[x].state \in {"rolledBack", "failed", "committed"}
  PROVE  TxOK(x)'
BY DEF TxOK, HasMaker, Updating

----------------------------------------------------------------------------
(* One lemma per statement.                                                *)

\* Of a statement that only takes a lock or reads.
LEMMA TypeStays ==
  ASSUME TypeOK, UNCHANGED <<row, trades, exposure, journal>>, tx' \in [Txs -> Transactions],
         makerLock' \in [Makers -> Txs \cup {None}], accountLock' \in [Accounts -> Txs \cup {None}]
  PROVE  TypeOK'
BY DEF TypeOK, Transactions

LEMMA LoadStep ==
  ASSUME TxInv, NEW x \in Txs, loadMakerForUpdate(x)
  PROVE  TxInv'
<1> DEFINE q == IF Wanted[x] <= row[MakerOf[x]] THEN Wanted[x] ELSE row[MakerOf[x]]
           t == [tx[x] EXCEPT !.state = "insertTrade", !.size = q]
<1>1. tx[x] \in Transactions /\ TypeOK
  BY DEF TxInv, TypeOK, Transactions
<1>2. MakerOf[x] \in Makers /\ row[MakerOf[x]] \in Nat \ {0} /\ Wanted[x] \in Nat \ {0}
  <2>1. MakerOf[x] \in Makers /\ TakerOf[x] \in Takers /\ Wanted[x] \in 1..Order[TakerOf[x]].size
    BY PairFacts
  <2>2. Order[TakerOf[x]].size \in Nat
    BY <2>1, PairFacts
  <2>3. row[MakerOf[x]] \in Nat /\ row[MakerOf[x]] > 0
    BY <1>1, <2>1 DEF TypeOK, loadMakerForUpdate
  <2> QED
    BY <2>1, <2>2, <2>3
<1>3. q \in 1..Wanted[x] /\ q <= row[MakerOf[x]] /\ q \in Nat
  BY <1>2
<1>4. tx' = [tx EXCEPT ![x] = t]
  BY DEF loadMakerForUpdate
<1>5. t \in Transactions /\ t.state = "insertTrade" /\ t.size = q /\ t.prev = tx[x].prev
  BY <1>1, <1>3 DEF Transactions, TxStates
<1>6. tx[x].prev = <<>>
  BY DEF TxInv, TxOK, loadMakerForUpdate
<1> HIDE DEF t, q
<1>7. tx' \in [Txs -> Transactions] /\ tx'[x] = t /\ \A y \in Txs \ {x} : tx'[y] = tx[y]
  BY <1>1, <1>4, <1>5, TxMoves
<1>8. makerLock' = [makerLock EXCEPT ![MakerOf[x]] = x] /\ makerLock[MakerOf[x]] = None
  BY DEF loadMakerForUpdate
<1>9. UNCHANGED <<row, trades, exposure, journal, accountLock>>
  BY DEF loadMakerForUpdate
<1>10. TypeOK'
  BY <1>1, <1>2, <1>7, <1>8, <1>9 DEF TypeOK, Transactions
<1>11. TxOK(x)'
  <2>1. makerLock'[MakerOf[x]] = x
    BY <1>1, <1>2, <1>8 DEF TypeOK
  <2> QED
    BY <1>3, <1>5, <1>6, <1>7, <1>9, <2>1 DEF TxOK, HasMaker, Updating
<1>12. \A y \in Txs : TxOK(y)'
  <2>1. \A m \in Makers : makerLock[m] \in Txs \ {x} => makerLock'[m] = makerLock[m]
    BY <1>8, SetsAssumption
  <2> QED
    BY <1>7, <1>9, <1>11, <2>1, OthersStand
<1> QED
  BY <1>10, <1>12 DEF TxInv

LEMMA NotOpenStep ==
  ASSUME TxInv, NEW x \in Txs, MakerNotOpen(x)
  PROVE  TxInv'
<1>1. /\ tx' \in [Txs -> Transactions] /\ \A y \in Txs \ {x} : tx'[y] = tx[y]
      /\ tx'[x].state = "rolledBack"
  BY StateMoves DEF MakerNotOpen, TxInv, TxStates
<1>2. UNCHANGED <<row, trades, exposure, journal, makerLock, accountLock>>
  BY DEF MakerNotOpen
<1>3. TypeOK'
  BY <1>1, <1>2 DEF TxInv, TypeOK, Transactions
<1>4. TxOK(x)'
  BY <1>1, EndsOK
<1>5. \A y \in Txs : TxOK(y)'
  BY <1>1, <1>2, <1>4, OthersStand
<1> QED
  BY <1>3, <1>5 DEF TxInv

LEMMA InsertTradeStep ==
  ASSUME TxInv, NEW x \in Txs, insertTradeIfNeeded(x)
  PROVE  TxInv'
<1>1. /\ tx' \in [Txs -> Transactions] /\ \A y \in Txs \ {x} : tx'[y] = tx[y]
      /\ tx'[x].state = "selectExposure" /\ tx'[x].size = tx[x].size /\ tx'[x].prev = tx[x].prev
  BY StateMoves DEF insertTradeIfNeeded, TxInv, TxStates
<1>2. UNCHANGED <<row, trades, exposure, journal, makerLock, accountLock>>
  BY DEF insertTradeIfNeeded
<1>3. TypeOK'
  BY <1>1, <1>2 DEF TxInv, TypeOK, Transactions
<1>4. TxOK(x)'
  <2>1. tx[x].state = "insertTrade" /\ trades[TakerOf[x]][MakerOf[x]] = 0 /\ TxOK(x)
    BY DEF insertTradeIfNeeded, TxInv
  <2>2. tx[x].prev = <<>>
    BY <2>1 DEF TxOK
  <2>3. Len(tx[x].prev) = 0 /\ 1..0 = {}
    BY <2>2
  <2> QED
    BY <1>1, <1>2, <2>1, <2>2, <2>3 DEF TxOK, HasMaker, Updating
<1>5. \A y \in Txs : TxOK(y)'
  BY <1>1, <1>2, <1>4, OthersStand
<1> QED
  BY <1>3, <1>5 DEF TxInv

\* A transaction that is rolled back gives up its locks and changes no table.
LEMMA RollbackStep ==
  ASSUME TxInv, NEW x \in Txs, Unlock(x), UNCHANGED <<row, trades, exposure, journal>>,
         NEW s \in {"rolledBack", "failed"}, tx' = [tx EXCEPT ![x].state = s]
  PROVE  TxInv'
<1>1. tx' \in [Txs -> Transactions] /\ (\A y \in Txs \ {x} : tx'[y] = tx[y]) /\ tx'[x].state = s
  BY StateMoves DEF TxInv, TxStates
<1>2. /\ makerLock' \in [Makers -> Txs \cup {None}] /\ accountLock' \in [Accounts -> Txs \cup {None}]
      /\ \A m \in Makers : makerLock[m] \in Txs \ {x} => makerLock'[m] = makerLock[m]
      /\ \A c \in Accounts : accountLock[c] \in Txs \ {x} => accountLock'[c] = accountLock[c]
  BY UnlockLeaves DEF TxInv
<1>3. TypeOK'
  BY <1>1, <1>2, TypeStays DEF TxInv
<1>4. TxOK(x)'
  BY <1>1, EndsOK
<1>5. \A y \in Txs : TxOK(y)'
  BY <1>1, <1>2, <1>4, OthersStand
<1> QED
  BY <1>3, <1>5 DEF TxInv

LEMMA DuplicateStep ==
  ASSUME TxInv, NEW x \in Txs, DuplicateTrade(x)
  PROVE  TxInv'
BY RollbackStep DEF DuplicateTrade

LEMMA FailsStep ==
  ASSUME TxInv, NEW x \in Txs, Fails(x)
  PROVE  TxInv'
BY RollbackStep DEF Fails

LEMMA SelectStep ==
  ASSUME TxInv, NEW x \in Txs, SelectNoExposure(x)
  PROVE  TxInv'
<1>1. /\ tx' \in [Txs -> Transactions] /\ \A y \in Txs \ {x} : tx'[y] = tx[y]
      /\ tx'[x].state = "insertExposure" /\ tx'[x].size = tx[x].size /\ tx'[x].prev = tx[x].prev
  BY StateMoves DEF SelectNoExposure, TxInv, TxStates
<1>2. UNCHANGED <<row, trades, exposure, journal, makerLock, accountLock>>
  BY DEF SelectNoExposure
<1>3. TypeOK'
  BY <1>1, <1>2 DEF TxInv, TypeOK, Transactions
<1>4. TxOK(x)'
  <2>1. tx[x].state = "selectExposure" /\ TxOK(x)
    BY DEF SelectNoExposure, TxInv
  <2> QED
    BY <1>1, <1>2, <2>1 DEF TxOK, HasMaker, Updating, Value, AccountOf, PartyOf
<1>5. \A y \in Txs : TxOK(y)'
  BY <1>1, <1>2, <1>4, OthersStand
<1> QED
  BY <1>3, <1>5 DEF TxInv

\* An exposure row is locked and read: the account's turn is over.
LEMMA ReadStep ==
  ASSUME TxInv, NEW x \in Txs, NEW prev, prev = Value(Account(x)),
         tx[x].state \in {"selectExposure", "insertExposure"}, accountLock[Account(x)] = None,
         accountLock' = [accountLock EXCEPT ![Account(x)] = x], Read(x, prev),
         UNCHANGED <<row, trades, exposure, journal, makerLock>>
  PROVE  TxInv'
<1> DEFINE p == tx[x].prev
           s == IF p = <<>> THEN "selectExposure" ELSE "commit"
           n == Append(p, prev)
           t == [tx[x] EXCEPT !.prev = n, !.state = s]
           k == Len(p) + 1
<1>1. tx[x] \in Transactions /\ TypeOK /\ TxOK(x)
  BY DEF TxInv, TypeOK, Transactions
<1>2. p \in Seq(Balance) /\ Len(p) \in Nat /\ Len(p) <= 1
  <2>1. p \in Seq(Balance)
    BY <1>1 DEF Transactions
  <2> QED
    BY <1>1, <2>1, LenProperties DEF TxOK
<1>3. k \in {1, 2} /\ Account(x) = AccountOf(x, k) /\ Account(x) \in Accounts
  BY <1>2, PairFacts DEF Account
<1>4. prev \in Balance
  BY <1>1, <1>3, ValueType
<1>5. n \in Seq(Balance) /\ Len(n) = k /\ n[k] = prev /\ \A i \in 1..Len(p) : n[i] = p[i]
  BY <1>2, <1>4, AppendProperties
<1>6. s \in TxStates /\ s \in {"selectExposure", "commit"}
  BY DEF TxStates
<1>7. p = <<>> <=> Len(p) = 0
  BY <1>2, EmptySeq
<1>8. (s = "selectExposure" => k = 1) /\ (s = "commit" => k = 2)
  BY <1>2, <1>7
<1>9. tx' = [tx EXCEPT ![x] = t]
  BY DEF Read
<1>10. t \in Transactions /\ t.state = s /\ t.prev = n /\ t.size = tx[x].size
  <2> HIDE DEF s, n
  <2> QED
    BY <1>1, <1>5, <1>6 DEF Transactions
<1> HIDE DEF t, s
<1>11. tx' \in [Txs -> Transactions] /\ tx'[x] = t /\ \A y \in Txs \ {x} : tx'[y] = tx[y]
  BY <1>1, <1>9, <1>10, TxMoves
<1> HIDE DEF n
<1>12. TypeOK'
  <2>1. accountLock' \in [Accounts -> Txs \cup {None}]
    BY <1>1 DEF TypeOK
  <2> QED
    BY <1>1, <1>11, <2>1, TypeStays DEF TypeOK
<1>13. \A i \in 1..k : accountLock'[AccountOf(x, i)] = x /\ n[i] = Value(AccountOf(x, i))
  <2> SUFFICES ASSUME NEW i \in 1..k
               PROVE  accountLock'[AccountOf(x, i)] = x /\ n[i] = Value(AccountOf(x, i))
    OBVIOUS
  <2>1. CASE i = k
    BY <1>1, <1>3, <1>5, <2>1 DEF TypeOK
  <2>2. CASE i # k
    <3>1. i \in 1..Len(p) /\ k \in Int
      BY <1>2, <2>2
    <3>2. accountLock[AccountOf(x, i)] = x /\ p[i] = Value(AccountOf(x, i))
      BY <1>1, <3>1 DEF TxOK, Updating
    <3>3. AccountOf(x, i) \in Accounts
      BY <1>2, <3>1, PairFacts
    <3>4. accountLock'[AccountOf(x, i)] = x
      BY <1>1, <3>2, <3>3 DEF TypeOK
    <3> QED
      BY <1>5, <3>1, <3>2, <3>4
  <2> QED
    BY <2>1, <2>2
<1>14. TxOK(x)'
  <2>1. Value(AccountOf(x, 1))' = Value(AccountOf(x, 1)) /\ Value(AccountOf(x, 2))' = Value(AccountOf(x, 2))
    BY DEF Value, AccountOf, PartyOf
  <2>2. \A i \in 1..k : AccountOf(x, i)' = AccountOf(x, i) /\ Value(AccountOf(x, i))' = Value(AccountOf(x, i))
    BY DEF Value, AccountOf, PartyOf
  <2>3. tx'[x].state = s /\ tx'[x].prev = n /\ tx'[x].size = tx[x].size
    BY <1>10, <1>11
  <2>4. makerLock[MakerOf[x]] = x /\ tx[x].size \in 1..Wanted[x] /\ tx[x].size <= row[MakerOf[x]] /\ trades[TakerOf[x]][MakerOf[x]] = 0
    BY <1>1 DEF TxOK, HasMaker, Updating
  <2> HIDE DEF k
  <2> QED
    BY <1>5, <1>6, <1>8, <1>13, <2>2, <2>3, <2>4 DEF TxOK, HasMaker, Updating
<1>15. \A y \in Txs : TxOK(y)'
  <2>1. \A c \in Accounts : accountLock[c] \in Txs \ {x} => accountLock'[c] = accountLock[c]
    BY SetsAssumption
  <2> QED
    BY <1>11, <1>14, <2>1, OthersStand
<1> QED
  BY <1>12, <1>15 DEF TxInv

LEMMA UpdateStep ==
  ASSUME TxInv, NEW x \in Txs, UpdateExposure(x)
  PROVE  TxInv'
BY ReadStep DEF UpdateExposure, Value

LEMMA InsertExposureStep ==
  ASSUME TxInv, NEW x \in Txs, InsertExposure(x)
  PROVE  TxInv'
BY ReadStep DEF InsertExposure, Value

----------------------------------------------------------------------------
(* COMMIT.                                                                 *)

LEMMA DeltaIsBalance ==
  ASSUME NEW side, NEW price \in Int, NEW size \in Int
  PROVE  /\ exposureDelta(side, price, size) \in Balance
         /\ size = 0 => exposureDelta(side, price, size) = Zero
<1> DEFINE cost == IF side = "buy" THEN price ELSE One - price
<1>1. cost \in Int /\ One \in Int
  BY PairFacts
<1> HIDE DEF cost
<1>2. cost * size \in Int /\ (One - cost) * size - cost * size \in Int
  BY <1>1
<1>3. size = 0 => cost * size = 0 /\ (One - cost) * size - cost * size = 0
  BY <1>1
<1>4. exposureDelta(side, price, size) = [gross |-> cost * size, net |-> (One - cost) * size - cost * size]
  BY DEF exposureDelta, cost
<1> QED
  BY <1>2, <1>3, <1>4 DEF Balance, Zero

LEMMA PlusIsBalance == \A e, d \in Balance : Plus(e, d) \in Balance
BY DEF Plus, Balance

\* What the two postings of a committing transaction are.
LEMMA PostingFacts ==
  ASSUME TxInv, NEW x \in Txs, tx[x].state = "commit", NEW i \in {1, 2}
  PROVE  /\ Delta(x, i) \in Balance /\ tx[x].prev[i] \in Balance
         /\ tx[x].prev[i] = Value(AccountOf(x, i)) /\ accountLock[AccountOf(x, i)] = x
         /\ Posting(x, i) \in [prev : Balance, new : Balance]
         /\ Posting(x, i).prev = Value(AccountOf(x, i))
         /\ Posting(x, i).new = Plus(Value(AccountOf(x, i)), Delta(x, i))
<1>1. tx[x] \in Transactions /\ TypeOK /\ TxOK(x)
  BY DEF TxInv, TypeOK, Transactions
<1>2. tx[x].size \in Int /\ Order[MakerOf[x]].price \in Int
  BY <1>1, PairFacts DEF Transactions
<1>3. Delta(x, i) \in Balance
  BY <1>2, DeltaIsBalance DEF Delta
<1>4. Len(tx[x].prev) = 2 /\ i \in 1..2
  BY <1>1 DEF TxOK
<1>5. tx[x].prev[i] = Value(AccountOf(x, i)) /\ accountLock[AccountOf(x, i)] = x
  BY <1>1, <1>4 DEF TxOK, Updating
<1>6. Value(AccountOf(x, i)) \in Balance
  BY <1>1, PairFacts, ValueType
<1> QED
  BY <1>3, <1>5, <1>6, PlusIsBalance DEF Posting

\* What a commit does to the tables.
LEMMA CommitEffects ==
  ASSUME TxInv, NEW x \in Txs, Commit(x)
  PROVE  /\ row' \in [Makers -> Nat] /\ trades' \in [Takers -> [Makers -> Nat]]
         /\ exposure' \in [Accounts -> Balance \cup {None}]
         /\ journal' \in [Accounts -> Seq([prev : Balance, new : Balance])]
         /\ \A m \in Makers \ {MakerOf[x]} :
              row'[m] = row[m] /\ \A t \in Takers : trades'[t][m] = trades[t][m]
         /\ \A t \in Takers, m \in Makers : <<t, m>> # <<TakerOf[x], MakerOf[x]>> => trades'[t][m] = trades[t][m]
         /\ trades'[TakerOf[x]][MakerOf[x]] = tx[x].size
         /\ \A i \in {1, 2} : /\ exposure'[AccountOf(x, i)] = Posting(x, i).new
                              /\ journal'[AccountOf(x, i)] = Append(journal[AccountOf(x, i)], Posting(x, i))
         /\ \A c \in Accounts : (c # AccountOf(x, 1) /\ c # AccountOf(x, 2)) =>
              exposure'[c] = exposure[c] /\ journal'[c] = journal[c]
<1> DEFINE a1 == AccountOf(x, 1)
           a2 == AccountOf(x, 2)
           p1 == Posting(x, 1)
           p2 == Posting(x, 2)
           J == [prev : Balance, new : Balance]
<1>1. a1 \in Accounts /\ a2 \in Accounts /\ a1 # a2 /\ TakerOf[x] \in Takers /\ MakerOf[x] \in Makers
  BY PairFacts
<1>2. tx[x].state = "commit" /\ TypeOK /\ TxOK(x)
  BY DEF Commit, TxInv
<1>3. p1 \in J /\ p2 \in J /\ p1.new \in Balance /\ p2.new \in Balance
  BY <1>2, PostingFacts
<1>4. tx[x].size \in 1..Wanted[x] /\ tx[x].size <= row[MakerOf[x]] /\ tx[x].size \in Nat
  <2>1. tx[x].size \in Nat
    BY <1>2 DEF TypeOK
  <2> QED
    BY <1>2, <2>1 DEF TxOK, HasMaker, Updating
<1>5. /\ trades' = [trades EXCEPT ![TakerOf[x]][MakerOf[x]] = tx[x].size]
      /\ row' = [row EXCEPT ![MakerOf[x]] = @ - tx[x].size]
      /\ exposure' = [exposure EXCEPT ![a1] = p1.new, ![a2] = p2.new]
      /\ journal' = [journal EXCEPT ![a1] = Append(@, p1), ![a2] = Append(@, p2)]
  BY DEF Commit
<1>6. row[MakerOf[x]] - tx[x].size \in Nat
  BY <1>1, <1>2, <1>4 DEF TypeOK
<1> HIDE DEF a1, a2, p1, p2
<1>7. /\ row' \in [Makers -> Nat]
      /\ \A m \in Makers \ {MakerOf[x]} : row'[m] = row[m]
  BY <1>1, <1>2, <1>5, <1>6 DEF TypeOK
<1>8. /\ trades' \in [Takers -> [Makers -> Nat]]
      /\ \A t \in Takers, m \in Makers : <<t, m>> # <<TakerOf[x], MakerOf[x]>> => trades'[t][m] = trades[t][m]
      /\ trades'[TakerOf[x]][MakerOf[x]] = tx[x].size
  BY <1>1, <1>2, <1>4, <1>5 DEF TypeOK
<1>9. /\ exposure' \in [Accounts -> Balance \cup {None}]
      /\ exposure'[a1] = p1.new /\ exposure'[a2] = p2.new
      /\ \A c \in Accounts : (c # a1 /\ c # a2) => exposure'[c] = exposure[c]
  BY <1>1, <1>2, <1>3, <1>5 DEF TypeOK
<1>10. journal[a1] \in Seq(J) /\ journal[a2] \in Seq(J)
  BY <1>1, <1>2 DEF TypeOK
<1>11. Append(journal[a1], p1) \in Seq(J) /\ Append(journal[a2], p2) \in Seq(J)
  BY <1>3, <1>10, AppendProperties
<1>12. journal \in [Accounts -> Seq(J)]
  BY <1>2 DEF TypeOK
<1>13. /\ journal' \in [Accounts -> Seq(J)]
       /\ journal'[a1] = Append(journal[a1], p1) /\ journal'[a2] = Append(journal[a2], p2)
       /\ \A c \in Accounts : (c # a1 /\ c # a2) => journal'[c] = journal[c]
  <2> HIDE DEF J
  <2> QED
    BY <1>1, <1>5, <1>11, <1>12
<1>14. \A i \in {1, 2} : /\ exposure'[AccountOf(x, i)] = Posting(x, i).new
                         /\ journal'[AccountOf(x, i)] = Append(journal[AccountOf(x, i)], Posting(x, i))
  BY <1>9, <1>13 DEF a1, a2, p1, p2
<1> QED
  BY <1>7, <1>8, <1>9, <1>13, <1>14 DEF a1, a2

LEMMA CommitStep ==
  ASSUME TxInv, NEW x \in Txs, Commit(x)
  PROVE  TxInv'
<1>1. /\ tx' \in [Txs -> Transactions] /\ \A y \in Txs \ {x} : tx'[y] = tx[y]
      /\ tx'[x].state = "committed"
  BY StateMoves DEF Commit, TxInv, TxStates
<1>2. /\ makerLock' \in [Makers -> Txs \cup {None}] /\ accountLock' \in [Accounts -> Txs \cup {None}]
      /\ \A m \in Makers : makerLock[m] \in Txs \ {x} => makerLock'[m] = makerLock[m]
      /\ \A c \in Accounts : accountLock[c] \in Txs \ {x} => accountLock'[c] = accountLock[c]
  BY UnlockLeaves DEF Commit, TxInv
<1>3. TypeOK'
  BY <1>1, <1>2, CommitEffects DEF TypeOK, Transactions
<1>4. TxOK(x)'
  BY <1>1, EndsOK
<1>5. tx[x].state = "commit" /\ TxOK(x)
  BY DEF Commit, TxInv
<1>6. makerLock[MakerOf[x]] = x /\ accountLock[AccountOf(x, 1)] = x /\ accountLock[AccountOf(x, 2)] = x
  BY <1>5, PostingFacts DEF TxOK, HasMaker, Updating
<1>7. \A m \in Makers : makerLock[m] \in Txs \ {x} =>
        row'[m] = row[m] /\ \A t \in Takers : trades'[t][m] = trades[t][m]
  BY <1>6, CommitEffects
<1>8. \A c \in Accounts : accountLock[c] \in Txs \ {x} => exposure'[c] = exposure[c]
  BY <1>6, CommitEffects
<1>9. \A y \in Txs : TxOK(y)'
  BY <1>1, <1>2, <1>4, <1>7, <1>8, OthersStand
<1> QED
  BY <1>3, <1>9 DEF TxInv

\* Which statements there are, and which of them write the tables of record.
LEMMA StepKeepsTx == TxInv /\ [Next]_vars => TxInv'
<1> SUFFICES ASSUME TxInv, [Next]_vars PROVE TxInv'
  OBVIOUS
<1>1. ASSUME NEW x \in Txs, Statement(x) \/ Fails(x) PROVE TxInv'
  BY <1>1, LoadStep, NotOpenStep, InsertTradeStep, DuplicateStep, UpdateStep, SelectStep, InsertExposureStep,
     FailsStep, CommitStep DEF Statement, UniqueViolation, DeadlockDetected
<1>2. ASSUME UNCHANGED vars PROVE TxInv'
  <2>1. TypeOK'
    BY <1>2 DEF vars, TxInv, TypeOK
  <2>2. ASSUME NEW x \in Txs PROVE TxOK(x)'
    BY <1>2 DEF vars, TxInv, TxOK, Value, AccountOf, PartyOf
  <2> QED
    BY <2>1, <2>2 DEF TxInv
<1> QED
  BY <1>1, <1>2 DEF Next

LEMMA OnlyCommitWrites ==
  Next => (\E x \in Txs : Commit(x)) \/ UNCHANGED <<row, trades, exposure, journal>>
BY DEF Next, Statement, loadMakerForUpdate, MakerNotOpen, insertTradeIfNeeded, DuplicateTrade, UpdateExposure,
       SelectNoExposure, InsertExposure, UniqueViolation, DeadlockDetected, Fails

\* engine.ts:285-467: the tables, the locks and what each transaction remembers
\* have the shape the statements take for granted, in every order of them.
THEOREM TypeCorrect == Spec => []TypeOK
<1>1. TxInv => TypeOK
  BY DEF TxInv
<1> QED
  BY <1>1, InitTx, StepKeepsTx, PTL DEF Spec

----------------------------------------------------------------------------
(* Refinement.                                                             *)

LEMMA InitLedger == Init => Ledger!Init
BY DEF Init, Ledger!Init

LEMMA CommitMatches ==
  ASSUME TxInv, NEW x \in Txs, Commit(x)
  PROVE  Ledger!Next
<1>1. tx[x].state = "commit" /\ TypeOK /\ TxOK(x)
  BY DEF Commit, TxInv
<1>2. TakerOf[x] \in Takers /\ MakerOf[x] \in Makers /\ Wanted[x] \in 1..Order[TakerOf[x]].size
      /\ Order[TakerOf[x]].size \in Nat
  BY PairFacts
<1>3. tx[x].size \in 1..Wanted[x] /\ tx[x].size <= row[MakerOf[x]] /\ trades[TakerOf[x]][MakerOf[x]] = 0
  BY <1>1 DEF TxOK, HasMaker, Updating
<1>4. tx[x].size \in 1..Order[TakerOf[x]].size
  BY <1>2, <1>3
<1>5. [o \in Makers \cup Takers |-> Order[o].size][TakerOf[x]] = Order[TakerOf[x]].size
  BY <1>2
<1>6. Ledger!Match(TakerOf[x], MakerOf[x], tx[x].size)
  BY <1>3 DEF Commit, Ledger!Match
<1> QED
  BY <1>2, <1>4, <1>5, <1>6 DEF Ledger!Next

\* engine.ts:285-308: however the statements of the transactions interleave and
\* wherever one of them fails, the rows and the trades change as the ledger says:
\* a pair trades once, and a trade takes no more than the resting order has left.
THEOREM TransactionsImplementLedger == Spec => ImplementsLedger
<1>1. TxInv /\ [Next]_vars => [Ledger!Next]_<<row, trades>>
  <2> SUFFICES ASSUME TxInv, [Next]_vars PROVE [Ledger!Next]_<<row, trades>>
    OBVIOUS
  <2>1. CASE UNCHANGED vars
    BY <2>1 DEF vars
  <2>2. CASE Next
    BY <2>2, OnlyCommitWrites, CommitMatches
  <2> QED
    BY <2>1, <2>2
<1> QED
  BY <1>1, InitTx, InitLedger, StepKeepsTx, PTL DEF Spec, ImplementsLedger, Ledger!Spec

----------------------------------------------------------------------------
(* The accounts.                                                           *)

Pairs == Takers \X Makers
Shares(c, field) == [p \in Pairs |-> Share(p[1], p[2], c)[field]]

LEMMA SumIsOverPairs ==
  \A c, field : IsFiniteSet(Pairs) /\ Sum(c, field) = SumFunctionOnSet(Shares(c, field), Pairs)
<1>1. IsFiniteSet(Pairs)
  BY SetsAssumption, FS_Product DEF Pairs
<1>2. \A c, field : Sum(c, field) = SumFunction(Shares(c, field)) /\ DOMAIN Shares(c, field) = Pairs
  BY DEF Sum, Shares, Pairs
<1> QED
  BY <1>1, <1>2, SumIsOverDomain

\* What the trade of t and m puts on the account c, for a trade of size n.
SideOf(o, m, c, n) == IF <<Order[o].user, Order[o].side>> = c
                      THEN exposureDelta(Order[o].side, Order[m].price, n) ELSE Zero

LEMMA SideIsBalance ==
  ASSUME NEW o \in Makers \cup Takers, NEW m \in Makers, NEW c, NEW n \in Nat
  PROVE  SideOf(o, m, c, n) \in Balance /\ (n = 0 => SideOf(o, m, c, n) = Zero)
<1>1. Order[m].price \in Int
  BY PairFacts
<1> QED
  BY <1>1, DeltaIsBalance, ZeroIsBalance DEF SideOf

LEMMA ShareIs ==
  \A t, m, c : Share(t, m, c) = Plus(SideOf(t, m, c, trades[t][m]), SideOf(m, m, c, trades[t][m]))
BY DEF Share, SideOf

LEMMA ShareType ==
  ASSUME trades \in [Takers -> [Makers -> Nat]]
  PROVE  \A t \in Takers, m \in Makers : \A c : /\ Share(t, m, c) \in Balance
                                                /\ trades[t][m] = 0 => Share(t, m, c) = Zero
<1> SUFFICES ASSUME NEW t \in Takers, NEW m \in Makers, NEW c
             PROVE  Share(t, m, c) \in Balance /\ (trades[t][m] = 0 => Share(t, m, c) = Zero)
  OBVIOUS
<1>1. trades[t][m] \in Nat
  OBVIOUS
<1>2. Plus(Zero, Zero) = Zero
  BY DEF Plus, Zero
<1> QED
  BY <1>1, <1>2, ShareIs, SideIsBalance, PlusIsBalance

LEMMA SharesType ==
  ASSUME trades \in [Takers -> [Makers -> Nat]], NEW c, NEW field \in {"gross", "net"}
  PROVE  \A p \in Pairs : /\ Shares(c, field)[p] = Share(p[1], p[2], c)[field]
                          /\ Shares(c, field)[p] \in Int
                          /\ trades[p[1]][p[2]] = 0 => Shares(c, field)[p] = 0
<1>1. \A e \in Balance : e[field] \in Int
  BY DEF Balance
<1>2. Zero[field] = 0
  BY DEF Zero
<1> SUFFICES ASSUME NEW p \in Pairs
             PROVE  /\ Shares(c, field)[p] = Share(p[1], p[2], c)[field]
                    /\ Shares(c, field)[p] \in Int
                    /\ trades[p[1]][p[2]] = 0 => Shares(c, field)[p] = 0
  OBVIOUS
<1>3. Shares(c, field)[p] = Share(p[1], p[2], c)[field]
  BY DEF Shares
<1>4. p[1] \in Takers /\ p[2] \in Makers
  BY DEF Pairs
<1>5. Share(p[1], p[2], c) \in Balance /\ (trades[p[1]][p[2]] = 0 => Share(p[1], p[2], c) = Zero)
  BY <1>4, ShareType
<1> QED
  BY <1>1, <1>2, <1>3, <1>5

LEMMA InitAccounts == Init => \A c \in Accounts : AccountOK(c)
<1> SUFFICES ASSUME Init, NEW c \in Accounts PROVE AccountOK(c)
  OBVIOUS
<1>1. exposure[c] = None /\ journal[c] = <<>>
  BY DEF Init
<1>2. trades \in [Takers -> [Makers -> Nat]] /\ \A p \in Pairs : trades[p[1]][p[2]] = 0
  BY DEF Init, Pairs
<1>3. ASSUME NEW field \in {"gross", "net"} PROVE Sum(c, field) = 0
  <2>1. \A p \in Pairs : Shares(c, field)[p] = 0
    BY <1>2, SharesType
  <2> QED
    BY <2>1, SumIsOverPairs, SumOfZeros
<1>4. Value(c) = Zero /\ Zero.gross = 0 /\ Zero.net = 0
  BY <1>1 DEF Value, Zero
<1>5. Chain(<<>>)
  BY DEF Chain
<1> QED
  BY <1>1, <1>3, <1>4, <1>5 DEF AccountOK

\* A trade adds to the sum of an account what its two sides put on it.
LEMMA CommitAdds ==
  ASSUME TxInv, TxInv', NEW x \in Txs, Commit(x), NEW c \in Accounts, NEW field \in {"gross", "net"}
  PROVE  Sum(c, field)' = Sum(c, field)
           + (IF c = AccountOf(x, 1) THEN Delta(x, 1)[field]
              ELSE IF c = AccountOf(x, 2) THEN Delta(x, 2)[field] ELSE 0)
<1> DEFINE t == TakerOf[x]
           m == MakerOf[x]
           q == <<t, m>>
           f == Shares(c, field)
           g == Shares(c, field)'
<1>1. t \in Takers /\ m \in Makers /\ q \in Pairs /\ q[1] = t /\ q[2] = m
  BY PairFacts DEF Pairs
<1>2. trades \in [Takers -> [Makers -> Nat]] /\ trades' \in [Takers -> [Makers -> Nat]]
  BY DEF TxInv, TypeOK
<1>3. tx[x].state = "commit" /\ TxOK(x)
  BY DEF Commit, TxInv
<1>4. trades[t][m] = 0 /\ trades'[t][m] = tx[x].size
  BY <1>3, CommitEffects DEF TxOK, Updating
<1>5. \A p \in Pairs : /\ f[p] \in Int /\ (trades[p[1]][p[2]] = 0 => f[p] = 0)
                       /\ f[p] = Share(p[1], p[2], c)[field]
  BY <1>2, SharesType
<1>6. \A p \in Pairs : g[p] = (Share(p[1], p[2], c)[field])'
  BY DEF Shares, Pairs
<1>7. \A p \in Pairs : g[p] \in Int
  <2>1. \A tt \in Takers, mm \in Makers : Share(tt, mm, c)' \in Balance
    <3> SUFFICES ASSUME NEW tt \in Takers, NEW mm \in Makers PROVE Share(tt, mm, c)' \in Balance
      OBVIOUS
    <3>1. Share(tt, mm, c)' = Plus(SideOf(tt, mm, c, trades'[tt][mm]), SideOf(mm, mm, c, trades'[tt][mm]))
      BY DEF Share, SideOf, Plus, Zero, exposureDelta
    <3>2. trades'[tt][mm] \in Nat
      BY <1>2
    <3> QED
      BY <3>1, <3>2, SideIsBalance, PlusIsBalance
  <2>2. \A e \in Balance : e[field] \in Int
    BY DEF Balance
  <2> QED
    BY <1>6, <2>1, <2>2 DEF Pairs
<1>8. \A p \in Pairs \ {q} : g[p] = f[p]
  <2> SUFFICES ASSUME NEW p \in Pairs \ {q} PROVE g[p] = f[p]
    OBVIOUS
  <2>1. p[1] \in Takers /\ p[2] \in Makers /\ <<p[1], p[2]>> # <<t, m>>
    BY DEF Pairs
  <2>2. trades'[p[1]][p[2]] = trades[p[1]][p[2]]
    BY <2>1, CommitEffects
  <2>3. Share(p[1], p[2], c)' = Share(p[1], p[2], c)
    BY <2>2 DEF Share, Plus, Zero, exposureDelta
  <2> QED
    BY <1>5, <1>6, <2>3
<1>9. Share(t, m, c)' = Plus(SideOf(t, m, c, tx[x].size), SideOf(m, m, c, tx[x].size))
  BY <1>4 DEF Share, SideOf, Plus, Zero, exposureDelta
<1>10. /\ AccountOf(x, 1) = <<Order[t].user, Order[t].side>> /\ AccountOf(x, 2) = <<Order[m].user, Order[m].side>>
       /\ Delta(x, 1) = exposureDelta(Order[t].side, Order[m].price, tx[x].size)
       /\ Delta(x, 2) = exposureDelta(Order[m].side, Order[m].price, tx[x].size)
  BY DEF AccountOf, PartyOf, Delta
<1>11. AccountOf(x, 1) # AccountOf(x, 2) /\ Delta(x, 1) \in Balance /\ Delta(x, 2) \in Balance
  BY <1>3, PairFacts, PostingFacts
<1>12. /\ SideOf(t, m, c, tx[x].size) = IF c = AccountOf(x, 1) THEN Delta(x, 1) ELSE Zero
       /\ SideOf(m, m, c, tx[x].size) = IF c = AccountOf(x, 2) THEN Delta(x, 2) ELSE Zero
  BY <1>10 DEF SideOf
<1>13. \A e \in Balance : /\ Plus(e, Zero)[field] = e[field] /\ Plus(Zero, e)[field] = e[field]
                          /\ Plus(Zero, Zero)[field] = 0
  BY DEF Plus, Zero, Balance
<1>14. g[q] = IF c = AccountOf(x, 1) THEN Delta(x, 1)[field]
              ELSE IF c = AccountOf(x, 2) THEN Delta(x, 2)[field] ELSE 0
  <2>1. g[q] = Plus(SideOf(t, m, c, tx[x].size), SideOf(m, m, c, tx[x].size))[field]
    BY <1>1, <1>6, <1>9
  <2> QED
    BY <1>11, <1>12, <1>13, <2>1
<1>15. f[q] = 0
  BY <1>1, <1>4, <1>5
<1>16. Sum(c, field) = SumFunctionOnSet(f, Pairs) /\ Sum(c, field)' = SumFunctionOnSet(g, Pairs) /\ IsFiniteSet(Pairs)
  <2>1. Sum(c, field) = SumFunctionOnSet(f, Pairs) /\ IsFiniteSet(Pairs)
    BY SumIsOverPairs
  <2>2. Sum(c, field)' = SumFunction(g) /\ DOMAIN g = Pairs
    BY DEF Sum, Shares, Pairs
  <2> HIDE DEF g
  <2> QED
    BY <2>1, <2>2, SumIsOverDomain
<1>17. SumFunctionOnSet(g, Pairs) = SumFunctionOnSet(f, Pairs) - f[q] + g[q]
  <2> HIDE DEF f, g, q
  <2> QED
    BY <1>1, <1>5, <1>7, <1>8, <1>16, SumAfterChange
<1>18. SumFunctionOnSet(f, Pairs) \in Int
  BY <1>5, <1>16, SumIsInteger
<1>19. g[q] \in Int
  BY <1>1, <1>7
<1> HIDE DEF f, g, q
<1>20. SumFunctionOnSet(g, Pairs) = SumFunctionOnSet(f, Pairs) + g[q]
  BY <1>15, <1>17, <1>18, <1>19
<1> QED
  BY <1>14, <1>16, <1>20

\* A journal to which a row is added that starts where it ended.
LEMMA ChainGrows ==
  ASSUME NEW j \in Seq([prev : Balance, new : Balance]), Chain(j), NEW e \in [prev : Balance, new : Balance],
         e.prev = IF j = <<>> THEN Zero ELSE j[Len(j)].new
  PROVE  LET k == Append(j, e) IN Chain(k) /\ k # <<>> /\ k[Len(k)].new = e.new
<1> DEFINE k == Append(j, e)
<1>1. /\ k # <<>> /\ Len(k) = Len(j) + 1 /\ k[Len(j) + 1] = e /\ Len(j) \in Nat
      /\ \A i \in 1..Len(j) : k[i] = j[i]
  BY AppendProperties, LenProperties
<1>2. j = <<>> <=> Len(j) = 0
  BY EmptySeq
<1> HIDE DEF k
<1>3. ASSUME NEW i \in 1..Len(k) PROVE k[i].prev = IF i = 1 THEN Zero ELSE k[i - 1].new
  <2>1. CASE i \in 1..Len(j)
    <3>1. k[i] = j[i] /\ j[i].prev = IF i = 1 THEN Zero ELSE j[i - 1].new
      BY <1>1, <2>1 DEF Chain
    <3>2. i # 1 => i - 1 \in 1..Len(j)
      BY <1>1, <2>1
    <3> QED
      BY <1>1, <3>1, <3>2
  <2>2. CASE i = Len(j) + 1
    <3>1. k[i] = e /\ (i = 1 <=> j = <<>>)
      BY <1>1, <1>2, <2>2
    <3>2. i # 1 => k[i - 1] = j[Len(j)]
      <4>1. i # 1 => i - 1 = Len(j) /\ Len(j) \in 1..Len(j)
        BY <1>1, <2>2
      <4> QED
        BY <1>1, <4>1
    <3> QED
      BY <3>1, <3>2
  <2> QED
    BY <1>1, <2>1, <2>2
<1> QED
  BY <1>1, <1>3 DEF Chain, k

LEMMA CommitAccounts ==
  ASSUME TxInv, TxInv', NEW x \in Txs, Commit(x), NEW c \in Accounts, AccountOK(c)
  PROVE  AccountOK(c)'
<1>1. tx[x].state = "commit" /\ TypeOK
  BY DEF Commit, TxInv
<1>2. AccountOf(x, 1) # AccountOf(x, 2)
  BY PairFacts
<1>3. journal[c] \in Seq([prev : Balance, new : Balance])
  BY <1>1 DEF TypeOK
<1>4. Value(c) \in Balance /\ Value(c).gross \in Int /\ Value(c).net \in Int
  BY <1>1, ValueType DEF Balance
<1>5. ASSUME NEW i \in {1, 2}, c = AccountOf(x, i) PROVE AccountOK(c)'
  <2> DEFINE e == Posting(x, i)
             d == Delta(x, i)
  <2>1. /\ e \in [prev : Balance, new : Balance] /\ e.prev = Value(c)
        /\ e.new = Plus(Value(c), d) /\ e.new \in Balance /\ d \in Balance
    BY <1>1, <1>4, <1>5, PostingFacts
  <2>2. exposure'[c] = e.new /\ journal'[c] = Append(journal[c], e)
    BY <1>5, CommitEffects
  <2>3. Sum(c, "gross")' = Sum(c, "gross") + d.gross /\ Sum(c, "net")' = Sum(c, "net") + d.net
    <3>1. \A f \in {"gross", "net"} : Sum(c, f)' = Sum(c, f) + d[f]
      BY <1>2, <1>5, CommitAdds
    <3> HIDE DEF d
    <3> QED
      BY <3>1
  <2> HIDE DEF e, d
  <2>4. Value(c) = IF journal[c] = <<>> THEN Zero ELSE journal[c][Len(journal[c])].new
    <3>1. exposure[c] = IF journal[c] = <<>> THEN None ELSE journal[c][Len(journal[c])].new
      BY DEF AccountOK
    <3>2. CASE journal[c] = <<>>
      BY <3>1, <3>2 DEF Value
    <3>3. CASE journal[c] # <<>>
      <4>1. Len(journal[c]) \in 1..Len(journal[c])
        BY <1>3, <3>3, EmptySeq, LenProperties
      <4>2. journal[c][Len(journal[c])] \in [prev : Balance, new : Balance]
        BY <1>3, <4>1, ElementOfSeq
      <4>3. exposure[c] # None
        BY <3>1, <3>3, <4>2, SetsAssumption
      <4> QED
        BY <3>1, <3>3, <4>3 DEF Value
    <3> QED
      BY <3>2, <3>3
  <2>5. Chain(journal[c])
    BY DEF AccountOK
  <2>6. Chain(journal'[c]) /\ journal'[c] # <<>> /\ journal'[c][Len(journal'[c])].new = e.new
    BY <1>3, <2>1, <2>2, <2>4, <2>5, ChainGrows
  <2>7. Value(c)' = e.new
    BY <2>1, <2>2, SetsAssumption DEF Value
  <2>8. Value(c).gross = Sum(c, "gross") /\ Value(c).net = Sum(c, "net")
    BY DEF AccountOK
  <2>9. Value(c)'.gross = Value(c).gross + d.gross /\ Value(c)'.net = Value(c).net + d.net
    BY <2>1, <2>7 DEF Plus
  <2>10. Value(c)'.gross = Sum(c, "gross")' /\ Value(c)'.net = Sum(c, "net")'
    BY <2>3, <2>8, <2>9
  <2>11. Chain(journal[c])'
    BY <2>6 DEF Chain
  <2> QED
    BY <2>2, <2>6, <2>10, <2>11 DEF AccountOK
<1>6. CASE c # AccountOf(x, 1) /\ c # AccountOf(x, 2)
  <2>1. exposure'[c] = exposure[c] /\ journal'[c] = journal[c]
    BY <1>6, CommitEffects
  <2>2. Sum(c, "gross")' = Sum(c, "gross") + 0 /\ Sum(c, "net")' = Sum(c, "net") + 0
    BY <1>6, CommitAdds
  <2>3. Value(c)' = Value(c)
    BY <2>1 DEF Value
  <2>4. Value(c).gross = Sum(c, "gross") /\ Value(c).net = Sum(c, "net") /\ Chain(journal[c])
    BY DEF AccountOK
  <2>5. Value(c)'.gross = Sum(c, "gross")' /\ Value(c)'.net = Sum(c, "net")'
    BY <1>4, <2>2, <2>3, <2>4
  <2>6. Chain(journal[c])'
    BY <2>1, <2>4 DEF Chain
  <2> QED
    BY <2>1, <2>5, <2>6 DEF AccountOK
<1> QED
  BY <1>5, <1>6

\* engine.ts:406-467: atomicUpdateExposure reads an account, adds to it and writes
\* it back in different statements, for two accounts per trade, while any number
\* of other transactions do the same: no trade is lost from an account or counted
\* twice, and the journal of each account is a chain that ends at its row.
THEOREM ExposureAddsUp == Spec => []ExposureIsSumOfTrades
<1> DEFINE Inv == TxInv /\ \A c \in Accounts : AccountOK(c)
<1>1. Init => Inv
  BY InitTx, InitAccounts
<1>2. Inv /\ [Next]_vars => Inv'
  <2> SUFFICES ASSUME Inv, [Next]_vars PROVE Inv'
    OBVIOUS
  <2>1. TxInv'
    BY StepKeepsTx
  <2>2. ASSUME NEW c \in Accounts PROVE AccountOK(c)'
    <3>1. CASE UNCHANGED <<row, trades, exposure, journal>>
      <4>1. Sum(c, "gross")' = Sum(c, "gross") /\ Sum(c, "net")' = Sum(c, "net")
        BY <3>1 DEF Sum, Share, Plus, Zero, exposureDelta
      <4>2. Value(c)' = Value(c) /\ exposure'[c] = exposure[c] /\ journal'[c] = journal[c]
        BY <3>1 DEF Value
      <4>3. AccountOK(c)
        OBVIOUS
      <4>4. Chain(journal[c])' <=> Chain(journal[c])
        BY <4>2 DEF Chain
      <4> QED
        BY <4>1, <4>2, <4>3, <4>4 DEF AccountOK
    <3>2. CASE \E x \in Txs : Commit(x)
      BY <2>1, <3>2, CommitAccounts
    <3> QED
      BY <3>1, <3>2, OnlyCommitWrites DEF vars
  <2> QED
    BY <2>1, <2>2
<1>3. Inv => ExposureIsSumOfTrades
  BY DEF TxInv, AccountOK, ExposureIsSumOfTrades, Value
<1> QED
  BY <1>1, <1>2, <1>3, PTL DEF Spec

----------------------------------------------------------------------------
(* The Redis book (OrderBook), which the transactions' callers read and    *)
(* write command by command.                                               *)

\* The places at which a command is about the order in `cur`; those of an attempt
\* that only a loop over rows has, and the other way round; and those at which an
\* order is on its way out of the book.
AboutOne == {"removeGet", "zrem", "del", "zadd", "set", "updateGet", "updateSet", "drop"}
OnlyLoops == {"loop", "zadd", "set"}
OnlyAttempts == {"read", "drop", "match"}
Leaving == {"removeGet", "zrem", "del", "drop"}

JobType(c) ==
  [at : Places,
   todo : SUBSET (IF c \in Attempts THEN Resting ELSE Resting \X Nat),
   found : SUBSET Resting, cur : Resting \cup {0}, val : Nat]

JobFits(c, j) ==
  /\ j \in JobType(c)
  /\ j.at \in AboutOne => j.cur \in Resting
  /\ c \in Attempts => j.at \notin OnlyLoops
  /\ c \notin Attempts => j.at \notin OnlyAttempts
  /\ c \notin scene.clients => j.at = "idle"

JobsFit ==
  /\ job = [c \in Clients |-> job[c]]
  /\ \A c \in Clients : JobFits(c, job[c])

BookFits ==
  /\ scene \in Scenes
  /\ remaining \in [Resting -> Nat]
  /\ member \subseteq Resting
  /\ key \in [Resting -> Nat \cup {NoKey}]
  /\ faults \in 0..MaxFaults

Undisturbed == scene.clients \subseteq Attempts /\ ~scene.expiring

\* What is open is in the book, and what is on its way out is closed.
OpenIsThere == \A m \in Resting : remaining[m] > 0 => m \in member /\ key[m] # NoKey
LeavingIsClosed == \A c \in Attempts : job[c].at \in Leaving => remaining[job[c].cur] = 0

BookInv == BookFits /\ JobsFit /\ (Undisturbed => OpenIsThere /\ LeavingIsClosed)

LEMMA BookInvIsOpen == BookInv => OpenOrdersStay
BY DEF BookInv, BookFits, JobsFit, JobFits, JobType, Undisturbed, OpenIsThere,
       OpenOrdersStay, BookTypeOK

LEMMA InitBook == ASSUME ConstantsFit, BookInit PROVE BookInv
<1>1. scene \in SceneType /\ scene \in Scenes
  BY DEF BookInit, ConstantsFit
<1>2. BookFits
  BY <1>1 DEF BookFits, BookInit, ConstantsFit, SceneType
<1>3. JobsFit
  <2>1. \A c \in Clients : JobFits(c, Idle)
    BY DEF JobFits, JobType, Idle, Places, AboutOne, OnlyLoops, OnlyAttempts
  <2> QED
    BY <2>1 DEF JobsFit, BookInit
<1>4. OpenIsThere
  BY <1>1 DEF OpenIsThere, BookInit, ConstantsFit, SceneType
<1>5. LeavingIsClosed
  BY DEF LeavingIsClosed, BookInit, Idle, Leaving, Clients
<1> QED
  BY <1>2, <1>3, <1>4, <1>5 DEF BookInv

\* A step of client c: its job becomes j, the rows only shrink, and what is open stays.
Moves(c, j) ==
  /\ job' = [job EXCEPT ![c] = j] /\ JobFits(c, j)
  /\ UNCHANGED scene /\ BookFits'

LEMMA MovedJobs ==
  ASSUME BookInv, NEW c \in Clients, NEW j, Moves(c, j)
  PROVE  JobsFit' /\ job'[c] = j /\ \A b \in Clients \ {c} : job'[b] = job[b]
<1>1. job'[c] = j /\ \A b \in Clients \ {c} : job'[b] = job[b]
  BY DEF BookInv, JobsFit, Moves
<1>2. job' = [b \in Clients |-> job'[b]]
  BY DEF BookInv, JobsFit, Moves
<1>3. ASSUME NEW b \in Clients PROVE JobFits(b, job[b])'
  <2>1. JobFits(b, job'[b])
    BY <1>1 DEF BookInv, JobsFit, Moves
  <2> QED
    BY <2>1 DEF JobFits, JobType, Moves
<1> QED
  BY <1>1, <1>2, <1>3 DEF JobsFit

\* That is enough, when nothing disturbs the book, if the step leaves open orders in
\* it and sends no open order on its way out.
LEMMA MoveKeeps ==
  ASSUME BookInv, NEW c \in Clients, NEW j, Moves(c, j),
         \A m \in Resting : remaining'[m] \in Nat /\ (remaining[m] = 0 => remaining'[m] = 0),
         Undisturbed /\ c \in Attempts /\ OpenIsThere /\ LeavingIsClosed =>
           OpenIsThere' /\ (j.at \in Leaving => remaining'[j.cur] = 0),
         Undisturbed => c \in Attempts
  PROVE  BookInv'
<1>1. JobsFit' /\ job'[c] = j /\ \A b \in Clients \ {c} : job'[b] = job[b]
  BY MovedJobs
<1>2. BookFits' /\ Undisturbed' = Undisturbed
  BY DEF Moves, Undisturbed
<1>3. ASSUME Undisturbed PROVE OpenIsThere' /\ LeavingIsClosed'
  <2>1. OpenIsThere' /\ (j.at \in Leaving => remaining'[j.cur] = 0) /\ LeavingIsClosed /\ c \in Attempts
    BY <1>3 DEF BookInv
  <2>2. ASSUME NEW b \in Attempts, job'[b].at \in Leaving PROVE remaining'[job'[b].cur] = 0
    <3>1. CASE b = c
      BY <1>1, <2>1, <2>2, <3>1
    <3>2. CASE b # c
      <4>1. b \in Clients /\ job'[b] = job[b]
        BY <1>1, <3>2 DEF Clients
      <4>2. job[b].cur \in Resting /\ remaining[job[b].cur] = 0
        BY <2>1, <2>2, <4>1 DEF BookInv, JobsFit, JobFits, AboutOne, Leaving, LeavingIsClosed
      <4> QED
        BY <4>1, <4>2
    <3> QED
      BY <3>1, <3>2
  <2> QED
    BY <2>1, <2>2 DEF LeavingIsClosed
<1> QED
  BY <1>1, <1>2, <1>3 DEF BookInv

LEMMA IsAtWork ==
  ASSUME BookInv, NEW c \in Clients, job[c].at # "idle"
  PROVE  c \in scene.clients /\ (Undisturbed => c \in Attempts)
BY DEF BookInv, JobsFit, JobFits, Undisturbed

\* A client at work goes on with the order it has in hand and no other rows.
Onwards(c, place) ==
  /\ Goto(c, place) /\ place \in Places /\ job[c].at # "idle"
  /\ place \in AboutOne => job[c].at \in AboutOne
  /\ c \in Attempts => place \notin OnlyLoops
  /\ c \notin Attempts => place \notin OnlyAttempts
  /\ c \in Attempts /\ place \in Leaving => job[c].at \in Leaving
  /\ UNCHANGED <<scene, remaining>> /\ BookFits'

LEMMA OnwardsKeeps ==
  ASSUME BookInv, NEW c \in Clients, NEW place, Onwards(c, place),
         Undisturbed /\ c \in Attempts /\ OpenIsThere /\ LeavingIsClosed => OpenIsThere'
  PROVE  BookInv'
<1> DEFINE j == [job[c] EXCEPT !.at = place]
<1>1. JobFits(c, job[c]) /\ c \in scene.clients /\ (Undisturbed => c \in Attempts)
  BY IsAtWork DEF BookInv, JobsFit, Onwards
<1>2. j \in JobType(c) /\ j.at = place /\ j.cur = job[c].cur
  BY <1>1 DEF JobFits, JobType, Onwards
<1>3. job' = [job EXCEPT ![c] = j]
  BY DEF Onwards, Goto, Move
<1> HIDE DEF j
<1>4. JobFits(c, j)
  BY <1>1, <1>2 DEF JobFits, Onwards
<1>5. Moves(c, j)
  BY <1>3, <1>4 DEF Moves, Onwards
<1>6. Undisturbed /\ c \in Attempts /\ OpenIsThere /\ LeavingIsClosed =>
        OpenIsThere' /\ (j.at \in Leaving => remaining'[j.cur] = 0)
  BY <1>2 DEF Onwards, LeavingIsClosed
<1>7. \A m \in Resting : remaining'[m] \in Nat /\ (remaining[m] = 0 => remaining'[m] = 0)
  BY DEF Onwards, BookInv, BookFits
<1> QED
  BY <1>1, <1>5, <1>6, <1>7, MoveKeeps

\* The places that a client goes back to.
LEMMA LoopPlace ==
  ASSUME ConstantsFit, NEW c \in Clients
  PROVE  LET p == LoopOf(c) IN
         /\ p \in Places /\ p \notin AboutOne /\ p \notin Leaving
         /\ c \in Attempts => p \notin OnlyLoops
         /\ c \notin Attempts => p \notin OnlyAttempts
BY DEF LoopOf, Places, AboutOne, Leaving, OnlyLoops, OnlyAttempts

LEMMA AfterRemovePlace ==
  ASSUME ConstantsFit, NEW c \in Clients
  PROVE  LET p == AfterRemove(c) IN
         /\ p \in Places /\ p \notin Leaving
         /\ c \in Attempts => p \notin OnlyLoops
         /\ c \notin Attempts => p \notin OnlyAttempts
BY LoopPlace DEF AfterRemove, ConstantsFit, Places, AboutOne, Leaving, OnlyLoops, OnlyAttempts

LEMMA CurIsOrder ==
  ASSUME BookInv, NEW c \in Clients, job[c].at \in AboutOne
  PROVE  Cur(c) \in Resting /\ Cur(c) = job[c].cur /\ job[c].val \in Nat
BY DEF BookInv, JobsFit, JobFits, JobType, Cur

LEMMA CommandKeeps ==
  ASSUME ConstantsFit, BookInv, NEW c \in Clients, Command(c), UNCHANGED scene
  PROVE  BookInv'
<1> DEFINE Again == LoopOf(c)
           After == AfterRemove(c)
<1>1. /\ Again \in Places /\ Again \notin AboutOne /\ Again \notin Leaving
      /\ c \in Attempts => Again \notin OnlyLoops
      /\ c \notin Attempts => Again \notin OnlyAttempts
  BY LoopPlace
<1>2. /\ After \in Places /\ After \notin Leaving
      /\ c \in Attempts => After \notin OnlyLoops
      /\ c \notin Attempts => After \notin OnlyAttempts
  BY AfterRemovePlace
<1>3. {"zrem", "del", "set", "updateSet"} \subseteq Places
  BY DEF Places
<1>4. job[c].at \in AboutOne => Cur(c) \in Resting /\ Cur(c) = job[c].cur /\ job[c].val \in Nat
  BY CurIsOrder
<1>5. JobFits(c, job[c])
  BY DEF BookInv, JobsFit
<1>6. BookFits
  BY DEF BookInv
<1> HIDE DEF Again, After
<1>7. CASE RemoveGet(c)
  <2>1. /\ job[c].at = "removeGet" /\ (Goto(c, After) \/ Goto(c, "zrem"))
        /\ UNCHANGED <<scene, remaining, member, key, faults>>
    BY <1>7 DEF RemoveGet, At, After
  <2>2. BookFits' /\ (OpenIsThere => OpenIsThere')
    BY <1>6, <2>1 DEF BookFits, OpenIsThere
  <2>3. Onwards(c, After) \/ Onwards(c, "zrem")
    BY <1>2, <1>3, <2>1, <2>2 DEF Onwards, AboutOne, OnlyLoops, OnlyAttempts, Leaving
  <2> QED
    BY <2>2, <2>3, OnwardsKeeps
<1>8. CASE RemoveMember(c)
  <2>1. /\ job[c].at = "zrem" /\ Goto(c, "del") /\ member' = member \ {job[c].cur}
        /\ UNCHANGED <<scene, remaining, key, faults>>
    BY <1>4, <1>8 DEF RemoveMember, At, AboutOne
  <2>2. BookFits'
    BY <1>6, <2>1 DEF BookFits
  <2>3. Onwards(c, "del")
    BY <1>3, <2>1, <2>2 DEF Onwards, AboutOne, OnlyLoops, OnlyAttempts, Leaving
  <2>4. c \in Attempts /\ OpenIsThere /\ LeavingIsClosed => OpenIsThere'
    BY <1>6, <2>1 DEF OpenIsThere, LeavingIsClosed, Leaving, BookFits
  <2> QED
    BY <2>3, <2>4, OnwardsKeeps
<1>9. CASE RemoveKey(c)
  <2>1. /\ job[c].at = "del" /\ Goto(c, After) /\ key' = [key EXCEPT ![job[c].cur] = NoKey]
        /\ UNCHANGED <<scene, remaining, member, faults>>
    BY <1>4, <1>9 DEF RemoveKey, At, AboutOne, After
  <2>2. BookFits'
    BY <1>6, <2>1 DEF BookFits
  <2>3. Onwards(c, After)
    BY <1>2, <2>1, <2>2 DEF Onwards, AboutOne, OnlyLoops, OnlyAttempts, Leaving
  <2>4. c \in Attempts /\ OpenIsThere /\ LeavingIsClosed => OpenIsThere'
    BY <1>6, <2>1 DEF OpenIsThere, LeavingIsClosed, Leaving, BookFits
  <2> QED
    BY <2>3, <2>4, OnwardsKeeps
<1>10. CASE AddMember(c)
  <2>1. /\ job[c].at = "zadd" /\ Goto(c, "set") /\ member' = member \cup {job[c].cur}
        /\ UNCHANGED <<scene, remaining, key, faults>> /\ job[c].cur \in Resting
    BY <1>4, <1>10 DEF AddMember, At, AboutOne
  <2>2. BookFits' /\ (OpenIsThere => OpenIsThere')
    BY <1>6, <2>1 DEF BookFits, OpenIsThere
  <2>3. Onwards(c, "set")
    BY <1>3, <1>5, <2>1, <2>2 DEF Onwards, JobFits, AboutOne, OnlyLoops, OnlyAttempts, Leaving
  <2> QED
    BY <2>2, <2>3, OnwardsKeeps
<1>11. CASE AddKey(c) \/ UpdateSet(c)
  <2>1. /\ job[c].at \in {"set", "updateSet"} /\ Goto(c, Again)
        /\ key' = [key EXCEPT ![job[c].cur] = job[c].val] /\ job[c].val \in Nat
        /\ UNCHANGED <<scene, remaining, member, faults>>
    BY <1>4, <1>11 DEF AddKey, UpdateSet, At, AboutOne, Again
  <2>2. BookFits' /\ (OpenIsThere => OpenIsThere')
    BY <1>6, <2>1 DEF BookFits, OpenIsThere, ConstantsFit
  <2>3. Onwards(c, Again)
    BY <1>1, <2>1, <2>2 DEF Onwards
  <2> QED
    BY <2>2, <2>3, OnwardsKeeps
<1>12. CASE UpdateGet(c)
  <2>1. /\ job[c].at = "updateGet" /\ (Goto(c, Again) \/ Goto(c, "updateSet"))
        /\ UNCHANGED <<scene, remaining, member, key, faults>>
    BY <1>12 DEF UpdateGet, At, Again
  <2>2. BookFits' /\ (OpenIsThere => OpenIsThere')
    BY <1>6, <2>1 DEF BookFits, OpenIsThere
  <2>3. Onwards(c, Again) \/ Onwards(c, "updateSet")
    BY <1>1, <1>3, <2>1, <2>2 DEF Onwards, AboutOne, OnlyLoops, OnlyAttempts, Leaving
  <2> QED
    BY <2>2, <2>3, OnwardsKeeps
<1> QED
  BY <1>7, <1>8, <1>9, <1>10, <1>11, <1>12 DEF Command

\* A client looks for its next order: only its job changes.
LEMMA LookKeeps ==
  ASSUME BookInv, NEW c \in Clients, NEW j,
         job' = [job EXCEPT ![c] = j], JobFits(c, j),
         UNCHANGED <<scene, remaining, member, key, faults>>,
         Undisturbed => c \in Attempts,
         Undisturbed /\ c \in Attempts /\ OpenIsThere /\ j.at \in Leaving => remaining[j.cur] = 0
  PROVE  BookInv'
<1>1. BookFits' /\ (OpenIsThere => OpenIsThere')
  BY DEF BookInv, BookFits, OpenIsThere
<1>2. Moves(c, j)
  BY <1>1 DEF Moves
<1>3. \A m \in Resting : remaining'[m] \in Nat /\ (remaining[m] = 0 => remaining'[m] = 0)
  BY DEF BookInv, BookFits
<1> QED
  BY <1>1, <1>2, <1>3, MoveKeeps

LEMMA ReadMembersKeeps ==
  ASSUME BookInv, NEW c \in Clients, ReadMembers(c), UNCHANGED scene
  PROVE  BookInv'
<1> DEFINE j == [Idle EXCEPT !.at = "read", !.todo = member]
<1>1. /\ c \in Attempts /\ c \in scene.clients /\ job' = [job EXCEPT ![c] = j]
      /\ UNCHANGED <<scene, remaining, member, key, faults>>
  BY DEF ReadMembers, Move
<1>2. j \in JobType(c) /\ j.at = "read"
  BY <1>1 DEF JobType, Idle, Places, BookInv, BookFits
<1> HIDE DEF j
<1>3. JobFits(c, j)
  BY <1>1, <1>2 DEF JobFits, AboutOne, OnlyLoops, OnlyAttempts
<1> QED
  BY <1>1, <1>2, <1>3, LookKeeps DEF Leaving

\* An attempt drops a member for want of a key, and an open order has one.
LEMMA ReadKeyKeeps ==
  ASSUME BookInv, NEW c \in Clients, ReadKey(c), UNCHANGED scene
  PROVE  BookInv'
<1>1. /\ job[c].at = "read" /\ JobFits(c, job[c]) /\ BookFits
      /\ UNCHANGED <<scene, remaining, member, key, faults>>
  BY DEF ReadKey, At, BookInv, JobsFit
<1>2. c \in Attempts /\ c \in scene.clients /\ job[c] \in JobType(c)
  BY <1>1 DEF JobFits, OnlyAttempts
<1>3. PICK m \in job[c].todo :
        LET left == [job[c] EXCEPT !.todo = @ \ {m}]
        IN  job' = [job EXCEPT ![c] = IF key[m] = NoKey THEN [left EXCEPT !.at = "drop", !.cur = m]
                                      ELSE [left EXCEPT !.found = @ \cup {m}]]
  BY DEF ReadKey, Move
<1>4. m \in Resting
  BY <1>2 DEF JobType
<1> DEFINE j == [job[c] EXCEPT !.todo = @ \ {m}, !.at = "drop", !.cur = m]
           k == [job[c] EXCEPT !.todo = @ \ {m}, !.found = @ \cup {m}]
<1>5. CASE key[m] = NoKey
  <2>1. job' = [job EXCEPT ![c] = j]
    BY <1>3, <1>5
  <2>2. j \in JobType(c) /\ j.at = "drop" /\ j.cur = m
    BY <1>2, <1>4 DEF JobType, Places
  <2> HIDE DEF j
  <2>3. JobFits(c, j)
    BY <1>2, <1>4, <2>2 DEF JobFits, AboutOne, OnlyLoops, OnlyAttempts
  <2>4. OpenIsThere => remaining[m] = 0
    BY <1>1, <1>4, <1>5 DEF OpenIsThere, BookFits
  <2> QED
    BY <1>1, <1>2, <2>1, <2>2, <2>3, <2>4, LookKeeps
<1>6. CASE key[m] # NoKey
  <2>1. job' = [job EXCEPT ![c] = k]
    BY <1>3, <1>6
  <2>2. k \in JobType(c) /\ k.at = "read"
    BY <1>1, <1>2, <1>4 DEF JobType
  <2> HIDE DEF k
  <2>3. JobFits(c, k)
    BY <1>2, <2>2 DEF JobFits, AboutOne, OnlyLoops, OnlyAttempts
  <2> QED
    BY <1>1, <1>2, <2>1, <2>2, <2>3, LookKeeps DEF Leaving
<1> QED
  BY <1>5, <1>6

LEMMA DropKeeps ==
  ASSUME BookInv, NEW c \in Clients, DropMember(c) \/ ReadDone(c), UNCHANGED scene
  PROVE  BookInv'
<1>1. JobFits(c, job[c]) /\ BookFits
  BY DEF BookInv, JobsFit
<1>2. {"read", "match"} \subseteq Places
  BY DEF Places
<1>3. CASE DropMember(c)
  <2>1. /\ job[c].at = "drop" /\ Goto(c, "read") /\ member' = member \ {job[c].cur}
        /\ UNCHANGED <<scene, remaining, key, faults>>
    BY <1>3 DEF DropMember, At, Cur
  <2>2. BookFits'
    BY <1>1, <2>1 DEF BookFits
  <2>3. Onwards(c, "read")
    BY <1>1, <1>2, <2>1, <2>2 DEF Onwards, JobFits, AboutOne, OnlyLoops, OnlyAttempts, Leaving
  <2>4. c \in Attempts /\ OpenIsThere /\ LeavingIsClosed => OpenIsThere'
    BY <1>1, <2>1 DEF OpenIsThere, LeavingIsClosed, Leaving, BookFits
  <2> QED
    BY <2>3, <2>4, OnwardsKeeps
<1>4. CASE ReadDone(c)
  <2>1. /\ job[c].at = "read" /\ Goto(c, "match")
        /\ UNCHANGED <<scene, remaining, member, key, faults>>
    BY <1>4 DEF ReadDone, At
  <2>2. BookFits' /\ (OpenIsThere => OpenIsThere')
    BY <1>1, <2>1 DEF BookFits, OpenIsThere
  <2>3. Onwards(c, "match")
    BY <1>1, <1>2, <2>1, <2>2 DEF Onwards, JobFits, AboutOne, OnlyLoops, OnlyAttempts, Leaving
  <2> QED
    BY <2>2, <2>3, OnwardsKeeps
<1> QED
  BY <1>3, <1>4

\* An attempt takes an order in hand; it is removed only if it is closed by then.
LEMMA HandleKeeps ==
  ASSUME BookInv, NEW c \in Clients, NEW m \in Resting, NEW place, NEW val \in Nat,
         Candidate(c, m), Handle(c, m, place, val),
         place \in {"removeGet", "updateGet"}, place = "removeGet" => remaining'[m] = 0,
         remaining' \in [Resting -> Nat], \A e \in Resting : remaining'[e] <= remaining[e],
         UNCHANGED <<scene, member, key, faults>>
  PROVE  BookInv'
<1> DEFINE j == [job[c] EXCEPT !.at = place, !.cur = m, !.val = val, !.found = @ \ {m}]
<1>1. JobFits(c, job[c]) /\ BookFits /\ job[c].at = "match"
  BY DEF BookInv, JobsFit, Candidate, At
<1>2. c \in Attempts /\ c \in scene.clients /\ job[c] \in JobType(c)
  BY <1>1 DEF JobFits, OnlyAttempts
<1>3. job' = [job EXCEPT ![c] = j]
  BY DEF Handle, Move
<1>4. j \in JobType(c) /\ j.at = place /\ j.cur = m
  BY <1>2 DEF JobType, Places
<1> HIDE DEF j
<1>5. JobFits(c, j)
  BY <1>2, <1>4 DEF JobFits, OnlyLoops
<1>6. BookFits'
  BY <1>1 DEF BookFits
<1>7. \A e \in Resting : remaining'[e] \in Nat /\ (remaining[e] = 0 => remaining'[e] = 0) /\ (remaining'[e] > 0 => remaining[e] > 0)
  BY <1>1 DEF BookFits
<1>8. OpenIsThere => OpenIsThere'
  BY <1>7 DEF OpenIsThere
<1>9. Moves(c, j)
  BY <1>3, <1>5, <1>6 DEF Moves
<1>10. j.at \in Leaving => remaining'[j.cur] = 0
  BY <1>4 DEF Leaving
<1> QED
  BY <1>2, <1>7, <1>8, <1>9, <1>10, MoveKeeps

LEMMA MatchKeeps ==
  ASSUME BookInv, NEW c \in Clients, NEW m \in Resting,
         Trade(c, m) \/ Replay(c, m) \/ Stale(c, m), UNCHANGED scene
  PROVE  BookInv'
<1>1. BookFits /\ remaining[m] \in Nat
  BY DEF BookInv, BookFits
<1>2. CASE Trade(c, m)
  <2>1. PICK q \in 1..remaining[m] :
          /\ remaining' = [remaining EXCEPT ![m] = @ - q]
          /\ Handle(c, m, IF remaining[m] = q THEN "removeGet" ELSE "updateGet", remaining[m] - q)
    BY <1>2 DEF Trade
  <2> DEFINE place == IF remaining[m] = q THEN "removeGet" ELSE "updateGet"
  <2>2. place \in {"removeGet", "updateGet"} /\ remaining[m] - q \in Nat
    BY <1>1
  <2>3. /\ remaining' \in [Resting -> Nat] /\ \A e \in Resting : remaining'[e] <= remaining[e]
        /\ place = "removeGet" => remaining'[m] = 0
    BY <1>1, <2>1, <2>2 DEF BookFits
  <2>4. Candidate(c, m) /\ UNCHANGED <<member, key, faults>>
    BY <1>2 DEF Trade, bookVars
  <2>5. Handle(c, m, place, remaining[m] - q)
    BY <2>1
  <2> HIDE DEF place
  <2> QED
    BY <2>2, <2>3, <2>4, <2>5, HandleKeeps
<1>3. CASE Replay(c, m)
  <2>1. /\ Candidate(c, m) /\ Handle(c, m, "updateGet", remaining[m])
        /\ UNCHANGED <<remaining, member, key, faults>>
    BY <1>3 DEF Replay, bookVars
  <2>2. remaining' \in [Resting -> Nat] /\ \A e \in Resting : remaining'[e] <= remaining[e]
    BY <1>1, <2>1 DEF BookFits
  <2> QED
    BY <1>1, <2>1, <2>2, HandleKeeps
<1>4. CASE Stale(c, m)
  <2>1. /\ Candidate(c, m) /\ Handle(c, m, "removeGet", 0) /\ remaining[m] = 0
        /\ UNCHANGED <<remaining, member, key, faults>>
    BY <1>4 DEF Stale, bookVars
  <2>2. remaining' \in [Resting -> Nat] /\ \A e \in Resting : remaining'[e] <= remaining[e]
    BY <1>1, <2>1 DEF BookFits
  <2> QED
    BY <2>1, <2>2, HandleKeeps
<1> QED
  BY <1>2, <1>3, <1>4

\* A client that has nothing left to do.
LEMMA DoneKeeps ==
  ASSUME BookInv, NEW c \in Clients, job' = [job EXCEPT ![c] = Idle],
         UNCHANGED <<scene, remaining, member, key>>, faults' \in 0..MaxFaults,
         job[c].at # "idle"
  PROVE  BookInv'
<1>1. JobFits(c, Idle) /\ Idle.at \notin Leaving
  BY DEF JobFits, JobType, Idle, Places, AboutOne, OnlyLoops, OnlyAttempts, Leaving
<1>2. BookFits' /\ (OpenIsThere => OpenIsThere')
  BY DEF BookInv, BookFits, OpenIsThere
<1>3. Moves(c, Idle)
  BY <1>1, <1>2 DEF Moves
<1>4. \A m \in Resting : remaining'[m] \in Nat /\ (remaining[m] = 0 => remaining'[m] = 0)
  BY DEF BookInv, BookFits
<1> QED
  BY <1>1, <1>2, <1>3, <1>4, IsAtWork, MoveKeeps

\* The rebuild and the job load rows, and visit them.
LEMMA LoadKeeps ==
  ASSUME ConstantsFit, BookInv, NEW c \in Clients, UNCHANGED scene,
         loadAuthoritativeOrders(c) \/ LoadPages(c)
  PROVE  BookInv'
<1>1. c \notin Attempts /\ c \in scene.clients
  BY DEF loadAuthoritativeOrders, LoadPages, ConstantsFit
<1>2. PICK rows \in SUBSET Resting : Load(c, rows)
  BY DEF loadAuthoritativeOrders, LoadPages
<1> DEFINE T == {<<m, remaining[m]>> : m \in rows}
           j == [Idle EXCEPT !.at = "loop", !.todo = T]
<1>3. T \subseteq Resting \X Nat
  BY DEF BookInv, BookFits
<1>4. job' = [job EXCEPT ![c] = j] /\ UNCHANGED <<scene, remaining, member, key, faults>>
  BY <1>2 DEF Load, Move, bookVars
<1> HIDE DEF T
<1>5. j \in JobType(c) /\ j.at = "loop"
  BY <1>1, <1>3 DEF JobType, Idle, Places
<1> HIDE DEF j
<1>6. JobFits(c, j)
  BY <1>1, <1>5 DEF JobFits, AboutOne, OnlyAttempts
<1>7. ~Undisturbed
  BY <1>1 DEF Undisturbed
<1> QED
  BY <1>4, <1>6, <1>7, LookKeeps

LEMMA VisitKeeps ==
  ASSUME ConstantsFit, BookInv, NEW c \in Clients, UNCHANGED scene,
         RebuildOrder(c) \/ ReconcileOrder(c)
  PROVE  BookInv'
<1>1. PICK p \in job[c].todo, place \in {"removeGet", "zadd", "loop"} : Visit(c, p, place)
  <2>1. CASE RebuildOrder(c)
    BY <2>1 DEF RebuildOrder
  <2>2. CASE ReconcileOrder(c)
    <3>1. PICK p \in job[c].todo :
            Visit(c, p, CASE Missing(p) -> "zadd" [] Orphaned(p) -> "removeGet"
                               [] OTHER -> "loop")
      BY <2>2 DEF ReconcileOrder
    <3> DEFINE place == CASE Missing(p) -> "zadd" [] Orphaned(p) -> "removeGet"
                          [] OTHER -> "loop"
    <3>2. place \in {"removeGet", "zadd", "loop"}
      OBVIOUS
    <3>3. Visit(c, p, place)
      BY <3>1
    <3> HIDE DEF place
    <3> QED
      BY <3>2, <3>3
  <2> QED
    BY <2>1, <2>2
<1>2. JobFits(c, job[c]) /\ job[c].at = "loop" /\ UNCHANGED <<scene, remaining, member, key, faults>>
  BY <1>1 DEF BookInv, JobsFit, Visit, At, bookVars
<1>3. c \notin Attempts /\ c \in scene.clients /\ job[c] \in JobType(c)
  BY <1>2 DEF JobFits, OnlyLoops
<1>4. p[1] \in Resting /\ p[2] \in Nat
  BY <1>3 DEF JobType
<1> DEFINE j == [job[c] EXCEPT !.todo = @ \ {p}, !.cur = p[1], !.val = p[2], !.at = place]
<1>5. job' = [job EXCEPT ![c] = j]
  BY <1>1 DEF Visit, Move
<1>6. j \in JobType(c) /\ j.at = place /\ j.cur = p[1]
  BY <1>3, <1>4 DEF JobType, Places
<1> HIDE DEF j
<1>7. JobFits(c, j)
  BY <1>3, <1>4, <1>6 DEF JobFits, OnlyAttempts
<1>8. ~Undisturbed
  BY <1>3 DEF Undisturbed
<1> QED
  BY <1>2, <1>5, <1>7, <1>8, LookKeeps

\* A failed command leaves the operation half done and the attempt at its loop.
LEMMA FailureKeeps ==
  ASSUME ConstantsFit, BookInv, NEW c \in Clients, UNCHANGED scene,
         Swallowed(c) \/ Stop(c)
  PROVE  BookInv'
<1>1. BookFits /\ faults' \in 0..MaxFaults /\ UNCHANGED <<scene, remaining, member, key>>
  BY DEF Swallowed, Stop, Fault, bookVars, BookInv, BookFits, ConstantsFit
<1>2. BookFits' /\ (OpenIsThere => OpenIsThere')
  BY <1>1 DEF BookFits, OpenIsThere
<1>3. CASE Swallowed(c)
  <2> DEFINE place == IF job[c].at \in {"removeGet", "zrem", "del"} THEN AfterRemove(c)
                      ELSE LoopOf(c)
  <2>1. /\ job[c].at \in {"removeGet", "zrem", "del", "updateGet", "updateSet"}
        /\ Goto(c, place)
    BY <1>3 DEF Swallowed
  <2>2. /\ place \in Places /\ place \notin Leaving
        /\ c \in Attempts => place \notin OnlyLoops
        /\ c \notin Attempts => place \notin OnlyAttempts
    BY LoopPlace, AfterRemovePlace
  <2> HIDE DEF place
  <2>3. Onwards(c, place)
    BY <1>1, <1>2, <2>1, <2>2 DEF Onwards, AboutOne
  <2> QED
    BY <1>2, <2>3, OnwardsKeeps
<1>4. CASE Stop(c)
  BY <1>1, <1>4, DoneKeeps DEF Stop, At, Move
<1> QED
  BY <1>3, <1>4

LEMMA KeyExpiresKeeps ==
  ASSUME ConstantsFit, BookInv, NEW m \in Resting, UNCHANGED scene, KeyExpires(m)
  PROVE  BookInv'
<1>1. /\ scene.expiring /\ BookFits /\ faults' \in 0..MaxFaults
      /\ key' = [key EXCEPT ![m] = NoKey] /\ UNCHANGED <<scene, remaining, member, job>>
  BY DEF KeyExpires, Fault, BookInv, BookFits, ConstantsFit
<1>2. BookFits' /\ ~Undisturbed'
  BY <1>1 DEF BookFits, Undisturbed
<1>3. JobsFit'
  BY <1>1 DEF BookInv, JobsFit, JobFits, JobType
<1> QED
  BY <1>2, <1>3 DEF BookInv

LEMMA NextBook == ASSUME ConstantsFit PROVE BookInv /\ [BookNext]_serviceVars => BookInv'
<1> SUFFICES ASSUME BookInv, [BookNext]_serviceVars PROVE BookInv'
  OBVIOUS
<1>1. CASE UNCHANGED serviceVars
  BY <1>1 DEF serviceVars, BookInv, BookFits, JobsFit, JobFits, JobType, Undisturbed, OpenIsThere, LeavingIsClosed
<1>2. CASE BookNext
  <2>1. UNCHANGED scene
    BY <1>2 DEF BookNext
  <2>2. ASSUME NEW c \in Clients, ClientStep(c) PROVE BookInv'
    <3>1. CASE AttemptDone(c) \/ LoopDone(c)
      BY <2>1, <3>1, DoneKeeps DEF AttemptDone, LoopDone, At, Move, bookVars, BookInv, BookFits
    <3> QED
      BY <2>1, <2>2, <3>1, CommandKeeps, ReadMembersKeeps, ReadKeyKeeps, DropKeeps, MatchKeeps,
         LoadKeeps, VisitKeeps DEF ClientStep, AttemptStep, RebuildStep, ReconcileStep
  <2> QED
    BY <1>2, <2>1, <2>2, FailureKeeps, KeyExpiresKeeps DEF BookNext
<1> QED
  BY <1>1, <1>2

\* OpenOrdersStay: with attempts alone at work and no key expiring, nothing they do,
\* leave half done or repeat takes an open order out of the Redis book
\* (syncRedisBook, safeRemoveStaleMaker: engine.ts:499-532).
THEOREM OpenOrdersStayInBook == BookSpec => []OpenOrdersStay
<1>1. BookInit => BookInv
  BY InitBook, ConstantsAssumption
<1>2. BookInv /\ [BookNext]_serviceVars => BookInv'
  BY NextBook, ConstantsAssumption
<1>3. BookInv => OpenOrdersStay
  BY BookInvIsOpen
<1> QED
  BY <1>1, <1>2, <1>3, PTL DEF BookSpec
=============================================================================
