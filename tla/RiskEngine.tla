----------------------------- MODULE RiskEngine -----------------------------
(***************************************************************************)
(* src/core/risk-engine.ts with its exposure repository and Redis cache:   *)
(* calls of validateBeforeExecution, which take a Redis lock, look for a   *)
(* reservation and write one in a transaction; of rollbackReservation; and *)
(* of updateExposureAfterExecution, which book what was executed.          *)
(*                                                                         *)
(* A step is one Redis command or one SQL statement; a COMMIT comes with   *)
(* the write before it.  SELECT ... FOR UPDATE locks a row that exists and *)
(* nothing when there is no row.  The token of a lock is the call itself.  *)
(***************************************************************************)
EXTENDS Naturals, FiniteSets, Functions

CONSTANTS Accepts,       \* calls of validateBeforeExecution
          RfqOf,         \* the RFQ each is about
          AccountOf,     \* RFQ -> (user, market, side)
          Notional,      \* call -> quantity times price of its quote
          Cap,           \* userNotionalCap
          Updates,       \* calls of updateExposureAfterExecution
          ExecutionOf,   \* the execution each of them books
          GrantOf,       \* execution -> the call whose reservation it used
          WithToken,     \* the executions booked with their reservation token
          Opened,        \* accounts that have an exposure row at the start
          MaxAttempts,   \* tries for the Redis lock
          LockOutlives,  \* TRUE: the 5 s of the lock outlast its transaction
          MaxFaults,     \* bound: crashes and failed statements
          Free,          \* nobody holds the lock
          NoRow          \* there is no exposure row

Rfqs == {RfqOf[c] : c \in Accepts}
Accounts == {AccountOf[r] : r \in Rfqs}
Executions == {ExecutionOf[u] : u \in Updates}

ASSUME OpenedAssumption == Opened \subseteq Accounts
ASSUME BoundsAssumption == MaxAttempts \in Nat \ {0} /\ MaxFaults \in Nat
ASSUME NotionalAssumption == Notional \in [Accepts -> Nat] /\ Cap \in Nat

Clients == Accepts \cup Updates

ASSUME ClientsAssumption ==
  /\ Accepts \cap Updates = {} /\ Free \notin Clients
  /\ GrantOf \in [Executions -> Accepts] /\ NoRow \notin Nat
  /\ IsFiniteSet(Executions)

Account(c) ==
  AccountOf[RfqOf[IF c \in Updates THEN GrantOf[ExecutionOf[c]] ELSE c]]

VARIABLES lock,      \* risk:lock:exec:<rfq> -> the call whose token is there
          journal,   \* calls whose 'pre-exec-reserve' row is committed
          row,       \* exposure.gross_notional of each account, or NoRow
          rowLock,   \* the transaction that has each exposure row FOR UPDATE
          applied,   \* exposure_idempotency
          booked,    \* 'rfq-execution' rows of the journal per execution
          rolling,   \* the rolling exposure Redis keeps per account
          call,      \* where each call is
          faults

tables == <<journal, row, applied, booked>>
vars == <<lock, journal, row, rowLock, applied, booked, rolling, call, faults>>

Init ==
  /\ lock = [r \in Rfqs |-> Free]
  /\ journal = {}
  /\ row = [a \in Accounts |-> IF a \in Opened THEN 0 ELSE NoRow]
  /\ rowLock = [a \in Accounts |-> Free]
  /\ applied = {}
  /\ booked = [e \in Executions |-> 0]
  /\ rolling = [a \in Accounts |-> 0]
  /\ call = [c \in Clients |-> [at |-> "idle", tries |-> 0, read |-> 0]]
  /\ faults = 0

At(c, place) == call[c].at = place
Goto(c, place) == call' = [call EXCEPT ![c].at = place]
Fault == faults < MaxFaults /\ faults' = faults + 1

\* Gross exposure of an account; no row counts as nothing.
Gross(a) == IF row[a] = NoRow THEN 0 ELSE row[a]

\* Mutant: the row is read without FOR UPDATE.
SelectUnlocked(c, place) ==
  /\ rowLock[Account(c)] = Free
  /\ call' = [call EXCEPT ![c].at = place, ![c].read = row[Account(c)]]
  /\ UNCHANGED rowLock

\* getExposureForUpdate: waits for the row, locks it if there is one.
SelectForUpdate(c, place) ==
  /\ rowLock[Account(c)] = Free
  /\ rowLock' = IF row[Account(c)] = NoRow THEN rowLock
                ELSE [rowLock EXCEPT ![Account(c)] = c]
  /\ call' = [call EXCEPT ![c].at = place, ![c].read = row[Account(c)]]

\* The end of a transaction frees the row it had.
EndTransaction(c) ==
  rowLock' = [a \in Accounts |-> IF rowLock[a] = c THEN Free ELSE rowLock[a]]

\* unlockExposureKey: deletes the key only if it still has the caller's token.
Unlock(c) ==
  lock' = [lock EXCEPT ![RfqOf[c]] = IF @ = c THEN Free ELSE @]

----------------------------------------------------------------------------
(* validateBeforeExecution                                                 *)

\* SET NX PX, tried up to MaxAttempts times.
LockRisk(c) ==
  /\ At(c, "idle")
  /\ IF lock[RfqOf[c]] = Free
     THEN /\ lock' = [lock EXCEPT ![RfqOf[c]] = c]
          /\ Goto(c, "find")
     ELSE /\ call' = [call EXCEPT ![c].tries = @ + 1,
                        ![c].at = IF call[c].tries + 1 = MaxAttempts
                                  THEN "refused" ELSE "idle"]
          /\ UNCHANGED lock
  /\ UNCHANGED <<tables, rowLock, rolling, faults>>

Reserved(r) == \E d \in journal : RfqOf[d] = r

\* Mutant: no look at the reservations there are.
FindNothing(c) ==
  /\ At(c, "find")
  /\ Goto(c, "read")
  /\ UNCHANGED <<lock, tables, rowLock, rolling, faults>>

\* A reservation that exists, or a quote from the taker itself (checkSTP),
\* ends the call.
FindReservation(c) ==
  /\ At(c, "find")
  /\ \E selfTrade \in BOOLEAN :
       Goto(c, IF Reserved(RfqOf[c]) \/ selfTrade THEN "undo" ELSE "read")
  /\ UNCHANGED <<lock, tables, rowLock, rolling, faults>>

WithinCap(c) == Gross(Account(c)) + Notional[c] <= Cap

ReadExposure(c) ==
  /\ At(c, "read")
  /\ SelectForUpdate(c, IF WithinCap(c) THEN "insert" ELSE "undo")
  /\ UNCHANGED <<lock, tables, rolling, faults>>

\* INSERT of the reservation, and COMMIT.
Grant(c) ==
  /\ At(c, "insert")
  /\ journal' = journal \cup {c}
  /\ EndTransaction(c)
  /\ Goto(c, "granted")
  /\ UNCHANGED <<lock, row, applied, booked, rolling, faults>>

\* The catch block: ROLLBACK, and then the lock.
Undo(c) ==
  /\ At(c, "undo")
  /\ EndTransaction(c)
  /\ Goto(c, "unlock")
  /\ UNCHANGED <<lock, tables, rolling, faults>>

UnlockRisk(c) ==
  /\ c \in Accepts
  /\ At(c, "unlock")
  /\ Unlock(c)
  /\ Goto(c, "refused")
  /\ UNCHANGED <<tables, rowLock, rolling, faults>>

(* rollbackReservation, called by acceptRFQ with the token it was given.   *)
RollbackReservation(c) ==
  /\ c \in Accepts
  /\ At(c, "granted")
  /\ journal' = journal \ {c}
  /\ Goto(c, IF c \in journal THEN "unlock" ELSE "refused")
  /\ UNCHANGED <<lock, row, rowLock, applied, booked, rolling, faults>>

----------------------------------------------------------------------------
(* updateExposureAfterExecution                                            *)

Token(u) == GrantOf[ExecutionOf[u]]
CarriesToken(u) == ExecutionOf[u] \in WithToken

\* Mutant: the duplicate is booked as well.
ApplyAlways(u) ==
  /\ At(u, "idle")
  /\ At(Token(u), "granted")
  /\ applied' = applied \cup {ExecutionOf[u]}
  /\ Goto(u, "select")
  /\ UNCHANGED <<lock, journal, row, rowLock, booked, rolling, faults>>

\* INSERT INTO exposure_idempotency; a duplicate only gives the token back.
ApplyIdempotent(u) ==
  /\ At(u, "idle")
  /\ At(Token(u), "granted")
  /\ applied' = applied \cup {ExecutionOf[u]}
  /\ Goto(u, CASE ExecutionOf[u] \notin applied -> "select"
               [] CarriesToken(u)               -> "release"
               [] OTHER                         -> "done")
  /\ UNCHANGED <<lock, journal, row, rowLock, booked, rolling, faults>>

SelectExposure(u) ==
  /\ At(u, "select")
  /\ SelectForUpdate(u, "book")
  /\ UNCHANGED <<lock, tables, rolling, faults>>

\* UPDATE of the row that was read, or INSERT, which the unique key refuses
\* when another transaction has made the row meanwhile; journal; COMMIT.
Book(u) ==
  LET a == Account(u)
      read == call[u].read
  IN /\ At(u, "book")
     /\ IF read = NoRow /\ row[a] # NoRow
        THEN /\ Goto(u, "failed")
             /\ UNCHANGED <<row, booked>>
        ELSE /\ row' = [row EXCEPT ![a] =
                          (IF read = NoRow THEN 0 ELSE read) + Notional[Token(u)]]
             /\ booked' = [booked EXCEPT ![ExecutionOf[u]] = @ + 1]
             /\ Goto(u, "rolling")
     /\ EndTransaction(u)
     /\ UNCHANGED <<lock, journal, applied, rolling, faults>>

IncRolling(u) ==
  /\ At(u, "rolling")
  /\ rolling' = [rolling EXCEPT ![Account(u)] = @ + Notional[Token(u)]]
  /\ Goto(u, IF CarriesToken(u) THEN "release" ELSE "done")
  /\ UNCHANGED <<lock, tables, rowLock, faults>>

\* rollbackReservation(reservationToken): the row, and then the lock.
ReleaseReservation(u) ==
  /\ At(u, "release")
  /\ journal' = journal \ {Token(u)}
  /\ Goto(u, IF Token(u) \in journal THEN "unlock" ELSE "done")
  /\ UNCHANGED <<lock, row, rowLock, applied, booked, rolling, faults>>

UnlockReservation(u) ==
  /\ u \in Updates
  /\ At(u, "unlock")
  /\ Unlock(Token(u))
  /\ Goto(u, "done")
  /\ UNCHANGED <<tables, rowLock, rolling, faults>>

----------------------------------------------------------------------------
(* The environment.                                                        *)

InTransaction(c) == call[c].at \in {"find", "read", "insert", "undo"}

LockExpires(r) ==
  /\ lock[r] # Free
  /\ LockOutlives => ~InTransaction(lock[r])
  /\ lock' = [lock EXCEPT ![r] = Free]
  /\ UNCHANGED <<tables, rowLock, rolling, call, faults>>

\* The process dies, or a statement fails and the error is rethrown: the
\* transaction is rolled back, and what was committed before it stays.
Crash(c) ==
  /\ Fault
  /\ call[c].at \notin {"idle", "refused", "granted", "done", "failed"}
  /\ EndTransaction(c)
  /\ Goto(c, "failed")
  /\ UNCHANGED <<lock, tables, rolling>>

Validate(c) == LockRisk(c) \/ FindReservation(c) \/ ReadExposure(c) \/ Grant(c)
               \/ Undo(c) \/ UnlockRisk(c)
Update(u) == ApplyIdempotent(u) \/ SelectExposure(u) \/ Book(u) \/ IncRolling(u)
             \/ ReleaseReservation(u) \/ UnlockReservation(u)

Next ==
  \/ \E c \in Accepts : Validate(c) \/ RollbackReservation(c)
  \/ \E u \in Updates : Update(u)
  \/ \E r \in Rfqs : LockExpires(r)
  \/ \E c \in Clients : Crash(c)

\* A call that has begun is run by the event loop to its end.
Fairness ==
  /\ \A c \in Accepts : WF_vars(Validate(c))
  /\ \A u \in Updates : WF_vars(Update(u))

Spec == Init /\ [][Next]_vars /\ Fairness

----------------------------------------------------------------------------
(* Properties.                                                             *)

\* The shape of the tables, the Redis keys and the calls of risk-engine.ts.
TypeOK ==
  /\ lock \in [Rfqs -> Accepts \cup {Free}]
  /\ journal \subseteq Accepts
  /\ row \in [Accounts -> Nat \cup {NoRow}]
  /\ rowLock \in [Accounts -> Clients \cup {Free}]
  /\ applied \subseteq Executions
  /\ booked \in [Executions -> Nat]
  /\ rolling \in [Accounts -> Nat]
  /\ faults \in 0 .. MaxFaults
  /\ \A c \in Clients : call[c].tries \in 0 .. MaxAttempts

\* exposure.repository.ts:106-162: bookings of one account by transactions that run side by side, are retried
\* or die: its exposure is the sum of the executions the journal has for it,
\* and none of them is there twice, and the rolling exposure is never ahead of
\* it (the hour it lives is left out: it can only lower it).
BookedFor(a) ==
  {e \in Executions : AccountOf[RfqOf[GrantOf[e]]] = a /\ booked[e] = 1}
SizeOfExecution == [e \in Executions |-> Notional[GrantOf[e]]]
ExposureIsBooked ==
  /\ TypeOK
  /\ \A e \in Executions : booked[e] <= 1
  /\ \A a \in Accounts :
       /\ Gross(a) = SumFunctionOnSet(SizeOfExecution, BookedFor(a))
       /\ rolling[a] <= Gross(a)

\* risk-engine.ts:169-198: the check against the cap and the INSERT are two statements: what was
\* checked still holds when the reservation is written, provided the account
\* had a row to lock.
GrantIsWithinCap ==
  [][\A c \in journal' \ journal :
       call[c].read # NoRow => Gross(Account(c)) + Notional[c] <= Cap]_vars

\* risk-engine.ts:124-212: while the lock outlives its transaction the engine keeps the promise of
\* ReservationBook to callers that race, time out or die.
Promise == INSTANCE ReservationBook
ImplementsReservations == Promise!ReservationSpec

=============================================================================
