-------------------------- MODULE RiskEngineProofs --------------------------
(***************************************************************************)
(* Proofs about RiskEngine, for any number of calls, RFQs, accounts and    *)
(* executions: what is granted is within the cap, and while the Redis lock *)
(* outlives its transaction the engine implements ReservationBook.         *)
(***************************************************************************)
EXTENDS RiskEngine, Sums, TLAPS

----------------------------------------------------------------------------
(* Calls and rows.                                                         *)

AcceptPlaces == {"idle", "find", "read", "insert", "undo", "unlock", "granted", "refused", "failed"}
UpdatePlaces == {"idle", "select", "book", "rolling", "release", "unlock", "done", "failed"}
Calls == [at : AcceptPlaces \cup UpdatePlaces, tries : 0 .. MaxAttempts, read : Nat \cup {NoRow}]

CallsOK ==
  /\ call \in [Clients -> Calls]
  /\ \A c \in Accepts : call[c].at \in AcceptPlaces
  /\ \A c \in Accepts : call[c].at = "idle" => call[c].tries < MaxAttempts
  /\ \A u \in Updates : call[u].at \in UpdatePlaces

\* A transaction that has read a row has it, and nobody has written it since.
RowsAreHeld ==
  \A x \in Clients : call[x].at \in {"insert", "book"} /\ call[x].read # NoRow =>
    rowLock[Account(x)] = x /\ row[Account(x)] = call[x].read

\* What the check against the cap found, until the reservation is written.
GrantsFit ==
  \A c \in Accepts : call[c].at = "insert" /\ call[c].read # NoRow => call[c].read + Notional[c] <= Cap

RowInv == TypeOK /\ CallsOK /\ RowsAreHeld /\ GrantsFit

\* Every call is about an account.
LEMMA AccountsExist ==
  /\ \A x \in Clients : Account(x) \in Accounts
  /\ \A u \in Updates : Token(u) \in Accepts
  /\ \A c \in Accepts : Notional[c] \in Nat /\ RfqOf[c] \in Rfqs
<1>1. \A u \in Updates : GrantOf[ExecutionOf[u]] \in Accepts
  BY ClientsAssumption DEF Executions
<1>2. \A c \in Accepts : Notional[c] \in Nat /\ RfqOf[c] \in Rfqs
  BY NotionalAssumption DEF Rfqs
<1> QED
  BY <1>1, <1>2 DEF Account, Accounts, Clients, Token

LEMMA InitRow == Init => RowInv
  BY BoundsAssumption, OpenedAssumption, ClientsAssumption
  DEF Init, RowInv, TypeOK, CallsOK, Calls, AcceptPlaces, UpdatePlaces, RowsAreHeld, GrantsFit, Clients

----------------------------------------------------------------------------
(* The parts, action by action.                                            *)

\* One call goes on: its record is replaced by another of its kind.
LEMMA CallMoves ==
  ASSUME CallsOK, NEW x \in Clients, NEW t \in Calls, call' = [call EXCEPT ![x] = t],
         x \in Accepts => t.at \in AcceptPlaces /\ (t.at = "idle" => t.tries < MaxAttempts),
         x \in Updates => t.at \in UpdatePlaces
  PROVE  CallsOK' /\ call'[x] = t /\ \A y \in Clients \ {x} : call'[y] = call[y]
BY DEF CallsOK, Clients

\* A step that only moves a call, from one place to another.
LEMMA PlaceMoves ==
  ASSUME CallsOK, NEW x \in Clients, NEW p \in AcceptPlaces \cup UpdatePlaces, Goto(x, p),
         x \in Accepts => p \in AcceptPlaces \ {"idle"}, x \in Updates => p \in UpdatePlaces
  PROVE  /\ CallsOK'
         /\ call'[x].at = p /\ call'[x].read = call[x].read
         /\ \A y \in Clients \ {x} : call'[y] = call[y]
<1> DEFINE t == [call[x] EXCEPT !.at = p]
<1>1. call[x] \in Calls
  BY DEF CallsOK
<1>2. t \in Calls /\ t.at = p /\ t.read = call[x].read
  BY <1>1 DEF Calls
<1>3. call' = [call EXCEPT ![x] = t]
  BY DEF Goto
<1>4. x \in Accepts => t.at # "idle"
  BY <1>2
<1> HIDE DEF t
<1> QED
  BY <1>2, <1>3, <1>4, CallMoves

\* getExposureForUpdate moves the call and keeps what it read.
LEMMA SelectMoves ==
  ASSUME CallsOK, TypeOK, NEW x \in Clients, NEW p \in AcceptPlaces \cup UpdatePlaces, SelectForUpdate(x, p),
         x \in Accepts => p \in AcceptPlaces \ {"idle"}, x \in Updates => p \in UpdatePlaces
  PROVE  /\ CallsOK'
         /\ call'[x].at = p /\ call'[x].read = row[Account(x)]
         /\ \A y \in Clients \ {x} : call'[y] = call[y]
         /\ rowLock' \in [Accounts -> Clients \cup {Free}]
<1> DEFINE t == [call[x] EXCEPT !.at = p, !.read = row[Account(x)]]
<1>1. call[x] \in Calls /\ row[Account(x)] \in Nat \cup {NoRow}
  BY AccountsExist DEF CallsOK, TypeOK
<1>2. t \in Calls /\ t.at = p /\ t.read = row[Account(x)]
  BY <1>1 DEF Calls
<1>3. call' = [call EXCEPT ![x] = t]
  BY DEF SelectForUpdate
<1>4. x \in Accepts => t.at # "idle"
  BY <1>2
<1>5. rowLock' \in [Accounts -> Clients \cup {Free}]
  BY DEF SelectForUpdate, TypeOK
<1> HIDE DEF t
<1> QED
  BY <1>2, <1>3, <1>4, <1>5, CallMoves

\* The end of a transaction only takes the rows of its own.
LEMMA EndsTransaction ==
  ASSUME TypeOK, NEW x \in Clients, EndTransaction(x)
  PROVE  /\ rowLock' \in [Accounts -> Clients \cup {Free}]
         /\ \A a \in Accounts : rowLock[a] # x => rowLock'[a] = rowLock[a]
BY DEF TypeOK, EndTransaction

\* An attempt at the Redis lock.
LEMMA LockMoves ==
  ASSUME RowInv, NEW c \in Accepts, LockRisk(c)
  PROVE  /\ CallsOK' /\ lock' \in [Rfqs -> Accepts \cup {Free}]
         /\ call'[c].at \in {"find", "idle", "refused"}
         /\ \A y \in Clients \ {c} : call'[y] = call[y]
<1>1. c \in Clients /\ call[c] \in Calls /\ call[c].at = "idle" /\ call[c].tries < MaxAttempts
  BY DEF RowInv, CallsOK, LockRisk, At, Clients
<1>2. CASE lock[RfqOf[c]] = Free
  <2>1. Goto(c, "find") /\ lock' \in [Rfqs -> Accepts \cup {Free}]
    BY <1>2 DEF LockRisk, RowInv, TypeOK
  <2> QED
    BY <1>1, <2>1, PlaceMoves, ClientsAssumption DEF RowInv, AcceptPlaces
<1>3. CASE lock[RfqOf[c]] # Free
  <2> DEFINE p == IF call[c].tries + 1 = MaxAttempts THEN "refused" ELSE "idle"
             t == [call[c] EXCEPT !.tries = @ + 1, !.at = p]
  <2>1. t \in Calls /\ t.at = p /\ (t.at = "idle" => t.tries < MaxAttempts)
    <3>1. call[c].tries + 1 \in 0 .. MaxAttempts /\ (p = "idle" => call[c].tries + 1 < MaxAttempts)
      BY <1>1, BoundsAssumption DEF Calls
    <3>2. p \in AcceptPlaces
      BY DEF AcceptPlaces
    <3> HIDE DEF p
    <3> QED
      BY <1>1, <3>1, <3>2 DEF Calls
  <2>2. call' = [call EXCEPT ![c] = t]
    BY <1>1, <1>3 DEF LockRisk, RowInv, CallsOK
  <2>3. t.at \in {"find", "idle", "refused"} /\ t.at \in AcceptPlaces
    BY <2>1 DEF AcceptPlaces
  <2> HIDE DEF t, p
  <2>4. CallsOK' /\ call'[c] = t /\ \A y \in Clients \ {c} : call'[y] = call[y]
    BY <1>1, <2>1, <2>2, <2>3, CallMoves, ClientsAssumption DEF RowInv
  <2>5. lock' \in [Rfqs -> Accepts \cup {Free}]
    BY <1>3 DEF LockRisk, RowInv, TypeOK
  <2> QED
    BY <2>3, <2>4, <2>5
<1> QED
  BY <1>2, <1>3

\* A step of one call leaves alone the rows other calls have.
LEMMA OthersKeepRows ==
  ASSUME RowInv, NEW x \in Clients,
         \A y \in Clients \ {x} : call'[y] = call[y],
         \A a \in Accounts : rowLock[a] \in Clients \ {x} => rowLock'[a] = rowLock[a] /\ row'[a] = row[a],
         call'[x].at \in {"insert", "book"} /\ call'[x].read # NoRow =>
           rowLock'[Account(x)] = x /\ row'[Account(x)] = call'[x].read,
         x \in Accepts /\ call'[x].at = "insert" /\ call'[x].read # NoRow => call'[x].read + Notional[x] <= Cap
  PROVE  RowsAreHeld' /\ GrantsFit'
<1>1. ASSUME NEW y \in Clients, call'[y].at \in {"insert", "book"}, call'[y].read # NoRow
      PROVE  rowLock'[Account(y)] = y /\ row'[Account(y)] = call'[y].read
  <2>1. CASE y # x
    <3>1. call'[y] = call[y]
      BY <2>1
    <3>2. rowLock[Account(y)] = y /\ row[Account(y)] = call[y].read
      BY <1>1, <3>1 DEF RowInv, RowsAreHeld
    <3> QED
      BY <2>1, <3>1, <3>2, AccountsExist
  <2> QED
    BY <1>1, <2>1
<1>2. ASSUME NEW c \in Accepts, call'[c].at = "insert", call'[c].read # NoRow
      PROVE  call'[c].read + Notional[c] <= Cap
  <2>1. c # x => call'[c] = call[c]
    BY DEF Clients
  <2> QED
    BY <1>2, <2>1 DEF RowInv, GrantsFit
<1>3. RowsAreHeld' = \A y \in Clients : call'[y].at \in {"insert", "book"} /\ call'[y].read # NoRow =>
                       rowLock'[Account(y)] = y /\ row'[Account(y)] = call'[y].read
  BY DEF RowsAreHeld, Account
<1> QED
  BY <1>1, <1>2, <1>3 DEF GrantsFit

LEMMA ValidateKeepsRows ==
  ASSUME RowInv, NEW c \in Accepts, Validate(c) \/ RollbackReservation(c)
  PROVE  RowInv'
<1>1. c \in Clients /\ c \notin Updates
  BY ClientsAssumption DEF Clients
<1>2. \A a \in Accounts : rowLock[a] \in Clients \cup {Free} /\ row[a] \in Nat \cup {NoRow}
  BY DEF RowInv, TypeOK
<1>3. CASE LockRisk(c)
  <2>1. CallsOK' /\ lock' \in [Rfqs -> Accepts \cup {Free}] /\ call'[c].at \in {"find", "idle", "refused"}
        /\ \A y \in Clients \ {c} : call'[y] = call[y]
    BY <1>3, LockMoves
  <2>2. UNCHANGED <<tables, rowLock, rolling, faults>>
    BY <1>3 DEF LockRisk
  <2>3. RowsAreHeld' /\ GrantsFit'
    BY <1>1, <2>1, <2>2, OthersKeepRows DEF tables
  <2> QED
    BY <2>1, <2>2, <2>3 DEF RowInv, TypeOK, tables, CallsOK, Calls
<1>4. CASE FindReservation(c)
  <2>1. PICK p \in {"undo", "read"} : Goto(c, p)
    BY <1>4 DEF FindReservation
  <2>2. CallsOK' /\ call'[c].at = p /\ \A y \in Clients \ {c} : call'[y] = call[y]
    BY <1>1, <2>1, PlaceMoves DEF RowInv, AcceptPlaces
  <2>3. UNCHANGED <<lock, tables, rowLock, rolling, faults>>
    BY <1>4 DEF FindReservation
  <2>4. RowsAreHeld' /\ GrantsFit'
    BY <1>1, <2>2, <2>3, OthersKeepRows DEF tables
  <2> QED
    BY <2>2, <2>3, <2>4 DEF RowInv, TypeOK, tables, CallsOK, Calls
<1>5. CASE ReadExposure(c)
  <2> DEFINE p == IF WithinCap(c) THEN "insert" ELSE "undo"
  <2>1. SelectForUpdate(c, p) /\ UNCHANGED <<lock, tables, rolling, faults>>
    BY <1>5 DEF ReadExposure
  <2>2. p \in {"insert", "undo"} /\ (p = "insert" => WithinCap(c))
    OBVIOUS
  <2> HIDE DEF p
  <2>3. CallsOK' /\ call'[c].at = p /\ call'[c].read = row[Account(c)]
        /\ (\A y \in Clients \ {c} : call'[y] = call[y]) /\ rowLock' \in [Accounts -> Clients \cup {Free}]
    BY <1>1, <2>1, <2>2, SelectMoves DEF RowInv, AcceptPlaces
  <2>4. \A a \in Accounts : rowLock[a] # Free => rowLock'[a] = rowLock[a]
    BY <2>1 DEF SelectForUpdate, RowInv, TypeOK
  <2>5. row[Account(c)] # NoRow => rowLock'[Account(c)] = c
    BY <1>1, <2>1, AccountsExist DEF SelectForUpdate, RowInv, TypeOK
  <2>6. p = "insert" /\ row[Account(c)] # NoRow => row[Account(c)] + Notional[c] <= Cap
    BY <2>2 DEF WithinCap, Gross
  <2>7. Free \notin Clients /\ row' = row
    BY <2>1, ClientsAssumption DEF tables
  <2>8. RowsAreHeld' /\ GrantsFit'
    BY <1>1, <2>2, <2>3, <2>4, <2>5, <2>6, <2>7, OthersKeepRows
  <2> QED
    BY <2>1, <2>3, <2>8 DEF RowInv, TypeOK, tables, CallsOK, Calls
<1>6. CASE Grant(c)
  <2>1. Goto(c, "granted") /\ EndTransaction(c) /\ journal' = journal \cup {c}
        /\ UNCHANGED <<lock, row, applied, booked, rolling, faults>>
    BY <1>6 DEF Grant
  <2>2. CallsOK' /\ call'[c].at = "granted" /\ \A y \in Clients \ {c} : call'[y] = call[y]
    BY <1>1, <2>1, PlaceMoves DEF RowInv, AcceptPlaces
  <2>3. rowLock' \in [Accounts -> Clients \cup {Free}] /\ \A a \in Accounts : rowLock[a] # c => rowLock'[a] = rowLock[a]
    BY <1>1, <2>1, EndsTransaction DEF RowInv
  <2>4. RowsAreHeld' /\ GrantsFit'
    BY <1>1, <2>1, <2>2, <2>3, OthersKeepRows
  <2> QED
    BY <2>1, <2>2, <2>3, <2>4 DEF RowInv, TypeOK, CallsOK, Calls
<1>7. CASE Undo(c)
  <2>1. Goto(c, "unlock") /\ EndTransaction(c) /\ UNCHANGED <<lock, tables, rolling, faults>>
    BY <1>7 DEF Undo
  <2>2. CallsOK' /\ call'[c].at = "unlock" /\ \A y \in Clients \ {c} : call'[y] = call[y]
    BY <1>1, <2>1, PlaceMoves DEF RowInv, AcceptPlaces
  <2>3. rowLock' \in [Accounts -> Clients \cup {Free}] /\ \A a \in Accounts : rowLock[a] # c => rowLock'[a] = rowLock[a]
    BY <1>1, <2>1, EndsTransaction DEF RowInv
  <2>4. RowsAreHeld' /\ GrantsFit'
    BY <1>1, <2>1, <2>2, <2>3, OthersKeepRows DEF tables
  <2> QED
    BY <2>1, <2>2, <2>3, <2>4 DEF RowInv, TypeOK, tables, CallsOK, Calls
<1>8. CASE UnlockRisk(c)
  <2>1. Goto(c, "refused") /\ lock' \in [Rfqs -> Accepts \cup {Free}] /\ UNCHANGED <<tables, rowLock, rolling, faults>>
    BY <1>8 DEF UnlockRisk, Unlock, RowInv, TypeOK
  <2>2. CallsOK' /\ call'[c].at = "refused" /\ \A y \in Clients \ {c} : call'[y] = call[y]
    BY <1>1, <2>1, PlaceMoves DEF RowInv, AcceptPlaces
  <2>3. RowsAreHeld' /\ GrantsFit'
    BY <1>1, <2>1, <2>2, OthersKeepRows DEF tables
  <2> QED
    BY <2>1, <2>2, <2>3 DEF RowInv, TypeOK, tables, CallsOK, Calls
<1>9. CASE RollbackReservation(c)
  <2>1. PICK p \in {"unlock", "refused"} : Goto(c, p)
    BY <1>9 DEF RollbackReservation
  <2>2. journal' \subseteq journal /\ UNCHANGED <<lock, row, rowLock, applied, booked, rolling, faults>>
    BY <1>9 DEF RollbackReservation
  <2>3. CallsOK' /\ call'[c].at = p /\ \A y \in Clients \ {c} : call'[y] = call[y]
    BY <1>1, <2>1, PlaceMoves DEF RowInv, AcceptPlaces
  <2>4. RowsAreHeld' /\ GrantsFit'
    BY <1>1, <2>2, <2>3, OthersKeepRows
  <2> QED
    BY <2>2, <2>3, <2>4 DEF RowInv, TypeOK, CallsOK, Calls
<1> QED
  BY <1>3, <1>4, <1>5, <1>6, <1>7, <1>8, <1>9 DEF Validate

LEMMA UpdateKeepsRows ==
  ASSUME RowInv, NEW u \in Updates, Update(u)
  PROVE  RowInv'
<1>1. u \in Clients /\ u \notin Accepts /\ Token(u) \in Accepts /\ ExecutionOf[u] \in Executions
      /\ Account(u) \in Accounts /\ Notional[Token(u)] \in Nat
  BY AccountsExist, ClientsAssumption DEF Clients, Executions
<1>2. \A a \in Accounts : rowLock[a] \in Clients \cup {Free} /\ row[a] \in Nat \cup {NoRow}
  BY DEF RowInv, TypeOK
<1>3. CASE ApplyIdempotent(u)
  <2>1. PICK p \in {"select", "release", "done"} : Goto(u, p)
    BY <1>3 DEF ApplyIdempotent
  <2>2. applied' \subseteq Executions /\ UNCHANGED <<lock, journal, row, rowLock, booked, rolling, faults>>
    BY <1>1, <1>3 DEF ApplyIdempotent, RowInv, TypeOK
  <2>3. CallsOK' /\ call'[u].at = p /\ \A y \in Clients \ {u} : call'[y] = call[y]
    BY <1>1, <2>1, PlaceMoves DEF RowInv, UpdatePlaces
  <2>4. RowsAreHeld' /\ GrantsFit'
    BY <1>1, <2>2, <2>3, OthersKeepRows
  <2> QED
    BY <2>2, <2>3, <2>4 DEF RowInv, TypeOK, CallsOK, Calls
<1>4. CASE SelectExposure(u)
  <2>1. SelectForUpdate(u, "book") /\ UNCHANGED <<lock, tables, rolling, faults>>
    BY <1>4 DEF SelectExposure
  <2>2. CallsOK' /\ call'[u].at = "book" /\ call'[u].read = row[Account(u)]
        /\ (\A y \in Clients \ {u} : call'[y] = call[y]) /\ rowLock' \in [Accounts -> Clients \cup {Free}]
    BY <1>1, <2>1, SelectMoves DEF RowInv, UpdatePlaces
  <2>3. \A a \in Accounts : rowLock[a] # Free => rowLock'[a] = rowLock[a]
    BY <2>1 DEF SelectForUpdate, RowInv, TypeOK
  <2>4. row[Account(u)] # NoRow => rowLock'[Account(u)] = u
    BY <1>1, <2>1 DEF SelectForUpdate, RowInv, TypeOK
  <2>5. Free \notin Clients /\ row' = row
    BY <2>1, ClientsAssumption DEF tables
  <2>6. RowsAreHeld' /\ GrantsFit'
    BY <1>1, <2>2, <2>3, <2>4, <2>5, OthersKeepRows
  <2> QED
    BY <2>1, <2>2, <2>6 DEF RowInv, TypeOK, tables, CallsOK, Calls
<1>5. CASE Book(u)
  <2>1. PICK p \in {"failed", "rolling"} : Goto(u, p)
    BY <1>5 DEF Book
  <2>2. EndTransaction(u) /\ UNCHANGED <<lock, journal, applied, rolling, faults>>
    BY <1>5 DEF Book
  <2>3. CallsOK' /\ call'[u].at = p /\ \A y \in Clients \ {u} : call'[y] = call[y]
    BY <1>1, <2>1, PlaceMoves DEF RowInv, UpdatePlaces
  <2>4. rowLock' \in [Accounts -> Clients \cup {Free}] /\ \A a \in Accounts : rowLock[a] # u => rowLock'[a] = rowLock[a]
    BY <1>1, <2>2, EndsTransaction DEF RowInv
  <2>5. call[u].read \in Nat \cup {NoRow}
    BY <1>1 DEF RowInv, CallsOK, Calls
  <2>6. row' \in [Accounts -> Nat \cup {NoRow}] /\ booked' \in [Executions -> Nat]
    BY <1>1, <1>5, <2>5 DEF Book, RowInv, TypeOK
  <2>7. \A a \in Accounts : rowLock[a] \in Clients \ {u} => row'[a] = row[a] \/ row[a] = NoRow
    <3>1. At(u, "book") /\ \A a \in Accounts : row'[a] # row[a] => a = Account(u) /\ (call[u].read = NoRow => row[a] = NoRow)
      BY <1>1, <1>5 DEF Book, RowInv, TypeOK
    <3> QED
      BY <1>1, <3>1 DEF RowInv, RowsAreHeld, At
  <2>8. RowsAreHeld' /\ GrantsFit'
    <3>1. ASSUME NEW y \in Clients, call'[y].at \in {"insert", "book"}, call'[y].read # NoRow
          PROVE  rowLock'[Account(y)] = y /\ row'[Account(y)] = call'[y].read
      <4>1. y # u /\ call'[y] = call[y]
        BY <2>3, <3>1
      <4>2. rowLock[Account(y)] = y /\ row[Account(y)] = call[y].read
        BY <3>1, <4>1 DEF RowInv, RowsAreHeld
      <4> QED
        BY <2>4, <2>7, <3>1, <4>1, <4>2, AccountsExist
    <3>2. RowsAreHeld' = \A y \in Clients : call'[y].at \in {"insert", "book"} /\ call'[y].read # NoRow =>
                           rowLock'[Account(y)] = y /\ row'[Account(y)] = call'[y].read
      BY DEF RowsAreHeld, Account
    <3>3. \A c \in Accepts : call'[c] = call[c]
      BY <1>1, <2>3 DEF Clients
    <3>4. GrantsFit'
      BY <3>3 DEF RowInv, GrantsFit
    <3> QED
      BY <3>1, <3>2, <3>4
  <2> QED
    BY <2>2, <2>3, <2>4, <2>6, <2>8 DEF RowInv, TypeOK, CallsOK, Calls
<1>6. CASE IncRolling(u)
  <2>1. PICK p \in {"release", "done"} : Goto(u, p)
    BY <1>6 DEF IncRolling
  <2>2. rolling' \in [Accounts -> Nat] /\ UNCHANGED <<lock, tables, rowLock, faults>>
    BY <1>1, <1>6 DEF IncRolling, RowInv, TypeOK
  <2>3. CallsOK' /\ call'[u].at = p /\ \A y \in Clients \ {u} : call'[y] = call[y]
    BY <1>1, <2>1, PlaceMoves DEF RowInv, UpdatePlaces
  <2>4. RowsAreHeld' /\ GrantsFit'
    BY <1>1, <2>2, <2>3, OthersKeepRows DEF tables
  <2> QED
    BY <2>2, <2>3, <2>4 DEF RowInv, TypeOK, tables, CallsOK, Calls
<1>7. CASE ReleaseReservation(u)
  <2>1. PICK p \in {"unlock", "done"} : Goto(u, p)
    BY <1>7 DEF ReleaseReservation
  <2>2. journal' \subseteq journal /\ UNCHANGED <<lock, row, rowLock, applied, booked, rolling, faults>>
    BY <1>7 DEF ReleaseReservation
  <2>3. CallsOK' /\ call'[u].at = p /\ \A y \in Clients \ {u} : call'[y] = call[y]
    BY <1>1, <2>1, PlaceMoves DEF RowInv, UpdatePlaces
  <2>4. RowsAreHeld' /\ GrantsFit'
    BY <1>1, <2>2, <2>3, OthersKeepRows
  <2> QED
    BY <2>2, <2>3, <2>4 DEF RowInv, TypeOK, CallsOK, Calls
<1>8. CASE UnlockReservation(u)
  <2>1. Goto(u, "done") /\ lock' \in [Rfqs -> Accepts \cup {Free}] /\ UNCHANGED <<tables, rowLock, rolling, faults>>
    BY <1>8 DEF UnlockReservation, Unlock, RowInv, TypeOK
  <2>2. CallsOK' /\ call'[u].at = "done" /\ \A y \in Clients \ {u} : call'[y] = call[y]
    BY <1>1, <2>1, PlaceMoves DEF RowInv, UpdatePlaces
  <2>3. RowsAreHeld' /\ GrantsFit'
    BY <1>1, <2>1, <2>2, OthersKeepRows DEF tables
  <2> QED
    BY <2>1, <2>2, <2>3 DEF RowInv, TypeOK, tables, CallsOK, Calls
<1> QED
  BY <1>3, <1>4, <1>5, <1>6, <1>7, <1>8 DEF Update

LEMMA EnvironmentKeepsRows ==
  ASSUME RowInv, (\E r \in Rfqs : LockExpires(r)) \/ (\E c \in Clients : Crash(c))
  PROVE  RowInv'
<1>1. ASSUME NEW r \in Rfqs, LockExpires(r)
      PROVE  RowInv'
  BY <1>1 DEF LockExpires, tables, RowInv, TypeOK, CallsOK, Calls, RowsAreHeld, GrantsFit, Account
<1>2. ASSUME NEW c \in Clients, Crash(c)
      PROVE  RowInv'
  <2>1. Goto(c, "failed") /\ EndTransaction(c) /\ UNCHANGED <<lock, tables, rolling>>
    BY <1>2 DEF Crash
  <2>2. CallsOK' /\ call'[c].at = "failed" /\ \A y \in Clients \ {c} : call'[y] = call[y]
    BY <2>1, PlaceMoves DEF RowInv, AcceptPlaces, UpdatePlaces
  <2>3. rowLock' \in [Accounts -> Clients \cup {Free}] /\ \A a \in Accounts : rowLock[a] # c => rowLock'[a] = rowLock[a]
    BY <2>1, EndsTransaction DEF RowInv
  <2>4. faults' \in 0 .. MaxFaults
    BY <1>2, BoundsAssumption DEF Crash, Fault, RowInv, TypeOK
  <2>5. RowsAreHeld' /\ GrantsFit'
    BY <2>1, <2>2, <2>3, OthersKeepRows DEF tables
  <2> QED
    BY <2>1, <2>2, <2>3, <2>4, <2>5 DEF RowInv, TypeOK, tables, CallsOK, Calls
<1> QED
  BY <1>1, <1>2

LEMMA StepKeepsRows == RowInv /\ [Next]_vars => RowInv'
<1> SUFFICES ASSUME RowInv, [Next]_vars PROVE RowInv'
  OBVIOUS
<1>1. CASE UNCHANGED vars
  BY <1>1 DEF vars, RowInv, TypeOK, CallsOK, Calls, RowsAreHeld, GrantsFit, Account
<1>2. CASE Next
  BY <1>2, ValidateKeepsRows, UpdateKeepsRows, EnvironmentKeepsRows DEF Next
<1> QED
  BY <1>1, <1>2

LEMMA RowsAlways == Spec => []RowInv
BY InitRow, StepKeepsRows, PTL DEF Spec

\* The tables, the Redis keys and the calls of risk-engine.ts keep their
\* shapes, with any number of callers, bookings, crashes and expiries.
THEOREM TypeCorrect == Spec => []TypeOK
<1>1. RowInv => TypeOK
  BY DEF RowInv
<1> QED
  BY <1>1, RowsAlways, PTL

\* Only the INSERT of validateBeforeExecution grants a reservation.
LEMMA OnlyGrantGrants ==
  ASSUME [Next]_vars, NEW c \in journal' \ journal
  PROVE  Grant(c)
<1>1. CASE UNCHANGED vars
  BY <1>1 DEF vars
<1>2. ASSUME NEW d \in Accepts, Validate(d) \/ RollbackReservation(d)
      PROVE  Grant(c)
  BY <1>2 DEF Validate, LockRisk, FindReservation, ReadExposure, Grant, Undo, UnlockRisk, RollbackReservation, tables
<1>3. ASSUME NEW u \in Updates, Update(u)
      PROVE  Grant(c)
  BY <1>3 DEF Update, ApplyIdempotent, SelectExposure, Book, IncRolling, ReleaseReservation, UnlockReservation, tables
<1>4. (\E r \in Rfqs : LockExpires(r)) \/ (\E d \in Clients : Crash(d)) => journal' = journal
  BY DEF LockExpires, Crash, tables
<1> QED
  BY <1>1, <1>2, <1>3, <1>4 DEF Next

\* What validateBeforeExecution checked against the cap still holds when it
\* writes the reservation: FOR UPDATE keeps the row from every other writer.
THEOREM GrantsAreWithinCap == Spec => GrantIsWithinCap
<1>1. ASSUME RowInv, [Next]_vars, NEW c \in journal' \ journal, call[c].read # NoRow
      PROVE  Gross(Account(c)) + Notional[c] <= Cap
  <2>1. Grant(c)
    BY <1>1, OnlyGrantGrants
  <2>2. call[c].at = "insert" /\ c \in Accepts
    <3>1. c \in Accepts
      BY <1>1, StepKeepsRows DEF RowInv, TypeOK
    <3> QED
      BY <2>1, <3>1 DEF Grant, At
  <2>3. row[Account(c)] = call[c].read /\ call[c].read + Notional[c] <= Cap
    BY <1>1, <2>2 DEF RowInv, RowsAreHeld, GrantsFit, Clients
  <2> QED
    BY <1>1, <2>3 DEF Gross
<1>2. RowInv /\ [Next]_vars =>
        [\A c \in journal' \ journal : call[c].read # NoRow => Gross(Account(c)) + Notional[c] <= Cap]_vars
  BY <1>1
<1> QED
  BY <1>2, RowsAlways, PTL DEF Spec, GrantIsWithinCap

----------------------------------------------------------------------------
(* What is booked: every execution once, and the sums of what there is.    *)

Booking == {"select", "book"}

\* The idempotency key lets one update of an execution get as far as booking it.
BookedOnce ==
  /\ \A u \in Updates : call[u].at \in Booking \cup {"rolling"} =>
       /\ ExecutionOf[u] \in applied
       /\ booked[ExecutionOf[u]] = IF call[u].at = "rolling" THEN 1 ELSE 0
  /\ \A u, v \in Updates :
       /\ call[u].at \in Booking \cup {"rolling"} /\ call[v].at \in Booking \cup {"rolling"}
       /\ ExecutionOf[u] = ExecutionOf[v]
       => u = v
  /\ \A e \in Executions : booked[e] \in {0, 1} /\ (booked[e] = 1 => e \in applied)

\* Booked, and not about to be added to the rolling exposure.
RolledFor(a) == {e \in BookedFor(a) : \A u \in Updates : call[u].at = "rolling" => ExecutionOf[u] # e}

SumsMatch ==
  \A a \in Accounts : /\ Gross(a) = SumFunctionOnSet(SizeOfExecution, BookedFor(a))
                      /\ rolling[a] <= SumFunctionOnSet(SizeOfExecution, RolledFor(a))

LEMMA SizesAreNatural ==
  /\ IsFiniteSet(Executions)
  /\ \A e \in Executions : SizeOfExecution[e] = Notional[GrantOf[e]] /\ SizeOfExecution[e] \in Nat
BY ClientsAssumption, NotionalAssumption DEF SizeOfExecution

\* Sums over executions are natural numbers, and grow with the set.
LEMMA ExecutionSums ==
  ASSUME NEW S \in SUBSET Executions
  PROVE  /\ SumFunctionOnSet(SizeOfExecution, S) \in Nat
         /\ \A T \in SUBSET S : SumFunctionOnSet(SizeOfExecution, T) <= SumFunctionOnSet(SizeOfExecution, S)
         /\ \A e \in Executions \ S :
              SumFunctionOnSet(SizeOfExecution, S \cup {e}) = SizeOfExecution[e] + SumFunctionOnSet(SizeOfExecution, S)
<1>1. IsFiniteSet(S) /\ \A e \in S : SizeOfExecution[e] \in Nat
  BY SizesAreNatural, FS_Subset
<1>2. SumFunctionOnSet(SizeOfExecution, S) \in Nat
  BY <1>1, SumOfNaturals
<1>3. \A T \in SUBSET S : SumFunctionOnSet(SizeOfExecution, T) <= SumFunctionOnSet(SizeOfExecution, S)
  BY <1>1, SumOfFewer
<1>4. ASSUME NEW e \in Executions \ S
      PROVE  SumFunctionOnSet(SizeOfExecution, S \cup {e}) = SizeOfExecution[e] + SumFunctionOnSet(SizeOfExecution, S)
  <2>1. \A y \in S \cup {e} : SizeOfExecution[y] \in Int
    BY SizesAreNatural
  <2> QED
    BY <1>1, <2>1, SumWithOneMore
<1> QED
  BY <1>2, <1>3, <1>4

LEMMA InitBooked == Init => BookedOnce /\ SumsMatch
<1> SUFFICES ASSUME Init PROVE BookedOnce /\ SumsMatch
  OBVIOUS
<1>1. BookedOnce
  BY DEF Init, BookedOnce, Booking, Clients
<1>2. ASSUME NEW a \in Accounts
      PROVE  BookedFor(a) = {} /\ RolledFor(a) = {} /\ Gross(a) = 0 /\ rolling[a] = 0
  BY DEF Init, BookedFor, RolledFor, Gross
<1> QED
  BY <1>1, <1>2, SumOfNothing DEF SumsMatch

\* Steps that book nothing.
LEMMA TablesStand ==
  ASSUME BookedOnce, SumsMatch, applied' = applied, booked' = booked, row' = row, rolling' = rolling,
         \A u \in Updates : call'[u].at = call[u].at
  PROVE  BookedOnce' /\ SumsMatch'
<1>1. \A a \in Accounts : BookedFor(a)' = BookedFor(a) /\ RolledFor(a)' = RolledFor(a) /\ Gross(a)' = Gross(a)
  BY DEF BookedFor, RolledFor, Gross
<1>2. SumsMatch'
  BY <1>1 DEF SumsMatch
<1> QED
  BY <1>2 DEF BookedOnce, Booking

\* An update that goes on without writing to the tables.
LEMMA UpdateGoesOn ==
  ASSUME RowInv, BookedOnce, SumsMatch, NEW u \in Updates, booked' = booked, row' = row, rolling' = rolling,
         applied' \in {applied, applied \cup {ExecutionOf[u]}},
         \A v \in Updates \ {u} : call'[v] = call[v],
         call'[u].at # "rolling",
         call'[u].at \in Booking =>
           call[u].at \in Booking \/ (ExecutionOf[u] \notin applied /\ ExecutionOf[u] \in applied')
  PROVE  BookedOnce' /\ SumsMatch'
<1>1. ExecutionOf[u] \in Executions
  BY DEF Executions
<1>2. BookedOnce'
  BY <1>1 DEF BookedOnce, Booking
<1>3. ASSUME NEW a \in Accounts
      PROVE  rolling[a] <= SumFunctionOnSet(SizeOfExecution, RolledFor(a)')
  <2>1. RolledFor(a) \subseteq RolledFor(a)' /\ RolledFor(a)' \subseteq Executions
    BY DEF RolledFor, BookedFor
  <2>2. SumFunctionOnSet(SizeOfExecution, RolledFor(a)) <= SumFunctionOnSet(SizeOfExecution, RolledFor(a)')
        /\ SumFunctionOnSet(SizeOfExecution, RolledFor(a)) \in Nat
        /\ SumFunctionOnSet(SizeOfExecution, RolledFor(a)') \in Nat
    BY <2>1, ExecutionSums
  <2> QED
    BY <2>2 DEF SumsMatch, RowInv, TypeOK
<1>4. \A a \in Accounts : BookedFor(a)' = BookedFor(a) /\ Gross(a)' = Gross(a)
  BY DEF BookedFor, Gross
<1> QED
  BY <1>2, <1>3, <1>4 DEF SumsMatch

LEMMA BookKeeps ==
  ASSUME RowInv, BookedOnce, SumsMatch, NEW u \in Updates, Book(u)
  PROVE  BookedOnce' /\ SumsMatch'
<1> DEFINE a == Account(u)
           e == ExecutionOf[u]
<1>1. u \in Clients /\ u \notin Accepts /\ a \in Accounts /\ e \in Executions
      /\ SizeOfExecution[e] = Notional[Token(u)] /\ a = AccountOf[RfqOf[GrantOf[e]]]
  BY AccountsExist, ClientsAssumption, SizesAreNatural DEF Clients, Executions, Token, Account
<1>2. booked[e] = 0 /\ e \in applied /\ call[u].at = "book" /\ applied' = applied /\ rolling' = rolling
  BY DEF Book, At, BookedOnce, Booking
<1>3. CASE call[u].read = NoRow /\ row[a] # NoRow
  <2>1. Goto(u, "failed") /\ row' = row /\ booked' = booked
    BY <1>3 DEF Book
  <2>2. call'[u].at = "failed" /\ \A v \in Updates \ {u} : call'[v] = call[v]
    BY <1>1, <2>1, PlaceMoves DEF RowInv, UpdatePlaces, Clients
  <2> QED
    BY <1>2, <2>1, <2>2, UpdateGoesOn DEF Booking
<1>4. CASE ~(call[u].read = NoRow /\ row[a] # NoRow)
  <2>1. /\ Goto(u, "rolling")
        /\ row' = [row EXCEPT ![a] = (IF call[u].read = NoRow THEN 0 ELSE call[u].read) + Notional[Token(u)]]
        /\ booked' = [booked EXCEPT ![e] = @ + 1]
    BY <1>4 DEF Book
  <2>2. call'[u].at = "rolling" /\ \A v \in Updates \ {u} : call'[v] = call[v]
    BY <1>1, <2>1, PlaceMoves DEF RowInv, UpdatePlaces, Clients
  <2>3. booked'[e] = 1 /\ \A d \in Executions \ {e} : booked'[d] = booked[d]
    BY <1>1, <1>2, <2>1 DEF RowInv, TypeOK
  <2>4. BookedOnce'
    <3>1. \A v \in Updates \ {u} : call[v].at \in Booking \cup {"rolling"} => ExecutionOf[v] # e
      BY <1>2 DEF BookedOnce, Booking
    <3>2. \A v \in Updates : ExecutionOf[v] \in Executions
      BY DEF Executions
    <3>3. \A v \in Updates : call'[v].at \in Booking \cup {"rolling"} =>
            ExecutionOf[v] \in applied /\ booked'[ExecutionOf[v]] = IF call'[v].at = "rolling" THEN 1 ELSE 0
      BY <1>2, <2>2, <2>3, <3>1, <3>2 DEF BookedOnce, Booking
    <3>4. \A v, w \in Updates :
            call'[v].at \in Booking \cup {"rolling"} /\ call'[w].at \in Booking \cup {"rolling"}
            /\ ExecutionOf[v] = ExecutionOf[w] => v = w
      BY <2>2, <3>1 DEF BookedOnce
    <3>5. \A d \in Executions : booked'[d] \in {0, 1} /\ (booked'[d] = 1 => d \in applied)
      BY <1>2, <2>3 DEF BookedOnce
    <3> QED
      BY <1>2, <3>3, <3>4, <3>5 DEF BookedOnce
  <2>5. Gross(a)' = Gross(a) + SizeOfExecution[e] /\ \A b \in Accounts \ {a} : Gross(b)' = Gross(b)
    <3>1. call[u].read # NoRow => row[a] = call[u].read
      BY <1>1, <1>2 DEF RowInv, RowsAreHeld
    <3>2. row'[a] = Gross(a) + Notional[Token(u)]
      BY <1>1, <1>4, <2>1, <3>1 DEF RowInv, TypeOK, Gross
    <3>3. \A b \in Accounts \ {a} : row'[b] = row[b]
      BY <2>1 DEF RowInv, TypeOK
    <3>4. Gross(a) \in Nat /\ Notional[Token(u)] \in Nat
      BY <1>1, AccountsExist DEF RowInv, TypeOK, Gross
    <3> QED
      BY <1>1, <3>2, <3>3, <3>4, ClientsAssumption DEF Gross
  <2>6. ASSUME NEW b \in Accounts
        PROVE  Gross(b)' = SumFunctionOnSet(SizeOfExecution, BookedFor(b)')
    <3>1. CASE b # a
      <4>1. BookedFor(b)' = BookedFor(b)
        BY <1>1, <2>3, <3>1 DEF BookedFor
      <4> QED
        BY <2>5, <3>1, <4>1 DEF SumsMatch
    <3>2. CASE b = a
      <4>1. BookedFor(a)' = BookedFor(a) \cup {e} /\ e \notin BookedFor(a) /\ BookedFor(a) \subseteq Executions
        BY <1>1, <1>2, <2>3 DEF BookedFor
      <4>2. SumFunctionOnSet(SizeOfExecution, BookedFor(a) \cup {e})
              = SizeOfExecution[e] + SumFunctionOnSet(SizeOfExecution, BookedFor(a))
            /\ SumFunctionOnSet(SizeOfExecution, BookedFor(a)) \in Nat /\ SizeOfExecution[e] \in Nat
        BY <1>1, <4>1, ExecutionSums, SizesAreNatural
      <4> HIDE DEF a, e
      <4>3. Gross(a) = SumFunctionOnSet(SizeOfExecution, BookedFor(a))
        BY <3>2 DEF SumsMatch
      <4> QED
        BY <2>5, <3>2, <4>1, <4>2, <4>3
    <3> QED
      BY <3>1, <3>2
  <2>7. ASSUME NEW b \in Accounts
        PROVE  RolledFor(b)' = RolledFor(b)
    <3>1. \A v \in Updates : call'[v].at = "rolling" => call[v].at = "rolling" \/ v = u
      BY <2>2
    <3>2. \A v \in Updates : call[v].at = "rolling" => v # u /\ call'[v].at = "rolling"
      BY <1>2, <2>2
    <3>3. e \notin RolledFor(b) /\ e \notin RolledFor(b)'
      BY <1>2, <2>2 DEF RolledFor, BookedFor
    <3>4. \A d \in Executions \ {e} : d \in BookedFor(b)' <=> d \in BookedFor(b)
      BY <2>3 DEF BookedFor
    <3>5. \A d \in Executions \ {e} : d \in RolledFor(b)' <=> d \in RolledFor(b)
      BY <3>1, <3>2, <3>4 DEF RolledFor
    <3>6. RolledFor(b) \subseteq Executions /\ RolledFor(b)' \subseteq Executions
      BY DEF RolledFor, BookedFor
    <3> QED
      BY <3>3, <3>5, <3>6
  <2>8. SumsMatch'
    BY <1>2, <2>6, <2>7 DEF SumsMatch
  <2> QED
    BY <2>4, <2>8
<1> QED
  BY <1>3, <1>4

LEMMA IncRollingKeeps ==
  ASSUME RowInv, BookedOnce, SumsMatch, NEW u \in Updates, IncRolling(u)
  PROVE  BookedOnce' /\ SumsMatch'
<1> DEFINE a == Account(u)
           e == ExecutionOf[u]
<1>1. u \in Clients /\ u \notin Accepts /\ a \in Accounts /\ e \in Executions
      /\ SizeOfExecution[e] = Notional[Token(u)] /\ a = AccountOf[RfqOf[GrantOf[e]]]
      /\ SizeOfExecution[e] \in Nat
  BY AccountsExist, ClientsAssumption, SizesAreNatural DEF Clients, Executions, Token, Account
<1>2. call[u].at = "rolling" /\ booked[e] = 1
      /\ applied' = applied /\ booked' = booked /\ row' = row
  BY DEF IncRolling, At, BookedOnce, Booking, tables
<1>3. PICK p \in {"release", "done"} : Goto(u, p)
  BY DEF IncRolling
<1>4. call'[u].at = p /\ \A v \in Updates \ {u} : call'[v] = call[v]
  BY <1>1, <1>3, PlaceMoves DEF RowInv, UpdatePlaces, Clients
<1>5. rolling'[a] = rolling[a] + SizeOfExecution[e] /\ \A b \in Accounts \ {a} : rolling'[b] = rolling[b]
  BY <1>1 DEF IncRolling, RowInv, TypeOK
<1>6. BookedOnce'
  BY <1>2, <1>4 DEF BookedOnce, Booking
<1>7. \A b \in Accounts : Gross(b)' = Gross(b) /\ BookedFor(b)' = BookedFor(b)
  BY <1>2 DEF Gross, BookedFor
<1>8. ASSUME NEW b \in Accounts
      PROVE  RolledFor(b)' = IF b = a THEN RolledFor(b) \cup {e} ELSE RolledFor(b)
  <2>1. \A d \in Executions \ {e} : d \in RolledFor(b)' <=> d \in RolledFor(b)
    BY <1>4, <1>7 DEF RolledFor
  <2>2. e \in RolledFor(b)' <=> b = a
    <3>1. \A v \in Updates : call'[v].at = "rolling" => ExecutionOf[v] # e
      BY <1>2, <1>4 DEF BookedOnce
    <3>2. e \in BookedFor(b)' <=> b = a
      BY <1>1, <1>2 DEF BookedFor
    <3> QED
      BY <3>1, <3>2 DEF RolledFor
  <2>3. e \notin RolledFor(b)
    BY <1>2 DEF RolledFor
  <2>4. RolledFor(b) \subseteq Executions /\ RolledFor(b)' \subseteq Executions
    BY DEF RolledFor, BookedFor
  <2> HIDE DEF a, e
  <2> QED
    BY <1>1, <2>1, <2>2, <2>3, <2>4
<1>9. ASSUME NEW b \in Accounts
      PROVE  rolling'[b] <= SumFunctionOnSet(SizeOfExecution, RolledFor(b)')
  <2>1. CASE b # a
    BY <1>5, <1>8, <2>1 DEF SumsMatch
  <2>2. CASE b = a
    <3>1. e \notin RolledFor(a) /\ RolledFor(a) \subseteq Executions
      BY <1>2 DEF RolledFor, BookedFor
    <3>2. SumFunctionOnSet(SizeOfExecution, RolledFor(a) \cup {e})
            = SizeOfExecution[e] + SumFunctionOnSet(SizeOfExecution, RolledFor(a))
          /\ SumFunctionOnSet(SizeOfExecution, RolledFor(a)) \in Nat
      BY <1>1, <3>1, ExecutionSums
    <3>3. rolling[a] \in Nat /\ rolling[a] <= SumFunctionOnSet(SizeOfExecution, RolledFor(a))
      BY <1>1 DEF SumsMatch, RowInv, TypeOK
    <3>4. RolledFor(b)' = RolledFor(a) \cup {e}
      BY <1>8, <2>2
    <3> HIDE DEF a, e
    <3> QED
      BY <1>1, <1>5, <2>2, <3>2, <3>3, <3>4
  <2> QED
    BY <2>1, <2>2
<1>10. SumsMatch'
  BY <1>7, <1>9 DEF SumsMatch
<1> QED
  BY <1>6, <1>10

LEMMA StepBooks == RowInv /\ BookedOnce /\ SumsMatch /\ [Next]_vars => BookedOnce' /\ SumsMatch'
<1> SUFFICES ASSUME RowInv, BookedOnce, SumsMatch, [Next]_vars PROVE BookedOnce' /\ SumsMatch'
  OBVIOUS
<1>1. CASE UNCHANGED vars
  BY <1>1, TablesStand DEF vars
<1>2. ASSUME NEW c \in Accepts, Validate(c) \/ RollbackReservation(c)
      PROVE  BookedOnce' /\ SumsMatch'
  <2>1. applied' = applied /\ booked' = booked /\ row' = row /\ rolling' = rolling
    BY <1>2 DEF Validate, LockRisk, FindReservation, ReadExposure, Grant, Undo, UnlockRisk, RollbackReservation, tables
  <2>2. \A u \in Updates : call'[u] = call[u]
    BY <1>2, ClientsAssumption DEF Validate, LockRisk, FindReservation, ReadExposure, SelectForUpdate, Grant, Undo,
      UnlockRisk, RollbackReservation, Goto, RowInv, CallsOK, Clients
  <2> QED
    BY <2>1, <2>2, TablesStand
<1>3. ASSUME NEW u \in Updates, Update(u)
      PROVE  BookedOnce' /\ SumsMatch'
  <2>1. u \in Clients /\ u \notin Accepts
    BY ClientsAssumption DEF Clients
  <2>2. CASE ApplyIdempotent(u)
    <3>1. PICK p \in {"select", "release", "done"} : Goto(u, p) /\ (p = "select" => ExecutionOf[u] \notin applied)
      BY <2>2 DEF ApplyIdempotent
    <3>2. applied' = applied \cup {ExecutionOf[u]} /\ booked' = booked /\ row' = row /\ rolling' = rolling
      BY <2>2 DEF ApplyIdempotent
    <3>3. call'[u].at = p /\ \A v \in Updates \ {u} : call'[v] = call[v]
      BY <2>1, <3>1, PlaceMoves DEF RowInv, UpdatePlaces, Clients
    <3> QED
      BY <3>1, <3>2, <3>3, UpdateGoesOn DEF Booking
  <2>3. CASE SelectExposure(u)
    <3>1. SelectForUpdate(u, "book") /\ applied' = applied /\ booked' = booked /\ row' = row /\ rolling' = rolling
          /\ call[u].at = "select"
      BY <2>3 DEF SelectExposure, tables, At
    <3>2. call'[u].at = "book" /\ \A v \in Updates \ {u} : call'[v] = call[v]
      BY <2>1, <3>1, SelectMoves DEF RowInv, UpdatePlaces, Clients
    <3> QED
      BY <3>1, <3>2, UpdateGoesOn DEF Booking
  <2>4. CASE ReleaseReservation(u)
    <3>1. PICK p \in {"unlock", "done"} : Goto(u, p)
      BY <2>4 DEF ReleaseReservation
    <3>2. applied' = applied /\ booked' = booked /\ row' = row /\ rolling' = rolling
      BY <2>4 DEF ReleaseReservation
    <3>3. call'[u].at = p /\ \A v \in Updates \ {u} : call'[v] = call[v]
      BY <2>1, <3>1, PlaceMoves DEF RowInv, UpdatePlaces, Clients
    <3> QED
      BY <3>1, <3>2, <3>3, UpdateGoesOn DEF Booking
  <2>5. CASE UnlockReservation(u)
    <3>1. Goto(u, "done") /\ applied' = applied /\ booked' = booked /\ row' = row /\ rolling' = rolling
      BY <2>5 DEF UnlockReservation, tables
    <3>2. call'[u].at = "done" /\ \A v \in Updates \ {u} : call'[v] = call[v]
      BY <2>1, <3>1, PlaceMoves DEF RowInv, UpdatePlaces, Clients
    <3> QED
      BY <3>1, <3>2, UpdateGoesOn DEF Booking
  <2> QED
    BY <1>3, <2>2, <2>3, <2>4, <2>5, BookKeeps, IncRollingKeeps DEF Update
<1>4. ASSUME NEW r \in Rfqs, LockExpires(r)
      PROVE  BookedOnce' /\ SumsMatch'
  BY <1>4, TablesStand DEF LockExpires, tables
<1>5. ASSUME NEW c \in Clients, Crash(c)
      PROVE  BookedOnce' /\ SumsMatch'
  <2>1. Goto(c, "failed") /\ applied' = applied /\ booked' = booked /\ row' = row /\ rolling' = rolling
    BY <1>5 DEF Crash, tables
  <2>2. call'[c].at = "failed" /\ \A y \in Clients \ {c} : call'[y] = call[y]
    BY <2>1, PlaceMoves DEF RowInv, AcceptPlaces, UpdatePlaces
  <2>3. CASE c \in Updates
    BY <2>1, <2>2, <2>3, UpdateGoesOn DEF Booking, Clients
  <2>4. CASE c \notin Updates
    BY <2>1, <2>2, <2>4, TablesStand DEF Clients
  <2> QED
    BY <2>3, <2>4
<1> QED
  BY <1>1, <1>2, <1>3, <1>4, <1>5 DEF Next

\* Whichever transactions run side by side, are retried or die, the exposure of
\* an account is the sum of the executions booked for it, each of them once, and
\* the rolling exposure is never ahead of it.
THEOREM ExposureMatchesBookings == Spec => []ExposureIsBooked
<1>1. ASSUME RowInv, BookedOnce, SumsMatch
      PROVE  ExposureIsBooked
  <2>1. \A e \in Executions : booked[e] <= 1
    BY <1>1 DEF BookedOnce
  <2>2. ASSUME NEW a \in Accounts
        PROVE  Gross(a) = SumFunctionOnSet(SizeOfExecution, BookedFor(a)) /\ rolling[a] <= Gross(a)
    <3>1. RolledFor(a) \subseteq BookedFor(a) /\ BookedFor(a) \subseteq Executions
      BY DEF RolledFor, BookedFor
    <3>2. /\ SumFunctionOnSet(SizeOfExecution, RolledFor(a)) <= SumFunctionOnSet(SizeOfExecution, BookedFor(a))
          /\ SumFunctionOnSet(SizeOfExecution, RolledFor(a)) \in Nat
          /\ SumFunctionOnSet(SizeOfExecution, BookedFor(a)) \in Nat
      BY <3>1, ExecutionSums
    <3>3. rolling[a] \in Nat
      BY <1>1 DEF RowInv, TypeOK
    <3> QED
      BY <1>1, <3>2, <3>3 DEF SumsMatch
  <2> QED
    BY <1>1, <2>1, <2>2 DEF ExposureIsBooked, RowInv
<1> QED
  BY <1>1, InitBooked, StepBooks, RowsAlways, PTL DEF Spec

----------------------------------------------------------------------------
(* While the lock outlives its transaction: who has it, and what no other  *)
(* call can have granted meanwhile.                                        *)

AfterGrant == {"granted", "unlock", "refused", "failed"}

\* A booking is of a call that was granted, and never runs that call's check.
Granted == \A u \in Updates : call[u].at # "idle" => call[Token(u)].at \in AfterGrant

\* A call in its transaction has the Redis lock of its RFQ.
Holds == \A c \in Accepts : InTransaction(c) => lock[RfqOf[c]] = c

\* What findActiveReservation did not find is still not there.
Unreserved == \A c \in Accepts : call[c].at \in {"read", "insert"} => ~Reserved(RfqOf[c])

Guarded == Granted /\ Holds /\ Unreserved

LEMMA InitGuarded == Init => Guarded
<1> SUFFICES ASSUME Init PROVE Guarded
  OBVIOUS
<1>1. \A x \in Clients : call[x].at = "idle"
  BY DEF Init
<1> QED
  BY <1>1 DEF Guarded, Granted, Holds, Unreserved, InTransaction, Clients

\* One call moves; nobody loses a lock it needs, and nothing else is granted.
LEMMA OthersKeepGuards ==
  ASSUME RowInv, Guarded, NEW x \in Clients,
         \A y \in Clients \ {x} : call'[y] = call[y],
         \A r \in Rfqs : lock[r] \in Accepts \ {x} /\ InTransaction(lock[r]) => lock'[r] = lock[r],
         x \in Accepts /\ InTransaction(x)' => lock'[RfqOf[x]] = x,
         x \in Accepts /\ call[x].at \in AfterGrant => call'[x].at \in AfterGrant,
         x \in Updates /\ call'[x].at # "idle" => call[Token(x)].at \in AfterGrant,
         \A d \in journal' : d \in journal \/ (d = x /\ InTransaction(x) /\ x \in Accepts),
         x \in Accepts /\ call'[x].at \in {"read", "insert"} => ~Reserved(RfqOf[x])'
  PROVE  Guarded'
<1>1. ASSUME NEW u \in Updates, call'[u].at # "idle"
      PROVE  call'[Token(u)].at \in AfterGrant
  <2>1. call[Token(u)].at \in AfterGrant /\ Token(u) \in Accepts
    BY <1>1, AccountsExist DEF Guarded, Granted, Clients
  <2> QED
    BY <2>1 DEF Clients
<1>2. ASSUME NEW c \in Accepts, InTransaction(c)'
      PROVE  lock'[RfqOf[c]] = c
  <2>1. CASE c # x
    <3>1. InTransaction(c) /\ lock[RfqOf[c]] = c /\ RfqOf[c] \in Rfqs
      BY <1>2, <2>1, AccountsExist DEF InTransaction, Guarded, Holds, Clients
    <3> QED
      BY <2>1, <3>1
  <2> QED
    BY <1>2, <2>1
<1>3. ASSUME NEW c \in Accepts, call'[c].at \in {"read", "insert"}
      PROVE  ~Reserved(RfqOf[c])'
  <2>1. CASE c # x
    <3>1. call[c].at \in {"read", "insert"} /\ InTransaction(c)
      BY <1>3, <2>1 DEF InTransaction, Clients
    <3>2. lock[RfqOf[c]] = c /\ ~Reserved(RfqOf[c])
      BY <3>1 DEF Guarded, Holds, Unreserved
    <3>3. x \in Accepts /\ InTransaction(x) => RfqOf[x] # RfqOf[c]
      BY <2>1, <3>2 DEF Guarded, Holds
    <3> QED
      BY <3>2, <3>3 DEF Reserved
  <2> QED
    BY <1>3, <2>1
<1> QED
  BY <1>1, <1>2, <1>3 DEF Guarded, Granted, Holds, Unreserved, Token

LEMMA ValidateKeepsGuards ==
  ASSUME RowInv, Guarded, NEW c \in Accepts, Validate(c) \/ RollbackReservation(c)
  PROVE  Guarded'
<1>1. c \in Clients /\ c \notin Updates /\ Free \notin Accepts /\ RfqOf[c] \in Rfqs
  BY AccountsExist, ClientsAssumption DEF Clients
<1>2. lock \in [Rfqs -> Accepts \cup {Free}]
  BY DEF RowInv, TypeOK
<1>3. CASE LockRisk(c)
  <2>1. call'[c].at \in {"find", "idle", "refused"} /\ \A y \in Clients \ {c} : call'[y] = call[y]
    BY <1>3, LockMoves
  <2>2. journal' = journal /\ call[c].at = "idle"
    BY <1>3 DEF LockRisk, tables, At
  <2>3. \A r \in Rfqs : lock[r] # Free => lock'[r] = lock[r]
    BY <1>2, <1>3 DEF LockRisk
  <2>4. call'[c].at = "find" => lock'[RfqOf[c]] = c
    <3>1. CASE lock[RfqOf[c]] = Free
      BY <1>1, <1>2, <1>3, <3>1 DEF LockRisk
    <3>2. CASE lock[RfqOf[c]] # Free
      BY <1>1, <1>3, <3>2 DEF LockRisk, RowInv, CallsOK, Calls
    <3> QED
      BY <3>1, <3>2
  <2> QED
    BY <1>1, <2>1, <2>2, <2>3, <2>4, OthersKeepGuards DEF InTransaction, AfterGrant
<1>4. CASE FindReservation(c)
  <2>1. PICK p \in {"undo", "read"} : Goto(c, p) /\ (p = "read" => ~Reserved(RfqOf[c]))
    BY <1>4 DEF FindReservation
  <2>2. call'[c].at = p /\ \A y \in Clients \ {c} : call'[y] = call[y]
    BY <1>1, <2>1, PlaceMoves DEF RowInv, AcceptPlaces
  <2>3. lock' = lock /\ journal' = journal /\ call[c].at = "find"
    BY <1>4 DEF FindReservation, tables, At
  <2> QED
    BY <1>1, <2>1, <2>2, <2>3, OthersKeepGuards DEF InTransaction, AfterGrant, Reserved, Guarded, Holds
<1>5. CASE ReadExposure(c)
  <2>1. PICK p \in {"insert", "undo"} : SelectForUpdate(c, p)
    BY <1>5 DEF ReadExposure
  <2>2. call'[c].at = p /\ \A y \in Clients \ {c} : call'[y] = call[y]
    BY <1>1, <2>1, SelectMoves DEF RowInv, AcceptPlaces
  <2>3. lock' = lock /\ journal' = journal /\ call[c].at = "read"
    BY <1>5 DEF ReadExposure, tables, At
  <2> QED
    BY <1>1, <2>1, <2>2, <2>3, OthersKeepGuards DEF InTransaction, AfterGrant, Reserved, Guarded, Holds, Unreserved
<1>6. CASE Grant(c)
  <2>1. call'[c].at = "granted" /\ \A y \in Clients \ {c} : call'[y] = call[y]
    BY <1>1, <1>6, PlaceMoves DEF Grant, RowInv, AcceptPlaces
  <2>2. lock' = lock /\ journal' = journal \cup {c} /\ call[c].at = "insert"
    BY <1>6 DEF Grant, At
  <2> QED
    BY <1>1, <2>1, <2>2, OthersKeepGuards DEF InTransaction, AfterGrant
<1>7. CASE Undo(c)
  <2>1. call'[c].at = "unlock" /\ \A y \in Clients \ {c} : call'[y] = call[y]
    BY <1>1, <1>7, PlaceMoves DEF Undo, RowInv, AcceptPlaces
  <2>2. lock' = lock /\ journal' = journal /\ call[c].at = "undo"
    BY <1>7 DEF Undo, tables, At
  <2> QED
    BY <1>1, <2>1, <2>2, OthersKeepGuards DEF InTransaction, AfterGrant
<1>8. CASE UnlockRisk(c)
  <2>1. call'[c].at = "refused" /\ \A y \in Clients \ {c} : call'[y] = call[y]
    BY <1>1, <1>8, PlaceMoves DEF UnlockRisk, RowInv, AcceptPlaces
  <2>2. journal' = journal /\ call[c].at = "unlock" /\ \A r \in Rfqs : lock[r] # c => lock'[r] = lock[r]
    BY <1>2, <1>8 DEF UnlockRisk, Unlock, tables, At
  <2> QED
    BY <1>1, <2>1, <2>2, OthersKeepGuards DEF InTransaction, AfterGrant
<1>9. CASE RollbackReservation(c)
  <2>1. PICK p \in {"unlock", "refused"} : Goto(c, p)
    BY <1>9 DEF RollbackReservation
  <2>2. call'[c].at = p /\ \A y \in Clients \ {c} : call'[y] = call[y]
    BY <1>1, <2>1, PlaceMoves DEF RowInv, AcceptPlaces
  <2>3. lock' = lock /\ journal' \subseteq journal /\ call[c].at = "granted"
    BY <1>9 DEF RollbackReservation, At
  <2> QED
    BY <1>1, <2>1, <2>2, <2>3, OthersKeepGuards DEF InTransaction, AfterGrant
<1> QED
  BY <1>3, <1>4, <1>5, <1>6, <1>7, <1>8, <1>9 DEF Validate

LEMMA UpdateKeepsGuards ==
  ASSUME RowInv, Guarded, NEW u \in Updates, Update(u)
  PROVE  Guarded'
<1>1. u \in Clients /\ u \notin Accepts /\ Token(u) \in Accepts /\ RfqOf[Token(u)] \in Rfqs
  BY AccountsExist, ClientsAssumption DEF Clients
<1>2. lock \in [Rfqs -> Accepts \cup {Free}]
  BY DEF RowInv, TypeOK
<1>3. call[Token(u)].at \in AfterGrant
  <2>1. call[u].at = "idle" => At(Token(u), "granted")
    BY DEF Update, ApplyIdempotent, SelectExposure, Book, IncRolling, ReleaseReservation, UnlockReservation, At
  <2> QED
    BY <2>1 DEF Guarded, Granted, At, AfterGrant
<1>4. ~InTransaction(Token(u))
  BY <1>3 DEF InTransaction, AfterGrant
<1>5. \A y \in Clients \ {u} : call'[y] = call[y]
  BY <1>1 DEF Update, ApplyIdempotent, SelectExposure, SelectForUpdate, Book, IncRolling, ReleaseReservation,
    UnlockReservation, Goto, RowInv, CallsOK
<1>6. journal' \subseteq journal
  BY DEF Update, ApplyIdempotent, SelectExposure, Book, IncRolling, ReleaseReservation, UnlockReservation, tables
<1>7. \A r \in Rfqs : lock[r] # Token(u) => lock'[r] = lock[r]
  <2>1. lock' = lock \/ Unlock(Token(u))
    BY DEF Update, ApplyIdempotent, SelectExposure, Book, IncRolling, ReleaseReservation, UnlockReservation
  <2> QED
    BY <1>2, <2>1 DEF Unlock
<1> QED
  BY <1>1, <1>3, <1>4, <1>5, <1>6, <1>7, OthersKeepGuards

LEMMA EnvironmentKeepsGuards ==
  ASSUME LockOutlives, RowInv, Guarded, (\E r \in Rfqs : LockExpires(r)) \/ (\E c \in Clients : Crash(c))
  PROVE  Guarded'
<1>1. ASSUME NEW r \in Rfqs, LockExpires(r)
      PROVE  Guarded'
  <2>1. call' = call /\ journal' = journal
    BY <1>1 DEF LockExpires, tables
  <2>2. ~InTransaction(lock[r]) /\ \A q \in Rfqs : q # r => lock'[q] = lock[q]
    BY <1>1 DEF LockExpires, RowInv, TypeOK
  <2>3. \A c \in Accepts : InTransaction(c) => lock'[RfqOf[c]] = c
    BY <2>2, AccountsExist DEF Guarded, Holds
  <2> QED
    BY <2>1, <2>3 DEF Guarded, Granted, Holds, Unreserved, InTransaction, Reserved, Token
<1>2. ASSUME NEW c \in Clients, Crash(c)
      PROVE  Guarded'
  <2>1. Goto(c, "failed") /\ lock' = lock /\ journal' = journal /\ call[c].at # "idle"
    BY <1>2 DEF Crash, tables
  <2>2. call'[c].at = "failed" /\ \A y \in Clients \ {c} : call'[y] = call[y]
    BY <2>1, PlaceMoves DEF RowInv, AcceptPlaces, UpdatePlaces
  <2>3. c \in Updates => call[Token(c)].at \in AfterGrant
    BY <2>1 DEF Guarded, Granted
  <2> QED
    BY <2>1, <2>2, <2>3, OthersKeepGuards DEF InTransaction, AfterGrant
<1> QED
  BY <1>1, <1>2

LEMMA StepKeepsGuards == LockOutlives /\ RowInv /\ Guarded /\ [Next]_vars => Guarded'
<1> SUFFICES ASSUME LockOutlives, RowInv, Guarded, [Next]_vars PROVE Guarded'
  OBVIOUS
<1>1. CASE UNCHANGED vars
  BY <1>1 DEF vars, Guarded, Granted, Holds, Unreserved, InTransaction, Reserved, Token
<1>2. CASE Next
  BY <1>2, ValidateKeepsGuards, UpdateKeepsGuards, EnvironmentKeepsGuards DEF Next
<1> QED
  BY <1>1, <1>2

\* With a lock that outlives its transaction the engine keeps the promise of
\* ReservationBook: it grants only while nobody holds a reservation of the
\* RFQ, and takes a row away only by deleting it.
THEOREM EngineImplementsReservations ==
  ASSUME LockOutlives
  PROVE  Spec => ImplementsReservations
<1>1. Init => Promise!ReservationInit
  BY DEF Init, Promise!ReservationInit
<1>2. ASSUME RowInv, Guarded, [Next]_vars
      PROVE  [\E c \in Accepts : Promise!Reserve(c) \/ Promise!Release(c)]_journal
  <2>1. CASE UNCHANGED vars
    BY <2>1 DEF vars
  <2>2. ASSUME NEW c \in Accepts, Grant(c)
        PROVE  Promise!Reserve(c)
    BY <1>2, <2>2 DEF Grant, At, Guarded, Unreserved, Reserved, Promise!Reserve, Promise!HoldersOf
  <2>3. ASSUME NEW c \in Accepts, RollbackReservation(c)
        PROVE  Promise!Release(c)
    BY <2>3 DEF RollbackReservation, Promise!Release
  <2>4. ASSUME NEW u \in Updates, ReleaseReservation(u)
        PROVE  Token(u) \in Accepts /\ Promise!Release(Token(u))
    BY <2>4, AccountsExist DEF ReleaseReservation, Promise!Release
  <2>5. ASSUME NEW c \in Accepts, Validate(c), ~Grant(c)
        PROVE  journal' = journal
    BY <2>5 DEF Validate, LockRisk, FindReservation, ReadExposure, Undo, UnlockRisk, tables
  <2>6. ASSUME NEW u \in Updates, Update(u), ~ReleaseReservation(u)
        PROVE  journal' = journal
    BY <2>6 DEF Update, ApplyIdempotent, SelectExposure, Book, IncRolling, UnlockReservation, tables
  <2>7. (\E r \in Rfqs : LockExpires(r)) \/ (\E d \in Clients : Crash(d)) => journal' = journal
    BY DEF LockExpires, Crash, tables
  <2> QED
    BY <1>2, <2>1, <2>2, <2>3, <2>4, <2>5, <2>6, <2>7 DEF Next
<1>3. Guarded /\ RowInv /\ [Next]_vars => Guarded'
  BY StepKeepsGuards
<1> QED
  BY <1>1, <1>2, <1>3, InitGuarded, RowsAlways, PTL DEF Spec, ImplementsReservations, Promise!ReservationSpec

\* An RFQ has one reservation at a time, so a second acceptance is refused.
THEOREM OneReservationPerRfq ==
  ASSUME LockOutlives
  PROVE  Spec => []Promise!OneReservation
<1>1. Promise!ReservationInit => Promise!OneReservation
  BY DEF Promise!ReservationInit, Promise!OneReservation
<1>2. Promise!OneReservation /\ [\E c \in Accepts : Promise!Reserve(c) \/ Promise!Release(c)]_journal
        => Promise!OneReservation'
  BY DEF Promise!OneReservation, Promise!Reserve, Promise!Release, Promise!HoldersOf
<1>3. Promise!ReservationSpec => []Promise!OneReservation
  BY <1>1, <1>2, PTL DEF Promise!ReservationSpec
<1> QED
  BY <1>3, EngineImplementsReservations DEF ImplementsReservations
=============================================================================
