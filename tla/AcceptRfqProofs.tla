--------------------------- MODULE AcceptRfqProofs ---------------------------
(***************************************************************************)
(* Proofs about AcceptRfq, for any number of acceptances, RFQs and faults, *)
(* while the risk lock outlives its transaction (LockOutlives): an RFQ is  *)
(* sent to venues by at most one acceptance, and its status only moves as  *)
(* its state machine allows, although it is read, checked and written by   *)
(* separate statements of several jobs.                                    *)
(***************************************************************************)
EXTENDS AcceptRfq, TLAPS

----------------------------------------------------------------------------
(* The inductive invariant.                                                *)

Kinds == {"INTERNAL_CROSS", "SOR_PLAN", "LEGACY_RFQ"}
Goals == {"ACCEPTED", "EXECUTING", "SETTLED", "FAILED"}
Unbegun == {"reserve", "insert", "build", "findKey", "insertKey", "open", "openMismatched",
            "block", "check", "approve", "submit"}
Calls == [at : Unbegun \cup {"submitted", "waiting", "ended"}, kind : Kinds \cup {None},
          state : RecordStates \cup {None}, fresh : BOOLEAN]
Router == {"routerRead", "routerLock", "start", "quotes", "fail", "book", "unlock"}
Jobs == [at : Router \cup {"none", "release", "read", "write", "run", "done", "threw", "died"},
         goal : Goals \cup {None}, seen : RfqStatuses \cup {None},
         result : {"COMPLETED", "PARTIAL", "FAILED", None},
         rank : 0 .. Ranks, found : BOOLEAN, stale : BOOLEAN]

Types == /\ TypeOK
         /\ call \in [Accepts -> Calls] /\ job \in [Accepts -> Jobs]
         /\ binding \in [Rfqs -> Accepts \cup Kinds \cup {None}]

\* Until a call has bound its key it holds the reservation of its RFQ, and the
\* call of a quote holds it for ever.
Reserved(c) ==
  /\ (call[c].at \in {"build", "findKey", "insertKey"} \/ call[c].kind = "LEGACY_RFQ") => c \in journal
  /\ call[c].at \in {"reserve", "insert", "build"} => call[c].kind = None
  /\ call[c].at \in Unbegun => job[c].at = "none"

\* A call only gets on to its job when the key of its RFQ is bound to it, or
\* to its kind when that is not a plan.
Bound(c) ==
  /\ call[c].at \notin {"reserve", "insert", "build", "ended"} => call[c].kind \in Kinds
  /\ call[c].at = "insertKey" => binding[Rfq(c)] = None
  /\ (call[c].at \in {"open", "check", "approve", "submit"} \/ job[c].at # "none") =>
       call[c].kind \in Kinds /\ binding[Rfq(c)] = BindingOf(c)
  /\ c \in executed => job[c].at # "none" /\ call[c].kind # "INTERNAL_CROSS"

\* What the handler of each kind is at, and what it has looked up still holds.
JobOK(c) ==
  LET j == job[c]
      k == call[c].kind
      s == status[Rfq(c)]
  IN  /\ j.at = "release" => k = "INTERNAL_CROSS" /\ j.goal = "ACCEPTED"
      /\ j.at = "run" => k = "SOR_PLAN"
      /\ j.at \in Router => k = "LEGACY_RFQ"
      /\ j.at \in {"read", "write"} =>
           /\ j.goal \in Goals
           /\ j.goal = "EXECUTING" => k = "SOR_PLAN"
           /\ k = "INTERNAL_CROSS" => j.goal \in {"ACCEPTED", "SETTLED"}
      /\ j.at = "write" => /\ s = j.goal \/ RfqCanMove(s, j.goal)
                           /\ k = "INTERNAL_CROSS" => j.goal = "ACCEPTED"
      /\ j.at \in {"routerLock", "start"} => j.seen = s
      /\ j.at \in {"quotes", "fail", "book"} => s = "EXECUTING"

CallOK(c) == Reserved(c) /\ Bound(c) /\ JobOK(c)

\* An RFQ that is only crossed goes no further than ACCEPTED.
Early == {"BROADCAST", "AWAITING_USER", "ACCEPTED"}
RfqOK(r) == binding[r] \in {None, "INTERNAL_CROSS"} => status[r] \in Early

\* A reservation is held from the moment nobody else is seen to have one.
Holds(c) == c \in journal \/ call[c].at = "insert"
OneHolder == \A c, d \in Accepts : Holds(c) /\ Holds(d) /\ Rfq(c) = Rfq(d) => c = d

Inv == /\ Types /\ OneHolder
       /\ \A c \in Accepts : CallOK(c)
       /\ \A r \in Rfqs : RfqOK(r)

----------------------------------------------------------------------------
(* The state machines.                                                     *)

LEMMA Statuses ==
  RfqStatuses = {"CREATED", "BROADCAST", "COLLECTING_QUOTES", "RANKING", "AWAITING_USER",
                 "ACCEPTED", "EXECUTING", "SETTLED", "FAILED", "EXPIRED"}
BY DEF RfqStatuses, RfqMoves

LEMMA StatusMoves ==
  /\ RfqCanMove("EXECUTING", "SETTLED") /\ RfqCanMove("EXECUTING", "FAILED")
  /\ \A s \in Early : ~RfqCanMove(s, "SETTLED") /\ s # "SETTLED"
  /\ Early \subseteq RfqStatuses /\ Goals \subseteq RfqStatuses
<1>1. RfqMoves["EXECUTING"] = {"SETTLED", "FAILED"}
  BY DEF RfqMoves
<1>2. /\ RfqMoves["BROADCAST"] = {"COLLECTING_QUOTES", "FAILED", "EXPIRED"}
      /\ RfqMoves["AWAITING_USER"] = {"ACCEPTED", "FAILED", "EXPIRED"}
      /\ RfqMoves["ACCEPTED"] = {"EXECUTING", "FAILED", "EXPIRED"}
  BY DEF RfqMoves
<1>3. Early \subseteq RfqStatuses /\ Goals \subseteq RfqStatuses
  BY Statuses DEF Early, Goals
<1>4. RfqCanMove("EXECUTING", "SETTLED") /\ RfqCanMove("EXECUTING", "FAILED")
  BY <1>1 DEF RfqCanMove
<1>5. \A s \in Early : ~RfqCanMove(s, "SETTLED") /\ s # "SETTLED"
  BY <1>2 DEF RfqCanMove, Early
<1> QED
  BY <1>3, <1>4, <1>5

\* No status moves to itself, so that the cases of ReadStatus exclude each other.
LEMMA NoSelfMove == \A s \in RfqStatuses : ~RfqCanMove(s, s)
<1> SUFFICES ASSUME NEW s \in RfqStatuses PROVE s \notin RfqMoves[s]
  BY DEF RfqCanMove
<1>1. CASE s \in {"CREATED", "BROADCAST", "COLLECTING_QUOTES", "RANKING", "AWAITING_USER"}
  BY <1>1 DEF RfqMoves
<1>2. CASE s \in {"ACCEPTED", "EXECUTING", "SETTLED", "FAILED", "EXPIRED"}
  BY <1>2 DEF RfqMoves
<1> QED
  BY <1>1, <1>2, Statuses

LEMMA States ==
  {"CREATED", "CHECKED", "QUOTED", "APPROVED", "EXECUTING", "PARTIALLY_FILLED", "FILLED",
   "FAILED", "SYNC_PENDING", "SETTLED"} \subseteq RecordStates
BY DEF RecordStates, RecordMoves

LEMMA RfqIsRfq == \A c \in Accepts : Rfq(c) \in Rfqs
BY DEF Rfq, Rfqs

LEMMA NamesDiffer == None \notin Accepts \cup Kinds /\ Accepts \cap Kinds = {}
BY BindingAssumption DEF Kinds

\* Two jobs of one RFQ are either both internal crossings or the same job.
LEMMA Alone ==
  ASSUME Inv, NEW c \in Accepts, NEW d \in Accepts, Rfq(c) = Rfq(d),
         job[c].at # "none", job[d].at # "none"
  PROVE  c = d \/ (call[c].kind = "INTERNAL_CROSS" /\ call[d].kind = "INTERNAL_CROSS")
<1>1. /\ call[c].kind \in Kinds /\ call[d].kind \in Kinds /\ BindingOf(c) = BindingOf(d)
      /\ call[c].kind = "LEGACY_RFQ" => c \in journal
      /\ call[d].kind = "LEGACY_RFQ" => d \in journal
  BY DEF Inv, CallOK, Reserved, Bound
<1>2. CASE call[c].kind = "SOR_PLAN" \/ call[d].kind = "SOR_PLAN"
  BY <1>1, <1>2, NamesDiffer DEF BindingOf, Kinds
<1>3. CASE call[c].kind # "SOR_PLAN" /\ call[d].kind # "SOR_PLAN"
  <2>1. call[c].kind = call[d].kind
    BY <1>1, <1>3 DEF BindingOf
  <2>2. CASE call[c].kind = "LEGACY_RFQ"
    BY <1>1, <2>1, <2>2 DEF Inv, OneHolder, Holds
  <2> QED
    BY <1>1, <1>3, <2>1, <2>2 DEF Kinds
<1> QED
  BY <1>2, <1>3

LEMMA InitInv == Init => Inv
<1> SUFFICES ASSUME Init PROVE Inv
  OBVIOUS
<1>1. NoJob \in Jobs /\ NoJob.at = "none" /\ NoJob.rank = 0
  BY RanksAssumption DEF NoJob, Jobs
<1>2. [at |-> "reserve", kind |-> None, state |-> None, fresh |-> TRUE] \in Calls
  BY DEF Calls, Unbegun
<1>3. /\ call = [c \in Accepts |-> [at |-> "reserve", kind |-> None, state |-> None, fresh |-> TRUE]]
      /\ job = [c \in Accepts |-> NoJob] /\ executed = {} /\ journal = {} /\ faults = 0
      /\ binding = [r \in Rfqs |-> None] /\ status \in [Rfqs -> {"BROADCAST", "AWAITING_USER"}]
  BY DEF Init, ReservationInit
<1>4. status \in [Rfqs -> RfqStatuses]
  BY <1>3, StatusMoves DEF Early
<1>5. Types
  <2>1. TypeOK
    BY <1>1, <1>3, <1>4, MaxFaultsAssumption, RanksAssumption DEF Init, TypeOK
  <2> QED
    BY <1>1, <1>2, <1>3, <2>1 DEF Types
<1>6. \A c \in Accepts : CallOK(c)
  <2> SUFFICES ASSUME NEW c \in Accepts PROVE CallOK(c)
    OBVIOUS
  <2>1. call[c].at = "reserve" /\ call[c].kind = None /\ job[c].at = "none" /\ c \notin executed
    BY <1>1, <1>3
  <2>2. None # "LEGACY_RFQ"
    BY NamesDiffer DEF Kinds
  <2> QED
    BY <2>1, <2>2 DEF CallOK, Reserved, Bound, JobOK, Unbegun, Router
<1>7. OneHolder /\ \A r \in Rfqs : RfqOK(r)
  BY <1>3 DEF OneHolder, Holds, RfqOK, Early
<1> QED
  BY <1>5, <1>6, <1>7 DEF Inv

----------------------------------------------------------------------------
(* A call moves.                                                           *)

LEMMA CallMoves ==
  ASSUME Inv, NEW c \in Accepts, NEW t \in Calls, call' = [call EXCEPT ![c] = t],
         UNCHANGED <<status, executed>>, TypeOK',
         job' \in [Accepts -> Jobs], \A d \in Accepts \ {c} : job'[d] = job[d],
         \/ UNCHANGED journal /\ t.at # "insert"
         \/ Release(c) /\ t.at # "insert"
         \/ journal' = journal \cup {c} /\ call[c].at = "insert" /\ t.at = "build"
         \/ UNCHANGED journal /\ \A d \in Accepts : Holds(d) => Rfq(d) # Rfq(c),
         binding' \in [Rfqs -> Accepts \cup Kinds \cup {None}],
         \A r \in Rfqs : binding'[r] = binding[r] \/ r = Rfq(c),
         binding[Rfq(c)] # None => binding'[Rfq(c)] = binding[Rfq(c)],
         binding'[Rfq(c)] # binding[Rfq(c)] => call[c].at = "insertKey",
         CallOK(c)'
  PROVE  Inv'
<1>1. call' \in [Accepts -> Calls] /\ call'[c] = t /\ \A d \in Accepts \ {c} : call'[d] = call[d]
  BY DEF Inv, Types
<1>2. Types'
  BY <1>1 DEF Types
<1>3. journal \subseteq Accepts
  BY DEF Inv, Types, TypeOK
<1>4. /\ \A d \in Accepts \ {c} : d \in journal' <=> d \in journal
      /\ OneHolder'
  <2>1. \A d \in Accepts \ {c} : (d \in journal' <=> d \in journal) /\ (Holds(d)' <=> Holds(d))
    BY <1>1 DEF Release, Holds
  <2>2. (Holds(c)' => Holds(c)) \/ \A d \in Accepts : Holds(d) => Rfq(d) # Rfq(c)
    BY <1>1 DEF Release, Holds
  <2>3. OneHolder /\ \A d \in Accepts : Rfq(d)' = Rfq(d)
    BY DEF Inv, Rfq
  <2> QED
    BY <2>1, <2>2, <2>3 DEF OneHolder
<1>5. ASSUME NEW d \in Accepts \ {c} PROVE CallOK(d)'
  <2>1. CallOK(d) /\ CallOK(c) /\ Rfq(d) \in Rfqs /\ Rfq(c) \in Rfqs
    BY RfqIsRfq DEF Inv
  <2>2. /\ call'[d] = call[d] /\ job'[d] = job[d] /\ status'[Rfq(d)] = status[Rfq(d)]
        /\ d \in journal' <=> d \in journal
        /\ d \in executed' <=> d \in executed
    BY <1>1, <1>4
  <2>3. binding[Rfq(d)] # None => binding'[Rfq(d)] = binding[Rfq(d)]
    BY <2>1
  <2>4. call[d].at = "insertKey" => binding'[Rfq(d)] = binding[Rfq(d)]
    <3> SUFFICES ASSUME call[d].at = "insertKey", binding'[Rfq(d)] # binding[Rfq(d)] PROVE FALSE
      OBVIOUS
    <3>1. Rfq(d) = Rfq(c) /\ call[c].at = "insertKey"
      BY <2>1
    <3>2. c \in journal /\ d \in journal
      BY <2>1, <3>1 DEF CallOK, Reserved
    <3> QED
      BY <3>1, <3>2 DEF Inv, OneHolder, Holds
  <2>5. Reserved(d)'
    BY <2>1, <2>2 DEF CallOK, Reserved
  <2>6. Bound(d)'
    <3>1. BindingOf(d)' = BindingOf(d) /\ Rfq(d)' = Rfq(d)
      BY <2>2 DEF BindingOf, Rfq
    <3>2. call[d].kind \in Kinds => BindingOf(d) # None
      BY NamesDiffer DEF BindingOf
    <3> QED
      BY <2>1, <2>2, <2>3, <2>4, <3>1, <3>2 DEF CallOK, Bound
  <2>7. JobOK(d)'
    BY <2>1, <2>2 DEF CallOK, JobOK, Rfq, RfqCanMove
  <2> QED
    BY <2>5, <2>6, <2>7 DEF CallOK
<1>6. ASSUME NEW r \in Rfqs PROVE RfqOK(r)'
  <2>1. RfqOK(r) /\ Rfq(c) \in Rfqs
    BY RfqIsRfq DEF Inv
  <2>2. binding'[r] = binding[r] \/ binding[r] = None
    OBVIOUS
  <2> QED
    BY <2>1, <2>2 DEF RfqOK
<1> QED
  BY <1>2, <1>4, <1>5, <1>6 DEF Inv

\* A call that is not at its job, and does nothing to the key.
LEMMA CallGoes ==
  ASSUME Inv, NEW c \in Accepts, NEW t \in Calls, call' = [call EXCEPT ![c] = t],
         t.kind = call[c].kind,
         UNCHANGED <<status, executed, job, binding, sessionLock, faults>>,
         record' \in [Keys -> RecordStates \cup {None}],
         \/ UNCHANGED journal /\ t.at \notin {"insert", "build", "findKey", "insertKey"}
         \/ Release(c) /\ t.kind # "LEGACY_RFQ" /\ t.at = "ended",
         t.at \in Unbegun => call[c].at \in Unbegun /\ t.at # "reserve",
         t.at # "ended" => call[c].at \notin {"reserve", "insert", "build", "ended"},
         t.at \in {"open", "check", "approve", "submit"} => binding[Rfq(c)] = BindingOf(c)
  PROVE  Inv'
<1>1. CallOK(c) /\ Types /\ TypeOK
  BY DEF Inv, Types
<1>2. call'[c] = t
  BY <1>1 DEF Types
<1>3. TypeOK'
  <2>1. journal' \subseteq Accepts
    BY <1>1 DEF TypeOK, Release
  <2> QED
    BY <1>1, <2>1 DEF TypeOK
<1>4. BindingOf(c)' = BindingOf(c) /\ Rfq(c)' = Rfq(c)
  BY <1>2 DEF BindingOf, Rfq
<1>5. Reserved(c)'
  BY <1>1, <1>2 DEF CallOK, Reserved, Release, Unbegun
<1>6. Bound(c)'
  BY <1>1, <1>2, <1>4 DEF CallOK, Bound
<1>7. JobOK(c)'
  BY <1>1, <1>2, <1>4 DEF CallOK, JobOK, RfqCanMove
<1>8. CallOK(c)'
  BY <1>5, <1>6, <1>7 DEF CallOK
<1> QED
  BY <1>1, <1>3, <1>8, CallMoves DEF Types

\* transitionMany leaves the call at the next place, or ends it.
LEMMA RecordMoved ==
  ASSUME Inv, NEW c \in Accepts, NEW path, NEW place \in Unbegun \cup {"ended"},
         path[Len(path)] \in RecordStates, MoveRecord(c, path, place)
  PROVE  /\ record' \in [Keys -> RecordStates \cup {None}]
         /\ \E t \in Calls : /\ call' = [call EXCEPT ![c] = t] /\ t.kind = call[c].kind
                             /\ t.at \in {place, "ended"}
<1>1. call[c] \in Calls /\ record \in [Keys -> RecordStates \cup {None}]
  BY DEF Inv, Types, TypeOK
<1>2. CASE RecordCanMove(call[c].state, path)
  <2> DEFINE t == [call[c] EXCEPT !.at = place, !.state = path[Len(path)]]
  <2>1. t \in Calls /\ t.kind = call[c].kind /\ t.at = place
    BY <1>1 DEF Calls
  <2>2. call' = [call EXCEPT ![c] = t] /\ record' = [record EXCEPT ![KeyOf(c)] = path[Len(path)]]
    BY <1>2 DEF MoveRecord, WriteRecord
  <2> HIDE DEF t
  <2> QED
    BY <1>1, <2>1, <2>2
<1>3. CASE ~RecordCanMove(call[c].state, path)
  <2> DEFINE t == [call[c] EXCEPT !.at = "ended"]
  <2>1. t \in Calls /\ t.kind = call[c].kind /\ t.at = "ended"
    BY <1>1 DEF Calls
  <2>2. call' = [call EXCEPT ![c] = t] /\ record' = record
    BY <1>3 DEF MoveRecord, Goto
  <2> HIDE DEF t
  <2> QED
    BY <1>1, <2>1, <2>2
<1> QED
  BY <1>2, <1>3

\* One lemma per step of a call.
\* The search: while a lock outlives its transaction, nobody else holds one.
LEMMA FindReservationStep ==
  ASSUME LockOutlives, Inv, NEW c \in Accepts, FindReservation(c)
  PROVE  Inv'
<1>1. CallOK(c) /\ Types /\ TypeOK /\ call[c] \in Calls /\ call[c].at = "reserve"
  BY DEF Inv, Types, FindReservation, At
<1>2. UNCHANGED <<config, rows, journal, sessionLock, job, executed, faults>>
  BY DEF FindReservation
<1>3. CASE HoldersOf(Rfq(c)) = {} /\ Reserving(Rfq(c)) = {} /\ Goto(c, "insert")
  <2> DEFINE t == [call[c] EXCEPT !.at = "insert"]
  <2>1. t \in Calls /\ t.kind = call[c].kind /\ t.at = "insert"
    BY <1>1 DEF Calls, Unbegun
  <2>2. call' = [call EXCEPT ![c] = t]
    BY <1>3 DEF Goto
  <2> HIDE DEF t
  <2>3. call'[c] = t
    BY <1>1, <2>2 DEF Types
  <2>4. call[c].kind = None /\ job[c].at = "none" /\ c \notin executed
    BY <1>1 DEF CallOK, Reserved, Bound, Unbegun
  <2>5. CallOK(c)'
    <3>1. None # "LEGACY_RFQ"
      BY NamesDiffer DEF Kinds
    <3>2. Reserved(c)'
      BY <1>2, <2>1, <2>3, <2>4, <3>1 DEF Reserved
    <3>3. Bound(c)'
      BY <1>2, <2>1, <2>3, <2>4 DEF Bound
    <3>4. JobOK(c)'
      BY <1>2, <2>4 DEF JobOK, Router
    <3> QED
      BY <3>2, <3>3, <3>4 DEF CallOK
  <2>6. \A d \in Accepts : Holds(d) => Rfq(d) # Rfq(c)
    BY <1>3 DEF HoldersOf, Reserving, Holds, Rfq, At
  <2>7. TypeOK'
    BY <1>1, <1>2 DEF TypeOK, rows
  <2> QED
    BY <1>1, <1>2, <2>1, <2>2, <2>5, <2>6, <2>7, CallMoves DEF Types, rows
<1>4. CASE Goto(c, "ended")
  <2> DEFINE t == [call[c] EXCEPT !.at = "ended"]
  <2>1. t \in Calls /\ t.kind = call[c].kind /\ t.at = "ended"
    BY <1>1 DEF Calls, Unbegun
  <2>2. call' = [call EXCEPT ![c] = t]
    BY <1>4 DEF Goto
  <2> HIDE DEF t
  <2> QED
    BY <1>1, <1>2, <2>1, <2>2, CallGoes DEF Unbegun, rows, TypeOK
<1> QED
  BY <1>3, <1>4 DEF FindReservation

LEMMA GrantReservationStep ==
  ASSUME Inv, NEW c \in Accepts, GrantReservation(c)
  PROVE  Inv'
<1>1. CallOK(c) /\ Types /\ TypeOK /\ call[c] \in Calls /\ call[c].at = "insert"
  BY DEF Inv, Types, GrantReservation, At
<1>2. UNCHANGED <<config, rows, sessionLock, job, executed, faults>>
  BY DEF GrantReservation
<1>3. CASE journal' = journal \cup {c} /\ Goto(c, "build")
  <2> DEFINE t == [call[c] EXCEPT !.at = "build"]
  <2>1. t \in Calls /\ t.kind = call[c].kind /\ t.at = "build"
    BY <1>1 DEF Calls, Unbegun
  <2>2. call' = [call EXCEPT ![c] = t]
    BY <1>3 DEF Goto
  <2> HIDE DEF t
  <2>3. call'[c] = t /\ c \in journal' /\ journal' \subseteq Accepts
    BY <1>1, <1>3, <2>2 DEF Types, TypeOK
  <2>4. call[c].kind = None /\ job[c].at = "none" /\ c \notin executed
    BY <1>1 DEF CallOK, Reserved, Bound, Unbegun
  <2>5. CallOK(c)'
    <3>1. Reserved(c)'
      BY <1>2, <2>1, <2>3, <2>4 DEF Reserved
    <3>2. Bound(c)'
      BY <1>2, <2>1, <2>3, <2>4 DEF Bound
    <3>3. JobOK(c)'
      BY <1>2, <2>4 DEF JobOK, Router
    <3> QED
      BY <3>1, <3>2, <3>3 DEF CallOK
  <2>6. TypeOK'
    BY <1>1, <1>2, <2>3 DEF TypeOK, rows
  <2> QED
    BY <1>1, <1>2, <1>3, <2>1, <2>2, <2>5, <2>6, CallMoves DEF Types, rows
<1>4. CASE Goto(c, "ended") /\ UNCHANGED journal
  <2> DEFINE t == [call[c] EXCEPT !.at = "ended"]
  <2>1. t \in Calls /\ t.kind = call[c].kind /\ t.at = "ended"
    BY <1>1 DEF Calls, Unbegun
  <2>2. call' = [call EXCEPT ![c] = t]
    BY <1>4 DEF Goto
  <2> HIDE DEF t
  <2> QED
    BY <1>1, <1>2, <1>4, <2>1, <2>2, CallGoes DEF Unbegun, rows, TypeOK
<1> QED
  BY <1>3, <1>4 DEF GrantReservation

LEMMA BuildStep ==
  ASSUME Inv, NEW c \in Accepts, Build(c)
  PROVE  Inv'
<1>1. CallOK(c) /\ Types /\ TypeOK /\ call[c] \in Calls /\ call[c].at = "build"
  BY DEF Inv, Types, Build, At
<1>2. UNCHANGED <<config, rows, journal, sessionLock, job, executed, faults>>
  BY DEF Build
<1>3. PICK kind \in Kinds : call' = [call EXCEPT ![c].at = "findKey", ![c].kind = kind]
  BY DEF Build, Kinds
<1> DEFINE t == [call[c] EXCEPT !.at = "findKey", !.kind = kind]
<1>4. t \in Calls /\ t.kind = kind /\ t.at = "findKey"
  BY <1>1 DEF Calls, Unbegun
<1>5. call' = [call EXCEPT ![c] = t]
  BY <1>3
<1> HIDE DEF t
<1>6. call'[c] = t
  BY <1>1, <1>5 DEF Types
<1>7. c \in journal /\ job[c].at = "none" /\ c \notin executed
  BY <1>1 DEF CallOK, Reserved, Bound, Unbegun
<1>8. CallOK(c)'
  <2>1. Reserved(c)'
    BY <1>2, <1>4, <1>6, <1>7 DEF Reserved
  <2>2. Bound(c)'
    BY <1>2, <1>4, <1>6, <1>7 DEF Bound
  <2>3. JobOK(c)'
    BY <1>2, <1>7 DEF JobOK, Router
  <2> QED
    BY <2>1, <2>2, <2>3 DEF CallOK
<1>9. TypeOK'
  BY <1>1, <1>2 DEF TypeOK, rows
<1> QED
  BY <1>1, <1>2, <1>4, <1>5, <1>8, <1>9, CallMoves DEF Types, rows

LEMMA BuildFailsStep ==
  ASSUME Inv, NEW c \in Accepts, BuildFails(c)
  PROVE  Inv'
<1>1. CallOK(c) /\ Types /\ TypeOK /\ call[c] \in Calls /\ call[c].at = "build" /\ call[c].kind = None
  BY DEF Inv, Types, BuildFails, At, CallOK, Reserved
<1> DEFINE t == [call[c] EXCEPT !.at = "ended"]
<1>2. t \in Calls /\ t.kind = call[c].kind /\ t.at = "ended"
  BY <1>1 DEF Calls
<1>3. call' = [call EXCEPT ![c] = t] /\ Release(c)
  BY DEF BuildFails, Goto
<1>4. UNCHANGED <<config, rows, sessionLock, job, executed, faults>>
  BY DEF BuildFails
<1> HIDE DEF t
<1>5. t.kind # "LEGACY_RFQ"
  BY <1>1, <1>2, NamesDiffer DEF Kinds
<1> QED
  BY <1>1, <1>2, <1>3, <1>4, <1>5, CallGoes DEF Unbegun, rows, TypeOK

LEMMA FindKeyStep ==
  ASSUME Inv, NEW c \in Accepts, FindKey(c)
  PROVE  Inv'
<1>1. CallOK(c) /\ Types /\ TypeOK /\ call[c] \in Calls /\ call[c].at = "findKey"
  BY DEF Inv, Types, FindKey, At
<1>2. UNCHANGED <<config, rows, journal, sessionLock, job, executed, faults>>
  BY DEF FindKey
<1> DEFINE p == CASE binding[Rfq(c)] = None         -> "insertKey"
                  [] binding[Rfq(c)] = BindingOf(c) -> "open"
                  [] OTHER                          -> "openMismatched"
<1>3. PICK fresh \in BOOLEAN : call' = [call EXCEPT ![c].fresh = fresh, ![c].at = p]
  BY DEF FindKey
<1>4. /\ p \in {"insertKey", "open", "openMismatched"}
      /\ p = "insertKey" => binding[Rfq(c)] = None
      /\ p = "open" => binding[Rfq(c)] = BindingOf(c)
  OBVIOUS
<1> DEFINE t == [call[c] EXCEPT !.fresh = fresh, !.at = p]
<1> HIDE DEF p
<1>5. t \in Calls /\ t.kind = call[c].kind /\ t.at = p /\ t.at # "insert"
  BY <1>1, <1>4 DEF Calls, Unbegun
<1>6. call' = [call EXCEPT ![c] = t]
  BY <1>3
<1> HIDE DEF t
<1>7. call'[c] = t
  BY <1>1, <1>6 DEF Types
<1>8. c \in journal /\ job[c].at = "none" /\ c \notin executed /\ call[c].kind \in Kinds
  BY <1>1 DEF CallOK, Reserved, Bound, Unbegun
<1>9. BindingOf(c)' = BindingOf(c) /\ Rfq(c)' = Rfq(c)
  BY <1>5, <1>7 DEF BindingOf, Rfq
<1>10. CallOK(c)'
  <2>1. Reserved(c)'
    BY <1>2, <1>4, <1>5, <1>7, <1>8 DEF Reserved
  <2>2. Bound(c)'
    BY <1>2, <1>4, <1>5, <1>7, <1>8, <1>9 DEF Bound, rows
  <2>3. JobOK(c)'
    BY <1>2, <1>8 DEF JobOK, Router
  <2> QED
    BY <2>1, <2>2, <2>3 DEF CallOK
<1>11. TypeOK'
  BY <1>1, <1>2 DEF TypeOK, rows
<1> QED
  BY <1>1, <1>2, <1>5, <1>6, <1>10, <1>11, CallMoves DEF Types, rows

LEMMA InsertKeyStep ==
  ASSUME Inv, NEW c \in Accepts, InsertKey(c)
  PROVE  Inv'
<1>1. CallOK(c) /\ Types /\ TypeOK /\ call[c] \in Calls /\ call[c].at = "insertKey"
  BY DEF Inv, Types, InsertKey, At
<1>2. UNCHANGED <<config, status, record, journal, sessionLock, job, executed, faults>>
  BY DEF InsertKey
<1>3. /\ c \in journal /\ job[c].at = "none" /\ c \notin executed /\ call[c].kind \in Kinds
      /\ binding[Rfq(c)] = None
  BY <1>1 DEF CallOK, Reserved, Bound, Unbegun
<1>4. binding' = [binding EXCEPT ![Rfq(c)] = BindingOf(c)]
  BY <1>3 DEF InsertKey
<1>5. Rfq(c) \in Rfqs /\ BindingOf(c) \in Accepts \cup Kinds
  BY <1>3, RfqIsRfq DEF BindingOf
<1>6. /\ binding' \in [Rfqs -> Accepts \cup Kinds \cup {None}] /\ binding'[Rfq(c)] = BindingOf(c)
      /\ \A r \in Rfqs : binding'[r] = binding[r] \/ r = Rfq(c)
  BY <1>1, <1>4, <1>5 DEF Types
<1> DEFINE t == [call[c] EXCEPT !.at = "open"]
<1>7. t \in Calls /\ t.kind = call[c].kind /\ t.at = "open"
  BY <1>1 DEF Calls, Unbegun
<1>8. call' = [call EXCEPT ![c] = t]
  BY DEF InsertKey, Goto
<1> HIDE DEF t
<1>9. call'[c] = t
  BY <1>1, <1>8 DEF Types
<1>10. BindingOf(c)' = BindingOf(c) /\ Rfq(c)' = Rfq(c)
  BY <1>7, <1>9 DEF BindingOf, Rfq
<1>11. CallOK(c)'
  <2>1. Reserved(c)'
    BY <1>2, <1>3, <1>7, <1>9 DEF Reserved
  <2>2. Bound(c)'
    BY <1>2, <1>3, <1>6, <1>7, <1>9, <1>10 DEF Bound
  <2>3. JobOK(c)'
    BY <1>2, <1>3 DEF JobOK, Router
  <2> QED
    BY <2>1, <2>2, <2>3 DEF CallOK
<1>12. TypeOK'
  BY <1>1, <1>2 DEF TypeOK
<1> QED
  BY <1>1, <1>2, <1>3, <1>6, <1>7, <1>8, <1>11, <1>12, CallMoves DEF Types

LEMMA OpenRecordStep ==
  ASSUME Inv, NEW c \in Accepts, OpenRecord(c)
  PROVE  Inv'
<1>1. CallOK(c) /\ Types /\ TypeOK /\ call[c] \in Calls /\ call[c].at \in {"open", "openMismatched"}
  BY DEF Inv, Types, OpenRecord
<1> DEFINE p == IF At(c, "open") /\ call[c].fresh THEN "check" ELSE "block"
           t == [call[c] EXCEPT !.state = "CREATED", !.at = p]
<1>2. call' = [call EXCEPT ![c] = t] /\ record' = [record EXCEPT ![KeyOf(c)] = "CREATED"]
  BY DEF OpenRecord, WriteRecord
<1>3. p \in {"check", "block"} /\ (p = "check" => binding[Rfq(c)] = BindingOf(c))
  BY <1>1 DEF At, CallOK, Bound
<1> HIDE DEF p
<1>4. t \in Calls /\ t.kind = call[c].kind /\ t.at = p
  BY <1>1, <1>3, States DEF Calls, Unbegun
<1> HIDE DEF t
<1>5. record' \in [Keys -> RecordStates \cup {None}]
  BY <1>1, <1>2, States DEF TypeOK
<1>6. UNCHANGED <<config, status, binding, journal, sessionLock, job, executed, faults>>
  BY DEF OpenRecord
<1> QED
  BY <1>1, <1>2, <1>3, <1>4, <1>5, <1>6, CallGoes DEF Unbegun

LEMMA CheckSteps ==
  ASSUME Inv, NEW c \in Accepts, Block(c) \/ Check(c) \/ Approve(c)
  PROVE  Inv'
<1>1. CallOK(c)
  BY DEF Inv
<1>2. UNCHANGED <<config, status, binding, journal, sessionLock, job, executed, faults>>
  BY DEF Block, Check, Approve
<1>3. CASE Block(c)
  <2>1. MoveRecord(c, <<"FAILED">>, "ended") /\ call[c].at = "block"
    BY <1>3 DEF Block, At
  <2>2. /\ record' \in [Keys -> RecordStates \cup {None}]
        /\ \E t \in Calls : call' = [call EXCEPT ![c] = t] /\ t.kind = call[c].kind /\ t.at = "ended"
    BY <2>1, States, RecordMoved
  <2> QED
    BY <1>2, <2>1, <2>2, CallGoes DEF Unbegun
<1>4. CASE Check(c)
  <2>1. MoveRecord(c, <<"CHECKED", "QUOTED">>, "approve") /\ call[c].at = "check"
    BY <1>4 DEF Check, At
  <2>2. "approve" \in Unbegun \cup {"ended"} /\ <<"CHECKED", "QUOTED">>[Len(<<"CHECKED", "QUOTED">>)] \in RecordStates
    BY States DEF Unbegun
  <2>3. /\ record' \in [Keys -> RecordStates \cup {None}]
        /\ \E t \in Calls : /\ call' = [call EXCEPT ![c] = t] /\ t.kind = call[c].kind
                            /\ t.at \in {"approve", "ended"}
    BY <2>1, <2>2, RecordMoved
  <2>4. binding[Rfq(c)] = BindingOf(c)
    BY <1>1, <2>1 DEF CallOK, Bound
  <2> QED
    BY <1>2, <2>1, <2>3, <2>4, CallGoes DEF Unbegun
<1>5. CASE Approve(c)
  <2>1. MoveRecord(c, <<"APPROVED">>, "submit") /\ call[c].at = "approve"
    BY <1>5 DEF Approve, At
  <2>2. "submit" \in Unbegun \cup {"ended"} /\ <<"APPROVED">>[Len(<<"APPROVED">>)] \in RecordStates
    BY States DEF Unbegun
  <2>3. /\ record' \in [Keys -> RecordStates \cup {None}]
        /\ \E t \in Calls : /\ call' = [call EXCEPT ![c] = t] /\ t.kind = call[c].kind
                            /\ t.at \in {"submit", "ended"}
    BY <2>1, <2>2, RecordMoved
  <2>4. binding[Rfq(c)] = BindingOf(c)
    BY <1>1, <2>1 DEF CallOK, Bound
  <2> QED
    BY <1>2, <2>1, <2>3, <2>4, CallGoes DEF Unbegun
<1> QED
  BY <1>3, <1>4, <1>5

LEMMA FinishStep ==
  ASSUME Inv, NEW c \in Accepts, Finish(c)
  PROVE  Inv'
<1>1. UNCHANGED <<config, status, binding, journal, sessionLock, job, executed, faults>>
  BY DEF Finish
<1>2. /\ call[c].at \in {"submitted", "waiting"}
      /\ \E path : MoveRecord(c, path, "ended") /\ path[Len(path)] \in RecordStates
  <2>1. ASSUME NEW r PROVE PathOf(r)[Len(PathOf(r))] \in RecordStates
    BY States DEF PathOf
  <2>2. <<"SYNC_PENDING">>[Len(<<"SYNC_PENDING">>)] \in RecordStates
    BY States
  <2> QED
    BY <2>1, <2>2 DEF Finish, At
<1>3. /\ record' \in [Keys -> RecordStates \cup {None}]
      /\ \E t \in Calls : call' = [call EXCEPT ![c] = t] /\ t.kind = call[c].kind /\ t.at = "ended"
  BY <1>2, RecordMoved
<1> QED
  BY <1>1, <1>2, <1>3, CallGoes DEF Unbegun

LEMMA SubmitStep ==
  ASSUME Inv, NEW c \in Accepts, Submit(c)
  PROVE  Inv'
<1>1. /\ CallOK(c) /\ Types /\ TypeOK /\ call[c] \in Calls /\ job[c] \in Jobs
      /\ call[c].at = "submit"
  BY DEF Inv, Types, Submit, At
<1>2. UNCHANGED <<config, rows, journal, sessionLock, executed, faults>>
  BY DEF Submit
<1> DEFINE p == IF call[c].kind = "SOR_PLAN" /\ background THEN "submitted" ELSE "waiting"
           q == IF call[c].kind = "INTERNAL_CROSS" THEN "release" ELSE "read"
           t == [call[c] EXCEPT !.at = p]
           u == [job[c] EXCEPT !.goal = "ACCEPTED", !.at = q]
<1>3. p \in {"submitted", "waiting"} /\ q \in {"release", "read"} /\ (q = "release" => call[c].kind = "INTERNAL_CROSS")
  OBVIOUS
<1>4. call' = [call EXCEPT ![c] = t] /\ job' = [job EXCEPT ![c] = u]
  BY DEF Submit, Goto
<1> HIDE DEF p, q
<1>5. t \in Calls /\ t.kind = call[c].kind /\ t.at = p /\ t.at # "insert"
  BY <1>1, <1>3 DEF Calls
<1>6. u \in Jobs /\ u.at = q /\ u.goal = "ACCEPTED" /\ u.rank = job[c].rank
  BY <1>1, <1>3 DEF Jobs, Goals
<1> HIDE DEF t, u
<1>7. call'[c] = t /\ job' \in [Accepts -> Jobs] /\ job'[c] = u /\ \A d \in Accepts \ {c} : job'[d] = job[d]
  BY <1>1, <1>4, <1>6 DEF Types
<1>8. /\ call[c].kind \in Kinds /\ binding[Rfq(c)] = BindingOf(c) /\ c \notin executed
      /\ call[c].kind = "LEGACY_RFQ" => c \in journal
  BY <1>1 DEF CallOK, Reserved, Bound, Unbegun
<1>9. BindingOf(c)' = BindingOf(c) /\ Rfq(c)' = Rfq(c)
  BY <1>5, <1>7 DEF BindingOf, Rfq
<1>10. CallOK(c)'
  <2>1. Reserved(c)'
    BY <1>2, <1>3, <1>5, <1>7, <1>8 DEF Reserved, Unbegun
  <2>2. Bound(c)'
    BY <1>2, <1>3, <1>5, <1>7, <1>8, <1>9 DEF Bound, rows
  <2>3. JobOK(c)'
    BY <1>2, <1>3, <1>5, <1>6, <1>7 DEF JobOK, Router, Goals
  <2> QED
    BY <2>1, <2>2, <2>3 DEF CallOK
<1>11. TypeOK'
  <2>1. \A d \in Accepts : job'[d].rank \in 0 .. Ranks
    BY <1>7 DEF Jobs
  <2> QED
    BY <1>1, <1>2, <2>1 DEF TypeOK, rows
<1> QED
  BY <1>1, <1>2, <1>4, <1>5, <1>7, <1>10, <1>11, CallMoves DEF Types, rows

----------------------------------------------------------------------------
(* A submission job moves.                                                 *)

LEMMA JobMoves ==
  ASSUME Inv, NEW c \in Accepts, NEW u \in Jobs, job' = [job EXCEPT ![c] = u],
         job[c].at # "none", u.at # "none", UNCHANGED <<binding, call, record>>,
         \/ UNCHANGED status
         \/ \E s \in RfqStatuses : /\ status' = [status EXCEPT ![Rfq(c)] = s]
                                   /\ call[c].kind = "INTERNAL_CROSS" => s = "ACCEPTED",
         UNCHANGED journal \/ (Release(c) /\ call[c].kind # "LEGACY_RFQ"),
         UNCHANGED executed \/ (executed' = executed \cup {c} /\ call[c].kind # "INTERNAL_CROSS"),
         sessionLock' \in [Rfqs -> Accepts \cup {None}], faults' \in 0 .. MaxFaults,
         job'[c] = u => JobOK(c)'
  PROVE  Inv'
<1>1. Types /\ TypeOK /\ CallOK(c) /\ Rfq(c) \in Rfqs
  BY RfqIsRfq DEF Inv, Types
<1>2. job' \in [Accepts -> Jobs] /\ job'[c] = u /\ \A d \in Accepts \ {c} : job'[d] = job[d]
  BY <1>1 DEF Types
<1>3. status' \in [Rfqs -> RfqStatuses] /\ \A r \in Rfqs \ {Rfq(c)} : status'[r] = status[r]
  BY <1>1 DEF TypeOK
<1>4. TypeOK'
  <2>1. \A d \in Accepts : job'[d].rank \in 0 .. Ranks
    BY <1>2 DEF Jobs
  <2>2. journal' \subseteq Accepts /\ executed' \subseteq Accepts
    BY <1>1 DEF TypeOK, Release
  <2> QED
    BY <1>1, <1>3, <2>1, <2>2 DEF TypeOK
<1>5. Types'
  BY <1>1, <1>2, <1>4 DEF Types
<1>6. call[c].kind \in Kinds /\ binding[Rfq(c)] = BindingOf(c) /\ call[c].at \notin Unbegun
  BY <1>1 DEF CallOK, Reserved, Bound
<1>7. \A d \in Accepts : BindingOf(d)' = BindingOf(d) /\ Rfq(d)' = Rfq(d)
  BY DEF BindingOf, Rfq
<1>8. CallOK(c)'
  <2>1. Reserved(c)'
    BY <1>1, <1>2, <1>6 DEF CallOK, Reserved, Release, Unbegun
  <2>2. Bound(c)'
    BY <1>1, <1>2, <1>6, <1>7 DEF CallOK, Bound
  <2> QED
    BY <1>2, <2>1, <2>2 DEF CallOK
<1>9. ASSUME NEW d \in Accepts \ {c} PROVE CallOK(d)'
  <2>1. CallOK(d) /\ Rfq(d) \in Rfqs
    BY RfqIsRfq DEF Inv
  <2>2. Reserved(d)'
    BY <1>2, <2>1 DEF CallOK, Reserved, Release
  <2>3. Bound(d)'
    BY <1>2, <1>7, <2>1 DEF CallOK, Bound
  <2>4. CASE status'[Rfq(d)] = status[Rfq(d)] \/ job[d].at = "none"
    <3>1. JobOK(d)'
      BY <1>2, <1>7, <2>1, <2>4 DEF CallOK, JobOK, RfqCanMove, Router
    <3> QED
      BY <2>2, <2>3, <3>1 DEF CallOK
  <2>5. CASE status'[Rfq(d)] # status[Rfq(d)] /\ job[d].at # "none"
    <3>1. Rfq(d) = Rfq(c)
      BY <1>3, <2>1, <2>5
    <3>2. call[c].kind = "INTERNAL_CROSS" /\ call[d].kind = "INTERNAL_CROSS"
      BY <2>5, <3>1, Alone
    <3>3. status'[Rfq(d)] = "ACCEPTED"
      BY <1>1, <2>5, <3>1, <3>2 DEF TypeOK
    <3>4. JobOK(d)'
      BY <1>2, <1>7, <2>1, <3>2, <3>3 DEF CallOK, JobOK, Router
    <3> QED
      BY <2>2, <2>3, <3>4 DEF CallOK
  <2> QED
    BY <2>4, <2>5
<1>10. OneHolder'
  BY DEF Inv, OneHolder, Holds, Release, Rfq
<1>11. ASSUME NEW r \in Rfqs PROVE RfqOK(r)'
  <2>1. RfqOK(r)
    BY DEF Inv
  <2>2. CASE r # Rfq(c) \/ UNCHANGED status
    BY <1>3, <2>1, <2>2 DEF RfqOK
  <2>3. CASE r = Rfq(c) /\ ~UNCHANGED status
    <3>1. binding[r] \in {None, "INTERNAL_CROSS"} => call[c].kind = "INTERNAL_CROSS"
      BY <1>6, <2>3, NamesDiffer DEF BindingOf, Kinds
    <3>2. call[c].kind = "INTERNAL_CROSS" => status'[r] = "ACCEPTED"
      BY <1>1, <2>3 DEF TypeOK
    <3> QED
      BY <3>1, <3>2 DEF RfqOK, Early
  <2> QED
    BY <2>2, <2>3
<1> QED
  BY <1>5, <1>8, <1>9, <1>10, <1>11 DEF Inv

\* What a handler does next is fit for its kind.
LEMMA AfterStatusOK ==
  ASSUME Inv, NEW c \in Accepts, job[c].at \in {"read", "write"}
  PROVE  /\ AfterStatus(c) \in Jobs /\ AfterStatus(c).at # "none"
         /\ (UNCHANGED call /\ job'[c] = AfterStatus(c)) => JobOK(c)'
<1> DEFINE u == AfterStatus(c)
<1>1. job[c] \in Jobs /\ call[c].kind \in Kinds /\ job[c].goal \in Goals
      /\ (job[c].goal = "EXECUTING" => call[c].kind = "SOR_PLAN")
  BY DEF Inv, Types, CallOK, Bound, JobOK
<1>2. /\ u \in Jobs
      /\ \/ u.at = "read" /\ u.goal = "SETTLED" /\ call[c].kind = "INTERNAL_CROSS"
         \/ u.at = "read" /\ u.goal = "EXECUTING" /\ call[c].kind = "SOR_PLAN"
         \/ u.at = "routerRead" /\ call[c].kind = "LEGACY_RFQ"
         \/ u.at = "run" /\ call[c].kind = "SOR_PLAN"
         \/ u.at = "done"
  <2>1. CASE job[c].goal = "ACCEPTED" /\ call[c].kind = "INTERNAL_CROSS"
    <3>1. u = [job[c] EXCEPT !.at = "read", !.goal = "SETTLED", !.result = "COMPLETED"]
      BY <2>1 DEF AfterStatus
    <3> QED
      BY <1>1, <2>1, <3>1 DEF Jobs, Goals
  <2>2. CASE job[c].goal = "ACCEPTED" /\ call[c].kind = "SOR_PLAN"
    <3>1. u = [job[c] EXCEPT !.at = "read", !.goal = "EXECUTING"]
      BY <2>2 DEF AfterStatus
    <3> QED
      BY <1>1, <2>2, <3>1 DEF Jobs, Goals
  <2>3. CASE job[c].goal = "ACCEPTED" /\ call[c].kind = "LEGACY_RFQ"
    <3>1. u = [job[c] EXCEPT !.at = "routerRead"]
      BY <2>3 DEF AfterStatus
    <3> QED
      BY <1>1, <2>3, <3>1 DEF Jobs, Router
  <2>4. CASE job[c].goal = "EXECUTING"
    <3>1. u = [job[c] EXCEPT !.at = "run"]
      BY <2>4 DEF AfterStatus
    <3> QED
      BY <1>1, <2>4, <3>1 DEF Jobs
  <2>5. CASE job[c].goal \notin {"ACCEPTED", "EXECUTING"}
    <3>1. u = [job[c] EXCEPT !.at = "done"]
      BY <2>5 DEF AfterStatus
    <3> QED
      BY <1>1, <3>1 DEF Jobs
  <2> QED
    BY <1>1, <2>1, <2>2, <2>3, <2>4, <2>5 DEF Kinds
<1> HIDE DEF u
<1>3. u.at # "none"
  BY <1>2
<1>4. (UNCHANGED call /\ job'[c] = u) => JobOK(c)'
  BY <1>2 DEF JobOK, Router, Goals
<1> QED
  BY <1>2, <1>3, <1>4 DEF u

\* A job at one of its statements, and what a job that only changes its place is.
LEMMA JobIs ==
  ASSUME Inv, NEW c \in Accepts
  PROVE  /\ Types /\ TypeOK /\ CallOK(c) /\ job[c] \in Jobs /\ Rfq(c) \in Rfqs /\ status[Rfq(c)] \in RfqStatuses
         /\ \A p \in Router \cup {"read", "write", "threw"} :
              /\ [job[c] EXCEPT !.at = p] \in Jobs /\ [job[c] EXCEPT !.at = p].at = p
              /\ [job[c] EXCEPT !.at = p].goal = job[c].goal /\ [job[c] EXCEPT !.at = p].seen = job[c].seen
BY RfqIsRfq DEF Inv, Types, TypeOK, Jobs

LEMMA ReadStatusStep ==
  ASSUME Inv, NEW c \in Accepts, ReadStatus(c)
  PROVE  Inv'
<1>1. /\ CallOK(c) /\ TypeOK /\ job[c] \in Jobs /\ Rfq(c) \in Rfqs /\ job[c].at = "read"
      /\ status[Rfq(c)] \in RfqStatuses
  BY JobIs DEF ReadStatus, JobAt
<1>2. UNCHANGED <<status, binding, call, record, journal, executed>> /\ call[c].kind \in Kinds
      /\ sessionLock' \in [Rfqs -> Accepts \cup {None}] /\ faults' \in 0 .. MaxFaults
  BY <1>1 DEF ReadStatus, JobOnly, rows, TypeOK, CallOK, Bound
<1> DEFINE s == status[Rfq(c)]
           g == job[c].goal
<1>3. CASE s = g
  <2> DEFINE u == AfterStatus(c)
  <2>1. job' = [job EXCEPT ![c] = u]
    BY <1>1, <1>3, NoSelfMove DEF ReadStatus
  <2>2. u \in Jobs /\ u.at # "none" /\ (UNCHANGED call /\ job'[c] = u => JobOK(c)')
    BY <1>1, AfterStatusOK
  <2> HIDE DEF u
  <2> QED
    BY <1>1, <1>2, <2>1, <2>2, JobMoves
<1>4. CASE s # g /\ RfqCanMove(s, g)
  <2> DEFINE u == [job[c] EXCEPT !.at = "write"]
  <2>1. job' = [job EXCEPT ![c] = u]
    BY <1>4 DEF ReadStatus
  <2>2. u \in Jobs /\ u.at = "write" /\ u.goal = g
    BY JobIs
  <2> HIDE DEF u
  <2>3. call[c].kind = "INTERNAL_CROSS" => g = "ACCEPTED"
    <3> SUFFICES ASSUME call[c].kind = "INTERNAL_CROSS" PROVE g = "ACCEPTED"
      OBVIOUS
    <3>1. binding[Rfq(c)] = "INTERNAL_CROSS"
      BY <1>1 DEF CallOK, Bound, BindingOf
    <3>2. s \in Early
      BY <1>1, <3>1 DEF Inv, RfqOK
    <3>3. g \in {"ACCEPTED", "SETTLED"}
      BY <1>1 DEF CallOK, JobOK
    <3> QED
      BY <1>4, <3>2, <3>3, StatusMoves
  <2>4. g \in Goals /\ (g = "EXECUTING" => call[c].kind = "SOR_PLAN")
    BY <1>1 DEF CallOK, JobOK
  <2>5. job'[c] = u => JobOK(c)'
    BY <1>2, <1>4, <2>2, <2>3, <2>4 DEF JobOK, Router, Rfq, RfqCanMove
  <2> QED
    BY <1>1, <1>2, <2>1, <2>2, <2>5, JobMoves
<1>5. CASE s # g /\ ~RfqCanMove(s, g)
  <2> DEFINE u == [job[c] EXCEPT !.at = "threw"]
  <2>1. job' = [job EXCEPT ![c] = u]
    BY <1>5 DEF ReadStatus
  <2>2. u \in Jobs /\ u.at = "threw"
    BY JobIs
  <2> HIDE DEF u
  <2>3. job'[c] = u => JobOK(c)'
    BY <2>2 DEF JobOK, Router
  <2> QED
    BY <1>1, <1>2, <2>1, <2>2, <2>3, JobMoves
<1> QED
  BY <1>3, <1>4, <1>5

LEMMA WriteStatusStep ==
  ASSUME Inv, NEW c \in Accepts, WriteStatus(c)
  PROVE  Inv'
<1>1. CallOK(c) /\ TypeOK /\ job[c].at = "write"
  BY JobIs DEF WriteStatus, JobAt
<1>2. UNCHANGED <<binding, call, record, journal, executed>>
      /\ sessionLock' \in [Rfqs -> Accepts \cup {None}] /\ faults' \in 0 .. MaxFaults
  BY <1>1 DEF WriteStatus, TypeOK
<1>3. job[c].goal \in RfqStatuses /\ (call[c].kind = "INTERNAL_CROSS" => job[c].goal = "ACCEPTED")
  BY <1>1, StatusMoves DEF CallOK, JobOK
<1>4. status' = [status EXCEPT ![Rfq(c)] = job[c].goal]
  BY DEF WriteStatus
<1> DEFINE u == AfterStatus(c)
<1>5. job' = [job EXCEPT ![c] = u]
  BY DEF WriteStatus
<1>6. u \in Jobs /\ u.at # "none" /\ (UNCHANGED call /\ job'[c] = u => JobOK(c)')
  BY <1>1, AfterStatusOK
<1> HIDE DEF u
<1> QED
  BY <1>1, <1>2, <1>3, <1>4, <1>5, <1>6, JobMoves

LEMMA ReleaseFirstStep ==
  ASSUME Inv, NEW c \in Accepts, ReleaseFirst(c)
  PROVE  Inv'
<1>1. CallOK(c) /\ TypeOK /\ job[c].at = "release" /\ job[c] \in Jobs
  BY JobIs DEF ReleaseFirst, JobAt
<1>2. UNCHANGED <<status, binding, call, record, executed>> /\ Release(c)
      /\ sessionLock' \in [Rfqs -> Accepts \cup {None}] /\ faults' \in 0 .. MaxFaults
  BY <1>1 DEF ReleaseFirst, TypeOK, rows
<1> DEFINE u == [job[c] EXCEPT !.at = "read"]
<1>3. u \in Jobs /\ u.at = "read" /\ u.goal = job[c].goal
  BY JobIs
<1>4. job' = [job EXCEPT ![c] = u]
  BY DEF ReleaseFirst, JobGoto
<1> HIDE DEF u
<1>5. call[c].kind = "INTERNAL_CROSS" /\ job[c].goal = "ACCEPTED"
  BY <1>1 DEF CallOK, JobOK
<1>6. job'[c] = u => JobOK(c)'
  BY <1>2, <1>3, <1>5 DEF JobOK, Router, Goals
<1> QED
  BY <1>1, <1>2, <1>3, <1>4, <1>5, <1>6, JobMoves

\* A job that is left by a call alone: what the tables are afterwards.
LEMMA Kept ==
  ASSUME Inv, UNCHANGED <<call, journal, faults>>
  PROVE  faults' \in 0 .. MaxFaults /\ (UNCHANGED sessionLock => sessionLock' \in [Rfqs -> Accepts \cup {None}])
BY DEF Inv, Types, TypeOK

\* PlanRunner.run returns, or throws.
LEMMA RunPlanStep ==
  ASSUME Inv, NEW c \in Accepts, RunPlan(c)
  PROVE  Inv'
<1>1. CallOK(c) /\ TypeOK /\ job[c].at = "run" /\ job[c] \in Jobs
  BY JobIs DEF RunPlan, JobAt
<1>2. UNCHANGED <<status, binding, call, record>> /\ (UNCHANGED journal \/ Release(c)) /\ executed' = executed \cup {c}
      /\ sessionLock' \in [Rfqs -> Accepts \cup {None}] /\ faults' \in 0 .. MaxFaults
  BY <1>1 DEF RunPlan, TypeOK, rows
<1>3. call[c].kind = "SOR_PLAN"
  BY <1>1 DEF CallOK, JobOK
<1>4. ASSUME NEW result \in {"COMPLETED", "PARTIAL", "FAILED"},
             job' = [job EXCEPT ![c].at = "read", ![c].result = result,
                       ![c].goal = IF result = "FAILED" THEN "FAILED" ELSE "SETTLED"]
      PROVE  Inv'
  <2> DEFINE g == IF result = "FAILED" THEN "FAILED" ELSE "SETTLED"
             u == [job[c] EXCEPT !.at = "read", !.result = result, !.goal = g]
  <2>1. g \in {"FAILED", "SETTLED"}
    OBVIOUS
  <2>2. job' = [job EXCEPT ![c] = u]
    BY <1>4
  <2> HIDE DEF g
  <2>3. u \in Jobs /\ u.at = "read" /\ u.goal = g
    BY <1>1, <2>1 DEF Jobs, Goals
  <2> HIDE DEF u
  <2>4. job'[c] = u => JobOK(c)'
    BY <1>2, <1>3, <2>1, <2>3 DEF JobOK, Router, Goals
  <2> QED
    BY <1>1, <1>2, <1>3, <2>2, <2>3, <2>4, JobMoves
<1>5. CASE JobGoto(c, "threw")
  <2> DEFINE u == [job[c] EXCEPT !.at = "threw"]
  <2>1. job' = [job EXCEPT ![c] = u] /\ u \in Jobs /\ u.at = "threw"
    BY <1>5, JobIs DEF JobGoto
  <2> HIDE DEF u
  <2>2. job'[c] = u => JobOK(c)'
    BY <2>1 DEF JobOK, Router
  <2> QED
    BY <1>1, <1>2, <1>3, <2>1, <2>2, JobMoves
<1> QED
  BY <1>4, <1>5 DEF RunPlan

----------------------------------------------------------------------------
(* The router moves, whose RFQ nobody else has a job for.                  *)

LEMMA RouterReadStep ==
  ASSUME Inv, NEW c \in Accepts, RouterRead(c)
  PROVE  Inv'
<1>1. CallOK(c) /\ TypeOK /\ job[c].at = "routerRead" /\ job[c] \in Jobs /\ status[Rfq(c)] \in RfqStatuses
  BY JobIs DEF RouterRead, JobAt
<1>2. UNCHANGED <<status, binding, call, record, journal, executed, sessionLock, faults>>
  BY DEF RouterRead, JobOnly, rows
<1> DEFINE u == [job[c] EXCEPT !.at = "routerLock", !.seen = status[Rfq(c)]]
<1>3. job' = [job EXCEPT ![c] = u]
  BY DEF RouterRead
<1>4. u \in Jobs /\ u.at = "routerLock" /\ u.seen = status[Rfq(c)]
  BY <1>1 DEF Jobs, Router
<1> HIDE DEF u
<1>5. call[c].kind = "LEGACY_RFQ"
  BY <1>1 DEF CallOK, JobOK, Router
<1>6. job'[c] = u => JobOK(c)'
  BY <1>2, <1>4, <1>5 DEF JobOK, Router, Rfq
<1> QED
  BY <1>1, <1>2, <1>3, <1>4, <1>6, Kept, JobMoves

LEMMA RouterLockStep ==
  ASSUME Inv, NEW c \in Accepts, RouterLock(c)
  PROVE  Inv'
<1>1. CallOK(c) /\ TypeOK /\ job[c].at = "routerLock" /\ job[c] \in Jobs
  BY JobIs DEF RouterLock, JobAt
<1>2. UNCHANGED <<status, binding, call, record, journal, executed, faults>>
      /\ sessionLock' \in [Rfqs -> Accepts \cup {None}]
  BY <1>1 DEF RouterLock, rows, TypeOK
<1>3. PICK p \in {"start", "threw"} : JobGoto(c, p)
  BY DEF RouterLock
<1> DEFINE u == [job[c] EXCEPT !.at = p]
<1>4. job' = [job EXCEPT ![c] = u]
  BY <1>3 DEF JobGoto
<1>5. u \in Jobs /\ u.at = p /\ u.seen = job[c].seen
  BY JobIs DEF Router
<1> HIDE DEF u
<1>6. call[c].kind = "LEGACY_RFQ" /\ job[c].seen = status[Rfq(c)]
  BY <1>1 DEF CallOK, JobOK, Router
<1>7. job'[c] = u => JobOK(c)'
  BY <1>2, <1>5, <1>6 DEF JobOK, Router, Rfq
<1> QED
  BY <1>1, <1>2, <1>4, <1>5, <1>7, Kept, JobMoves

\* RouterMove: the RFQ takes the new status, or the lock is given back.
LEMMA RouterMoves ==
  ASSUME Inv, NEW c \in Accepts, NEW from, NEW to \in {"EXECUTING", "FAILED"}, NEW place \in {"quotes", "unlock"},
         place = "quotes" => to = "EXECUTING", job[c].at \in {"start", "fail"}, RouterMove(c, from, to, place),
         UNCHANGED <<binding, record, journal, sessionLock, call, executed, faults>>
  PROVE  Inv'
<1>1. CallOK(c) /\ TypeOK /\ job[c] \in Jobs /\ Rfq(c) \in Rfqs
  BY JobIs
<1>2. call[c].kind = "LEGACY_RFQ" /\ to \in RfqStatuses
  BY <1>1, StatusMoves DEF CallOK, JobOK, Router, Goals
<1>3. CASE status' = [status EXCEPT ![Rfq(c)] = to] /\ JobGoto(c, place)
  <2> DEFINE u == [job[c] EXCEPT !.at = place]
  <2>1. job' = [job EXCEPT ![c] = u]
    BY <1>3 DEF JobGoto
  <2>2. u \in Jobs /\ u.at = place
    BY JobIs DEF Router
  <2> HIDE DEF u
  <2>3. status'[Rfq(c)] = to
    BY <1>1, <1>3 DEF TypeOK
  <2>4. job'[c] = u => JobOK(c)'
    BY <1>2, <2>2, <2>3 DEF JobOK, Router, Rfq
  <2> QED
    BY <1>2, <1>3, <2>1, <2>2, <2>4, Kept, JobMoves
<1>4. CASE UNCHANGED status /\ JobGoto(c, "unlock")
  <2> DEFINE u == [job[c] EXCEPT !.at = "unlock"]
  <2>1. job' = [job EXCEPT ![c] = u]
    BY <1>4 DEF JobGoto
  <2>2. u \in Jobs /\ u.at = "unlock"
    BY JobIs DEF Router
  <2> HIDE DEF u
  <2>3. job'[c] = u => JobOK(c)'
    BY <1>2, <2>2 DEF JobOK, Router
  <2> QED
    BY <1>2, <1>4, <2>1, <2>2, <2>3, Kept, JobMoves
<1> QED
  BY <1>3, <1>4 DEF RouterMove

LEMMA RouterMoveSteps ==
  ASSUME Inv, NEW c \in Accepts, RouterStart(c) \/ RouterFail(c)
  PROVE  Inv'
<1>1. CASE RouterStart(c)
  BY <1>1, RouterMoves DEF RouterStart, JobAt
<1>2. CASE RouterFail(c)
  BY <1>2, RouterMoves DEF RouterFail, JobAt
<1> QED
  BY <1>1, <1>2

LEMMA QuoteSteps ==
  ASSUME Inv, NEW c \in Accepts, TryQuote(c) \/ QuotesTried(c)
  PROVE  Inv'
<1>1. CallOK(c) /\ TypeOK /\ job[c] \in Jobs /\ job[c].at = "quotes"
  BY JobIs DEF TryQuote, QuotesTried, JobAt
<1>2. UNCHANGED <<status, binding, call, record, journal, sessionLock, faults>>
  BY DEF TryQuote, QuotesTried, JobOnly, rows
<1>3. call[c].kind = "LEGACY_RFQ" /\ status[Rfq(c)] = "EXECUTING"
  BY <1>1 DEF CallOK, JobOK, Router
<1>4. UNCHANGED executed \/ executed' = executed \cup {c}
  BY DEF TryQuote, QuotesTried, JobOnly
<1>5. \E u \in Jobs : job' = [job EXCEPT ![c] = u] /\ u.at \in {"quotes", "book", "fail", "unlock"}
  <2>1. CASE TryQuote(c)
    <3>1. PICK outcome \in {"notFound", "stale", "refused", "executed"} :
            job' = [job EXCEPT ![c].rank = @ + 1,
                      ![c].found = @ \/ outcome # "notFound",
                      ![c].stale = @ \/ outcome = "stale",
                      ![c].at = IF outcome = "executed" THEN "book" ELSE "quotes"]
      BY <2>1 DEF TryQuote
    <3> DEFINE p == IF outcome = "executed" THEN "book" ELSE "quotes"
               f == job[c].found \/ outcome # "notFound"
               s == job[c].stale \/ outcome = "stale"
               r == job[c].rank + 1
               u == [job[c] EXCEPT !.rank = r, !.found = f, !.stale = s, !.at = p]
    <3>2. r \in 0 .. Ranks
      BY <1>1, <2>1, RanksAssumption DEF TryQuote, Jobs
    <3>3. p \in {"quotes", "book"} /\ f \in BOOLEAN /\ s \in BOOLEAN
      OBVIOUS
    <3>4. job' = [job EXCEPT ![c] = u]
      BY <3>1
    <3> HIDE DEF p, f, s, r
    <3>5. u \in Jobs /\ u.at = p
      BY <1>1, <3>2, <3>3 DEF Jobs, Router
    <3> HIDE DEF u
    <3> QED
      BY <3>3, <3>4, <3>5
  <2>2. CASE QuotesTried(c)
    <3>1. CASE JobGoto(c, "fail")
      <4> DEFINE u == [job[c] EXCEPT !.at = "fail"]
      <4>1. job' = [job EXCEPT ![c] = u] /\ u \in Jobs /\ u.at = "fail"
        BY <3>1, JobIs DEF JobGoto, Router
      <4> HIDE DEF u
      <4> QED
        BY <4>1
    <3>2. CASE job' = [job EXCEPT ![c].at = "unlock", ![c].result = "FAILED"]
      <4> DEFINE u == [job[c] EXCEPT !.at = "unlock", !.result = "FAILED"]
      <4>1. job' = [job EXCEPT ![c] = u]
        BY <3>2
      <4>2. u \in Jobs /\ u.at = "unlock"
        BY <1>1 DEF Jobs, Router
      <4> HIDE DEF u
      <4> QED
        BY <4>1, <4>2
    <3> QED
      BY <2>2, <3>1, <3>2 DEF QuotesTried
  <2> QED
    BY <2>1, <2>2
<1>6. PICK u \in Jobs : job' = [job EXCEPT ![c] = u] /\ u.at \in {"quotes", "book", "fail", "unlock"}
  BY <1>5
<1>7. job'[c] = u => JobOK(c)'
  BY <1>2, <1>3, <1>6 DEF JobOK, Router, Rfq
<1> QED
  BY <1>1, <1>2, <1>3, <1>4, <1>6, <1>7, Kept, JobMoves

LEMMA RouterSettleStep ==
  ASSUME Inv, NEW c \in Accepts, RouterSettle(c)
  PROVE  Inv'
<1>1. CallOK(c) /\ TypeOK /\ job[c] \in Jobs /\ job[c].at = "book"
  BY JobIs DEF RouterSettle, JobAt
<1>2. UNCHANGED <<binding, call, record, journal, sessionLock, executed, faults>>
      /\ status' = [status EXCEPT ![Rfq(c)] = "SETTLED"]
  BY DEF RouterSettle
<1> DEFINE u == [job[c] EXCEPT !.at = "unlock", !.result = "COMPLETED"]
<1>3. job' = [job EXCEPT ![c] = u]
  BY DEF RouterSettle
<1>4. u \in Jobs /\ u.at = "unlock"
  BY <1>1 DEF Jobs, Router
<1> HIDE DEF u
<1>5. call[c].kind = "LEGACY_RFQ" /\ "SETTLED" \in RfqStatuses
  BY <1>1, StatusMoves DEF CallOK, JobOK, Router, Goals
<1>6. job'[c] = u => JobOK(c)'
  BY <1>2, <1>4, <1>5 DEF JobOK, Router
<1> QED
  BY <1>1, <1>2, <1>3, <1>4, <1>5, <1>6, Kept, JobMoves

LEMMA RouterUnlockStep ==
  ASSUME Inv, NEW c \in Accepts, RouterUnlock(c)
  PROVE  Inv'
<1>1. CallOK(c) /\ TypeOK /\ job[c] \in Jobs /\ job[c].at = "unlock"
  BY JobIs DEF RouterUnlock, JobAt
<1>2. UNCHANGED <<status, binding, call, record, journal, executed, faults>>
      /\ sessionLock' \in [Rfqs -> Accepts \cup {None}]
  BY <1>1 DEF RouterUnlock, rows, TypeOK
<1> DEFINE p == IF job[c].result = None THEN "threw" ELSE "read"
           g == IF job[c].result = "COMPLETED" THEN "SETTLED" ELSE "FAILED"
           u == [job[c] EXCEPT !.at = p, !.goal = g]
<1>3. p \in {"threw", "read"} /\ g \in {"SETTLED", "FAILED"}
  OBVIOUS
<1>4. job' = [job EXCEPT ![c] = u]
  BY DEF RouterUnlock
<1> HIDE DEF p, g
<1>5. u \in Jobs /\ u.at = p /\ u.goal = g
  BY <1>1, <1>3 DEF Jobs, Goals
<1> HIDE DEF u
<1>6. call[c].kind = "LEGACY_RFQ"
  BY <1>1 DEF CallOK, JobOK, Router
<1>7. job'[c] = u => JobOK(c)'
  BY <1>2, <1>3, <1>5, <1>6 DEF JobOK, Router, Goals
<1> QED
  BY <1>1, <1>2, <1>3, <1>4, <1>5, <1>7, Kept, JobMoves

----------------------------------------------------------------------------
(* Faults, and all steps together.                                         *)

LEMMA FaultCounted == Inv /\ Fault => faults' \in 0 .. MaxFaults
BY MaxFaultsAssumption DEF Inv, Types, TypeOK, Fault

LEMMA JobThrowsStep ==
  ASSUME Inv, NEW c \in Accepts, JobThrows(c)
  PROVE  Inv'
<1>1. CallOK(c) /\ TypeOK /\ job[c] \in Jobs /\ job[c].at # "none"
  BY JobIs DEF JobThrows, JobRuns
<1>2. UNCHANGED <<status, binding, call, record, journal, sessionLock, executed>> /\ faults' \in 0 .. MaxFaults
  BY FaultCounted DEF JobThrows, rows
<1> DEFINE p == IF UnderLock(c) THEN "unlock" ELSE "threw"
           u == [job[c] EXCEPT !.at = p]
<1>3. job' = [job EXCEPT ![c] = u]
  BY DEF JobThrows, JobGoto
<1>4. p \in {"unlock", "threw"} /\ (p = "unlock" => call[c].kind = "LEGACY_RFQ")
  BY <1>1 DEF UnderLock, CallOK, JobOK, Router
<1> HIDE DEF p
<1>5. u \in Jobs /\ u.at = p
  BY <1>4, JobIs DEF Router
<1> HIDE DEF u
<1>6. job'[c] = u => JobOK(c)'
  BY <1>2, <1>4, <1>5 DEF JobOK, Router
<1>7. sessionLock' \in [Rfqs -> Accepts \cup {None}]
  BY <1>1, <1>2 DEF TypeOK
<1> QED
  BY <1>1, <1>2, <1>3, <1>4, <1>5, <1>6, <1>7, JobMoves

LEMMA CrashStep ==
  ASSUME Inv, NEW c \in Accepts, Crash(c)
  PROVE  Inv'
<1>1. /\ CallOK(c) /\ TypeOK /\ job[c] \in Jobs /\ call[c] \in Calls
      /\ job \in [Accepts -> Jobs] /\ call \in [Accepts -> Calls]
  BY JobIs DEF Inv, Types
<1>2. UNCHANGED <<status, binding, record, journal, sessionLock, executed>> /\ faults' \in 0 .. MaxFaults
  BY FaultCounted DEF Crash, rows
<1> DEFINE t == [call[c] EXCEPT !.at = "ended"]
           u == IF JobRuns(c) THEN [job[c] EXCEPT !.at = "died"] ELSE job[c]
<1>3. t \in Calls /\ t.at = "ended" /\ t.kind = call[c].kind
  BY <1>1 DEF Calls
<1>4. call' = [call EXCEPT ![c] = t]
  BY DEF Crash, Goto
<1>5. (u = job[c] /\ ~JobRuns(c)) \/ (u.at = "died" /\ JobRuns(c))
  BY <1>1 DEF Jobs
<1>6. u \in Jobs
  BY <1>1 DEF Jobs
<1>7. job' \in [Accepts -> Jobs] /\ job'[c] = u /\ \A d \in Accepts \ {c} : job'[d] = job[d]
  BY <1>1, <1>6 DEF Crash
<1> HIDE DEF t, u
<1>8. call'[c] = t
  BY <1>1, <1>4
<1>9. BindingOf(c)' = BindingOf(c) /\ Rfq(c)' = Rfq(c)
  BY <1>3, <1>8 DEF BindingOf, Rfq
<1>10. u.at = "none" <=> job[c].at = "none"
  BY <1>5 DEF JobRuns
<1>11. CallOK(c)'
  <2>1. Reserved(c)'
    BY <1>1, <1>2, <1>3, <1>8 DEF CallOK, Reserved, Unbegun
  <2>2. Bound(c)'
    BY <1>1, <1>2, <1>3, <1>7, <1>8, <1>9, <1>10 DEF CallOK, Bound
  <2>3. JobOK(c)'
    BY <1>1, <1>5, <1>7 DEF CallOK, JobOK, JobRuns, Router
  <2> QED
    BY <2>1, <2>2, <2>3 DEF CallOK
<1>12. TypeOK'
  <2>1. \A d \in Accepts : job'[d].rank \in 0 .. Ranks
    BY <1>7 DEF Jobs
  <2> QED
    BY <1>1, <1>2, <2>1 DEF TypeOK
<1>13. binding' \in [Rfqs -> Accepts \cup Kinds \cup {None}]
  BY <1>2 DEF Inv, Types
<1> QED
  BY <1>2, <1>3, <1>4, <1>7, <1>11, <1>12, <1>13, CallMoves

\* The session lock, which no part of the invariant but its type mentions.
LEMMA LockRunsOut ==
  ASSUME Inv, UNCHANGED <<rows, journal, call, job, executed>>,
         sessionLock' \in [Rfqs -> Accepts \cup {None}], faults' \in 0 .. MaxFaults
  PROVE  Inv'
<1>1. status' = status /\ binding' = binding /\ record' = record
  BY DEF rows
<1>2. Types'
  BY <1>1 DEF Inv, Types, TypeOK
<1>3. OneHolder' /\ \A r \in Rfqs : RfqOK(r)'
  BY <1>1 DEF Inv, OneHolder, Holds, Rfq, RfqOK
<1>4. ASSUME NEW c \in Accepts PROVE CallOK(c)'
  <2>1. CallOK(c)
    BY DEF Inv
  <2> QED
    BY <1>1, <2>1 DEF CallOK, Reserved, Bound, JobOK, BindingOf, Rfq, RfqCanMove
<1> QED
  BY <1>2, <1>3, <1>4 DEF Inv

LEMMA SessionLockExpiresStep ==
  ASSUME Inv, NEW r \in Rfqs, SessionLockExpires(r)
  PROVE  Inv'
<1>1. sessionLock' \in [Rfqs -> Accepts \cup {None}] /\ faults' \in 0 .. MaxFaults
  BY FaultCounted DEF SessionLockExpires, Inv, Types, TypeOK
<1> QED
  BY <1>1, LockRunsOut DEF SessionLockExpires

LEMMA StepInv == LockOutlives /\ Inv /\ [Next]_vars => Inv'
<1> SUFFICES ASSUME LockOutlives, Inv, [Next]_vars PROVE Inv'
  OBVIOUS
<1>1. ASSUME NEW c \in Accepts, CallStep(c) PROVE Inv'
  BY <1>1, FindReservationStep, GrantReservationStep, BuildStep, BuildFailsStep, FindKeyStep, InsertKeyStep, OpenRecordStep, CheckSteps,
     SubmitStep, FinishStep DEF CallStep
<1>2. ASSUME NEW c \in Accepts, JobStep(c) PROVE Inv'
  BY <1>2, ReadStatusStep, WriteStatusStep, ReleaseFirstStep, RunPlanStep, RouterReadStep, RouterLockStep,
     RouterMoveSteps, QuoteSteps, RouterSettleStep, RouterUnlockStep DEF JobStep
<1>3. ASSUME NEW c \in Accepts, JobThrows(c) \/ Crash(c) PROVE Inv'
  BY <1>3, JobThrowsStep, CrashStep
<1>4. ASSUME NEW r \in Rfqs, SessionLockExpires(r) PROVE Inv'
  BY <1>4, SessionLockExpiresStep
<1>5. CASE UNCHANGED vars
  <2>1. UNCHANGED <<rows, journal, call, job, executed, sessionLock, faults>>
    BY <1>5 DEF vars
  <2> QED
    BY <2>1, LockRunsOut DEF Inv, Types, TypeOK
<1> QED
  BY <1>1, <1>2, <1>3, <1>4, <1>5 DEF Next

\* server.ts, execution-control and execution-router: in every reachable state the
\* reservations and the keys leave at most one acceptance of an RFQ that may execute,
\* if the 5 s of the risk lock outlast the transaction that reserves.
THEOREM InvHolds ==
  ASSUME LockOutlives
  PROVE  Spec => []Inv
<1>1. Init => Inv
  BY InitInv
<1>2. Inv /\ [Next]_vars => Inv'
  BY StepInv
<1> QED
  BY <1>1, <1>2, PTL DEF Spec

\* risk-engine.ts:134-198, server.ts:1506-1588: while the risk lock outlives its
\* transaction an RFQ is sent to venues by at most one acceptance, whatever session
\* locks run out and whoever dies.
THEOREM SentToVenuesOnce ==
  ASSUME LockOutlives
  PROVE  Spec => []SentOnce
<1>1. Inv => SentOnce
  <2> SUFFICES ASSUME Inv, NEW c \in executed, NEW d \in executed, Rfq(c) = Rfq(d) PROVE c = d
    BY DEF Inv, Types, SentOnce
  <2>1. /\ c \in Accepts /\ d \in Accepts
        /\ job[c].at # "none" /\ job[d].at # "none" /\ call[c].kind # "INTERNAL_CROSS"
    BY DEF Inv, Types, TypeOK, CallOK, Bound
  <2> QED
    BY <2>1, Alone
<1> QED
  BY <1>1, InvHolds, PTL

\* server.ts:1421-1451: while the risk lock outlives its transaction, what a job has
\* looked up is still true when it writes, so every write of a status is a move of
\* the RFQ's state machine.
THEOREM StatusIsMovedByMachine ==
  ASSUME LockOutlives
  PROVE  Spec => StatusFollowsMachine
<1>1. Inv /\ [Next]_vars => [\A r \in Rfqs : status'[r] # status[r] => RfqCanMove(status[r], status'[r])]_vars
  <2> SUFFICES ASSUME Inv, Next, NEW r \in Rfqs, status'[r] # status[r]
               PROVE  RfqCanMove(status[r], status'[r])
    OBVIOUS
  <2>1. PICK c \in Accepts : WriteStatus(c) \/ RouterStart(c) \/ RouterFail(c) \/ RouterSettle(c)
    BY DEF Next, CallStep, JobStep, FindReservation, GrantReservation, Build, BuildFails, FindKey, InsertKey, OpenRecord, Block, Check,
           Approve, Submit, Finish, ReadStatus, ReleaseFirst, RunPlan, RouterRead, RouterLock, TryQuote, QuotesTried,
           RouterUnlock, JobThrows, Crash, SessionLockExpires, JobOnly, rows
  <2>2. CallOK(c) /\ TypeOK /\ Rfq(c) \in Rfqs
    BY JobIs
  <2>3. CASE WriteStatus(c)
    <3>1. status' = [status EXCEPT ![Rfq(c)] = job[c].goal] /\ job[c].at = "write"
      BY <2>3 DEF WriteStatus, JobAt
    <3>2. r = Rfq(c) /\ status'[r] = job[c].goal
      BY <2>2, <3>1 DEF TypeOK
    <3> QED
      BY <2>2, <3>1, <3>2 DEF CallOK, JobOK
  <2>4. CASE RouterStart(c)
    <3>1. RouterMove(c, job[c].seen, "EXECUTING", "quotes") /\ job[c].seen = status[Rfq(c)]
      BY <2>2, <2>4 DEF RouterStart, JobAt, CallOK, JobOK
    <3>2. RfqCanMove(job[c].seen, "EXECUTING") /\ status' = [status EXCEPT ![Rfq(c)] = "EXECUTING"]
      BY <3>1 DEF RouterMove
    <3>3. r = Rfq(c) /\ status'[r] = "EXECUTING"
      BY <2>2, <3>2 DEF TypeOK
    <3> QED
      BY <3>1, <3>2, <3>3
  <2>5. CASE RouterFail(c) \/ RouterSettle(c)
    <3>1. status[Rfq(c)] = "EXECUTING"
      BY <2>2, <2>5 DEF RouterFail, RouterSettle, JobAt, CallOK, JobOK
    <3>2. PICK s \in {"FAILED", "SETTLED"} : status' = [status EXCEPT ![Rfq(c)] = s]
      BY <2>5 DEF RouterFail, RouterSettle, RouterMove
    <3>3. r = Rfq(c) /\ status'[r] = s
      BY <2>2, <3>2 DEF TypeOK
    <3> QED
      BY <3>1, <3>2, <3>3, StatusMoves
  <2> QED
    BY <2>1, <2>3, <2>4, <2>5
<1> QED
  BY <1>1, InvHolds, PTL DEF Spec, StatusFollowsMachine
=============================================================================
