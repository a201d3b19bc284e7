------------------------ MODULE ExecutionOrdersProofs ------------------------
(***************************************************************************)
(* Proofs about ExecutionOrders, for routes of any length, any number of   *)
(* submissions of the bundle, any mix of requests and any number of        *)
(* faults: who has recorded its legs never sends one again, every fill is  *)
(* in the position once, and an order that says FILLED has filled,         *)
(* although four copies of its state are written by tasks that read them   *)
(* some time before.                                                       *)
(***************************************************************************)
EXTENDS ExecutionOrders, TLAPS

----------------------------------------------------------------------------
(* The inductive invariant.                                                *)

Patches == [state : OrderStates \cup {"-"}, exec : BOOLEAN, interrupted : BOOLEAN]
TaskStates == [at : Places, record : Records, to : Patches]
VenueStates == {"none", "open", "filled", "killed", "settled"}

Types ==
  /\ scene \in Scenes /\ order \in Rows /\ old \in BOOLEAN
  /\ db \in Records /\ cache \in Records /\ aged \in BOOLEAN
  /\ venue \in [Senders -> [Legs -> VenueStates]]
  /\ sent \in [Senders -> [Legs -> Nat]]
  /\ applied \in [Senders -> [Legs -> BOOLEAN]] /\ position \in [Senders -> [Legs -> {0, 1}]]
  /\ quote \in BOOLEAN /\ task \in [Tasks -> TaskStates] /\ faults \in 0..MaxFaults

\* The bundle has a record and the sender is not between its look at the records
\* and its own: it never sends again.
Working == {"leg", "merge", "store"}
Barred(s) == db # NoRecord /\ task[s].at \notin Working

\* What is said to be filled is filled, and only what is recorded is said.
Holds(legs) == \E l \in Legs : legs[l] # NoLeg
Real(legs) == \A l \in Legs : legs[l].status = "FILLED" => Settled(legs[l].by, l)
Known(legs) == \A l \in Legs : legs[l].by \in Senders => Barred(legs[l].by)
Sound(r) == (r # NoRecord => Holds(r.legs)) /\ Real(r.legs) /\ Known(r.legs)

\* Every leg has an order that has filled, and stays so.
Done == \A l \in Route : \E s \in Senders : Barred(s) /\ Settled(s, l)

\* What a task has in hand when it is at one of its statements.
Own(t, k) == \A l \in Legs : k.record.legs[l].by \in Senders =>
               Barred(k.record.legs[l].by) \/ (k.record.legs[l].by = t /\ k.at \in Working)
Fit(t, k) ==
  /\ Real(k.record.legs) /\ Own(t, k)
  /\ k.at \in {"idle", "done", "check", "load", "save"} => k.record = NoRecord
  /\ k.at \in {"merge", "store", "apply"} => Holds(k.record.legs)
  /\ k.at \in {"leg", "merge"} => t \in Senders
  /\ k.at = "save" => k.to.state \in OrderStates /\ (k.to.state = "FILLED" => Done)
  /\ k.at = "leg" => \E n \in Route : \A l \in Legs : k.record.legs[l] = NoLeg <=> l >= n

\* A leg is sent again only when a fault has made the process forget it.
MaySend(k, l) == (k.at = "leg" /\ k.record.legs[l] = NoLeg) \/ (db = NoRecord /\ k.at \notin Working)
Sends(s, l) == sent[s][l] <= 1 + faults /\ (MaySend(task[s], l) => sent[s][l] <= faults)

Booked(s, l) ==
  /\ applied[s][l] <=> position[s][l] = 1
  /\ position[s][l] = 1 => Barred(s) /\ Settled(s, l)

Inv ==
  /\ Types
  /\ \A t \in Tasks : Fit(t, task[t])
  /\ cache # NoRecord => db # NoRecord
  /\ Sound(db) /\ Sound(cache)
  /\ order.state = "FILLED" => Done
  /\ \A s \in Senders, l \in Legs : Sends(s, l) /\ Booked(s, l)

LEMMA SceneFacts ==
  \A s \in Scenes : s.legs \in Nat /\ 1..s.legs \subseteq Legs /\ s.legs \in 1..s.legs /\ 1 \in 1..s.legs
<1> SUFFICES ASSUME NEW s \in Scenes
             PROVE  s.legs \in Nat /\ 1..s.legs \subseteq Legs /\ s.legs \in 1..s.legs /\ 1 \in 1..s.legs
  OBVIOUS
<1>1. s.legs \in 1..MaxLegs /\ MaxLegs \in Nat
  BY SceneAssumption, BoundsAssumption
<1> QED
  BY <1>1 DEF Legs

LEMMA Blank ==
  /\ NoRecord \in Records /\ NoRecord.failed = FALSE
  /\ \A l \in Legs : NoRecord.legs[l] = NoLeg
  /\ NoLeg.by = "-" /\ NoLeg.status = "-" /\ NoLeg.by \notin Senders
  /\ \A r \in Records : Holds(r.legs) => r # NoRecord
<1>1. NoLeg.by = "-" /\ NoLeg.status = "-" /\ NoLeg.by \notin Senders /\ NoLeg \in LegRecords
  BY DirectsAssumption DEF NoLeg, Senders, LegRecords
<1> QED
  BY <1>1 DEF NoRecord, Records, Holds

LEMMA Roles ==
  /\ Senders \subseteq Tasks /\ Requests \subseteq Tasks /\ {"refresh", "watcher", "submit"} \subseteq Tasks
  /\ "submit" \in Senders /\ "submit" \notin Directs
  /\ Requests \cap Senders = {} /\ "refresh" \notin Senders /\ "watcher" \notin Senders
BY DirectsAssumption DEF Tasks, Senders, Requests

\* Nothing in hand.
LEMMA BlankFits == Sound(NoRecord) /\ Real(NoRecord.legs) /\ Known(NoRecord.legs)
BY Blank DEF Sound, Real, Known

\* A leg of a record is nobody's or has a sender.
LEMMA LegIs ==
  ASSUME NEW r \in Records, NEW l \in Legs
  PROVE  /\ r.legs[l] = NoLeg \/ (r.legs[l].by \in Senders /\ r.legs[l].status \in {"OPEN", "FILLED", "FAILED"})
         /\ r.legs[l].status = "FILLED" => r.legs[l].by \in Senders
<1>1. r.legs[l] \in LegRecords
  BY DEF Records
<1> QED
  BY <1>1, Blank DEF LegRecords

LEMMA RestingFits ==
  ASSUME NEW t, NEW k \in TaskStates, k.at \in {"idle", "done", "check", "load", "save"}, k.record = NoRecord,
         k.at = "save" => k.to.state \in OrderStates /\ (k.to.state = "FILLED" => Done)
  PROVE  Fit(t, k)
<1>1. Real(k.record.legs) /\ Own(t, k)
  BY Blank, BlankFits DEF Own
<1> QED
  BY <1>1 DEF Fit

LEMMA IdleIs ==
  /\ Idle \in TaskStates /\ Idle.at = "idle" /\ Idle.record = NoRecord
  /\ Idle = [at |-> "idle", record |-> NoRecord, to |-> NoPatch] /\ NoPatch \in Patches
<1>1. NoPatch \in Patches
  BY DEF NoPatch, Patches
<1>2. Idle = [at |-> "idle", record |-> NoRecord, to |-> NoPatch]
  BY DEF Idle
<1> QED
  BY <1>1, <1>2, Blank DEF TaskStates, Places

LEMMA IdleAt ==
  ASSUME NEW p \in {"idle", "done", "check", "load"}
  PROVE  [Idle EXCEPT !.at = p] \in TaskStates /\ [Idle EXCEPT !.at = p].at = p /\ [Idle EXCEPT !.at = p].record = NoRecord
<1>1. p \in Places
  BY DEF Places
<1> QED
  BY <1>1, IdleIs, Blank DEF TaskStates

LEMMA IdleTo ==
  ASSUME NEW p \in Patches
  PROVE  /\ [Idle EXCEPT !.at = "save", !.to = p] \in TaskStates
         /\ [Idle EXCEPT !.at = "save", !.to = p].at = "save"
         /\ [Idle EXCEPT !.at = "save", !.to = p].to = p
         /\ [Idle EXCEPT !.at = "save", !.to = p].record = NoRecord
BY IdleIs, Blank DEF TaskStates, Places

LEMMA IdleWith ==
  ASSUME NEW r \in Records
  PROVE  /\ [Idle EXCEPT !.at = "store", !.record = r] \in TaskStates
         /\ [Idle EXCEPT !.at = "store", !.record = r].at = "store"
         /\ [Idle EXCEPT !.at = "store", !.record = r].record = r
BY IdleIs DEF TaskStates, Places

LEMMA InitInv == Init => Inv
<1> SUFFICES ASSUME Init PROVE Inv
  OBVIOUS
<1>1. order \in Rows /\ order.state # "FILLED"
  <2>1. order.state \in {"READY_TO_PLACE", "NEEDS_SIGNATURE"}
    BY DEF Init
  <2> QED
    BY <2>1 DEF Init, Rows, OrderStates
<1>2. task \in [Tasks -> TaskStates] /\ \A t \in Tasks : task[t] = Idle
  BY IdleIs DEF Init
<1>3. Types
  <2>1. 0 \in 0..MaxFaults
    BY BoundsAssumption
  <2>2. scene \in Scenes /\ old \in BOOLEAN /\ quote \in BOOLEAN /\ faults \in 0..MaxFaults /\ aged \in BOOLEAN
    BY <2>1 DEF Init
  <2>3. db \in Records /\ cache \in Records
    BY Blank DEF Init
  <2>4. /\ venue \in [Senders -> [Legs -> VenueStates]] /\ sent \in [Senders -> [Legs -> Nat]]
        /\ applied \in [Senders -> [Legs -> BOOLEAN]] /\ position \in [Senders -> [Legs -> {0, 1}]]
    BY DEF Init, VenueStates
  <2> QED
    BY <1>1, <1>2, <2>2, <2>3, <2>4 DEF Types
<1>4. \A s \in Senders, l \in Legs : Sends(s, l) /\ Booked(s, l)
  <2>1. \A s \in Senders, l \in Legs : sent[s][l] = 0 /\ position[s][l] = 0 /\ applied[s][l] = FALSE
    BY DEF Init
  <2>2. faults = 0
    BY DEF Init
  <2> QED
    BY <2>1, <2>2 DEF Sends, Booked
<1>5. \A t \in Tasks : Fit(t, task[t])
  <2>1. Idle \in TaskStates /\ Idle.at = "idle" /\ Idle.record = NoRecord
    BY IdleIs
  <2>2. \A t \in Tasks : Fit(t, Idle)
    BY <2>1, RestingFits
  <2> QED
    BY <1>2, <2>2
<1>6. Sound(db) /\ Sound(cache) /\ (cache # NoRecord => db # NoRecord)
  BY BlankFits DEF Init
<1> QED
  BY <1>1, <1>3, <1>4, <1>5, <1>6 DEF Inv

----------------------------------------------------------------------------
(* What lasts: who is barred stays so, and so do the fills of its orders.  *)

LEMMA Constants == NoRecord' = NoRecord /\ NoLeg' = NoLeg /\ Legs' = Legs /\ Working' = Working /\ Senders' = Senders
BY DEF NoRecord, NoLeg, Legs, Working, Senders

LEMMA Steady ==
  ASSUME Inv, UNCHANGED scene, db # NoRecord => db' # NoRecord,
         \A s \in Senders : task'[s].at \in Working => task[s].at \in Working \/ db = NoRecord,
         \A s \in Senders, l \in Legs :
           Settled(s, l) => Settled(s, l)' \/ (task[s].at = "leg" /\ task[s].record.legs[l] = NoLeg)
  PROVE  /\ \A s \in Senders : Barred(s) => Barred(s)'
         /\ \A s \in Senders, l \in Legs : Barred(s) /\ Settled(s, l) => Settled(s, l)'
         /\ Done => Done'
         /\ \A r \in Records : Sound(r) => Sound(r)'
         /\ \A u \in Tasks, k \in TaskStates :
              /\ Fit(u, k)
              /\ \A l \in Legs : u \in Senders /\ k.record.legs[l].by = u /\ k.record.legs[l].status = "FILLED" => Settled(u, l)'
              => Fit(u, k)'
         /\ \A u \in Tasks : task'[u] = task[u] => Fit(u, task[u])'
<1>1. ASSUME NEW s \in Senders, Barred(s) PROVE Barred(s)'
  BY <1>1 DEF Barred, Working, NoRecord
<1>2. ASSUME NEW s \in Senders, NEW l \in Legs, Barred(s), Settled(s, l) PROVE Settled(s, l)'
  BY <1>2 DEF Barred, Working
<1>3. Route' = Route /\ Route \subseteq Legs
  BY SceneFacts DEF Inv, Types, Route
<1>4. ASSUME Done PROVE Done'
  BY <1>1, <1>2, <1>3, <1>4 DEF Done
<1>5. ASSUME NEW r \in Records, Sound(r) PROVE Sound(r)'
  <2>1. Known(r.legs)'
    BY <1>1, <1>5 DEF Sound, Known
  <2>2. ASSUME NEW l \in Legs, r.legs[l].status = "FILLED" PROVE Settled(r.legs[l].by, l)'
    <3>1. r.legs[l].by \in Senders /\ Barred(r.legs[l].by) /\ Settled(r.legs[l].by, l)
      BY <1>5, <2>2, LegIs DEF Sound, Known, Real
    <3> DEFINE b == r.legs[l].by
    <3>2. b \in Senders /\ Barred(b) /\ Settled(b, l)
      BY <3>1
    <3> HIDE DEF b
    <3>3. Settled(b, l)'
      BY <1>2, <3>2
    <3> QED
      BY <3>3 DEF b
  <2>3. Real(r.legs)'
    BY <2>2 DEF Real
  <2> QED
    BY <1>5, <2>1, <2>3, Constants DEF Sound, Holds
<1>6. ASSUME NEW u \in Tasks, NEW k \in TaskStates, Fit(u, k),
             \A l \in Legs : u \in Senders /\ k.record.legs[l].by = u /\ k.record.legs[l].status = "FILLED" => Settled(u, l)'
      PROVE  Fit(u, k)'
  <2>1. k.record \in Records
    BY DEF TaskStates
  <2>2. Own(u, k)'
    BY <1>1, <1>6 DEF Fit, Own, Working
  <2>3. ASSUME NEW l \in Legs, k.record.legs[l].status = "FILLED" PROVE Settled(k.record.legs[l].by, l)'
    <3> DEFINE b == k.record.legs[l].by
    <3>1. b \in Senders /\ Settled(b, l) /\ (Barred(b) \/ b = u)
      BY <1>6, <2>1, <2>3, LegIs DEF Fit, Real, Own
    <3>2. b = u => Settled(u, l)'
      BY <1>6, <2>3, <3>1
    <3> HIDE DEF b
    <3>3. Settled(b, l)'
      BY <1>2, <3>1, <3>2
    <3> QED
      BY <3>3 DEF b
  <2>4. Real(k.record.legs)'
    BY <2>3 DEF Real
  <2> QED
    BY <1>3, <1>4, <1>6, <2>2, <2>4 DEF Fit, Holds, NoRecord, NoLeg
<1>7. ASSUME NEW u \in Tasks, task'[u] = task[u] PROVE Fit(u, task[u])'
  <2>1. PICK k \in TaskStates : k = task[u] /\ Fit(u, k)
    BY DEF Inv, Types
  <2>2. ASSUME NEW l \in Legs, u \in Senders, k.record.legs[l].by = u, k.record.legs[l].status = "FILLED"
        PROVE  Settled(u, l)'
    <3>1. Settled(u, l)
      BY <2>1, <2>2 DEF Fit, Real
    <3>2. k.record.legs[l] # NoLeg
      BY <2>2, Blank
    <3> QED
      BY <2>1, <2>2, <3>1, <3>2
  <2>3. Fit(u, k)'
    BY <1>6, <2>1, <2>2
  <2>4. task'[u] = k
    BY <1>7, <2>1
  <2> QED
    BY <2>3, <2>4 DEF Fit, Real, Own, Holds
<1> QED
  BY <1>1, <1>2, <1>4, <1>5, <1>6, <1>7

----------------------------------------------------------------------------
(* A task moves, and with it perhaps the row of the order.                 *)

LEMMA TasksMove ==
  ASSUME Inv, task' \in [Tasks -> TaskStates], \A u \in Tasks : Fit(u, task'[u]),
         UNCHANGED <<scene, records, market, books>>,
         order' \in Rows, old' \in BOOLEAN, order'.state = "FILLED" => order.state = "FILLED" \/ Done,
         faults' \in 0..MaxFaults, faults' = faults \/ faults' = faults + 1,
         \A s \in Senders : task'[s].at \in Working => task[s].at \in Working \/ db = NoRecord,
         \A s \in Senders : faults' = faults + 1 \/ \A l \in Legs : MaySend(task'[s], l) => MaySend(task[s], l)
  PROVE  Inv'
<1>1. Types
  BY DEF Inv
<1>2. Types'
  BY <1>1 DEF Types, records, market, books
<1>3. /\ db' = db /\ cache' = cache /\ venue' = venue /\ sent' = sent /\ applied' = applied /\ position' = position
      /\ scene' = scene
  BY DEF records, market, books
<1>4. \A s \in Senders, l \in Legs : Settled(s, l) <=> Settled(s, l)'
  BY <1>3 DEF Settled, Checked
<1>5. /\ \A s \in Senders : Barred(s) => Barred(s)'
      /\ Done => Done'
      /\ \A r \in Records : Sound(r) => Sound(r)'
      /\ \A u \in Tasks, k \in TaskStates : 
              /\ Fit(u, k)
              /\ \A l \in Legs : u \in Senders /\ k.record.legs[l].by = u /\ k.record.legs[l].status = "FILLED" => Settled(u, l)'
              => Fit(u, k)'
  BY <1>3, <1>4, Steady
<1>6. ASSUME NEW u \in Tasks PROVE Fit(u, task[u])'
  <2>1. PICK k \in TaskStates : k = task'[u] /\ Fit(u, k)
    OBVIOUS
  <2>2. ASSUME NEW l \in Legs, u \in Senders, k.record.legs[l].by = u, k.record.legs[l].status = "FILLED"
        PROVE  Settled(u, l)'
    BY <1>4, <2>1, <2>2 DEF Fit, Real
  <2>3. Fit(u, k)'
    BY <1>5, <2>1, <2>2
  <2> QED
    BY <2>1, <2>3 DEF Fit, Real, Own, Holds
<1>7. ASSUME NEW s \in Senders, NEW l \in Legs PROVE Sends(s, l)'
  <2>1. Sends(s, l) /\ sent[s][l] \in Nat /\ faults \in Nat
    BY <1>1, BoundsAssumption DEF Inv, Types
  <2>2. CASE faults' = faults + 1
    BY <1>3, <2>1, <2>2 DEF Sends
  <2>3. CASE faults' = faults
    <3>1. MaySend(task'[s], l) => MaySend(task[s], l)
      BY <2>1, <2>3
    <3>2. MaySend(task[s], l)' => MaySend(task'[s], l)
      BY <1>3 DEF MaySend, NoRecord, NoLeg, Working
    <3> QED
      BY <1>3, <2>1, <2>3, <3>1, <3>2 DEF Sends
  <2> QED
    BY <2>2, <2>3
<1>8. ASSUME NEW s \in Senders, NEW l \in Legs PROVE Booked(s, l)'
  BY <1>3, <1>4, <1>5 DEF Inv, Booked
<1>9. (cache # NoRecord => db # NoRecord)' /\ Sound(db)' /\ Sound(cache)'
  <2>1. PICK d \in Records, c \in Records : d = db /\ c = cache
    BY <1>1 DEF Types
  <2>2. Sound(d)' /\ Sound(c)'
    BY <1>5, <2>1 DEF Inv
  <2>3. db' = d /\ cache' = c
    BY <1>3, <2>1
  <2>4. Sound(db)' /\ Sound(cache)'
    BY <2>2, <2>3 DEF Sound, Real, Known, Holds
  <2> QED
    BY <1>3, <2>4, Constants DEF Inv
<1> QED
  BY <1>2, <1>5, <1>6, <1>7, <1>8, <1>9 DEF Inv

LEMMA TaskMoves ==
  ASSUME Inv, NEW t \in Tasks, NEW k \in TaskStates, task' = [task EXCEPT ![t] = k], Fit(t, k),
         UNCHANGED <<scene, records, market, books>>,
         order' \in Rows, old' \in BOOLEAN, order'.state = "FILLED" => order.state = "FILLED" \/ Done,
         faults' \in 0..MaxFaults, faults' = faults \/ faults' = faults + 1,
         t \in Senders => /\ k.at \in Working => task[t].at \in Working \/ db = NoRecord
                          /\ faults' = faults + 1 \/ \A l \in Legs : MaySend(k, l) => MaySend(task[t], l)
  PROVE  Inv'
<1>1. task' \in [Tasks -> TaskStates] /\ task'[t] = k /\ \A u \in Tasks \ {t} : task'[u] = task[u]
  BY DEF Inv, Types
<1>2. \A u \in Tasks : Fit(u, task'[u])
  BY <1>1 DEF Inv
<1>3. Senders \subseteq Tasks
  BY Roles
<1>4. \A s \in Senders : task'[s].at \in Working => task[s].at \in Working \/ db = NoRecord
  BY <1>1, <1>3
<1>5. \A s \in Senders : faults' = faults + 1 \/ \A l \in Legs : MaySend(task'[s], l) => MaySend(task[s], l)
  BY <1>1, <1>3
<1> QED
  BY <1>1, <1>2, <1>4, <1>5, TasksMove

\* A task without a record in hand takes another place, or ends.
Resting == {"idle", "done", "check", "load", "save"}

LEMMA TaskGoes ==
  ASSUME Inv, NEW t \in Tasks, NEW k \in TaskStates, task' = [task EXCEPT ![t] = k],
         k.at \in Resting, k.record = NoRecord,
         k.at = "save" => k.to.state \in OrderStates /\ (k.to.state = "FILLED" => Done),
         UNCHANGED <<scene, records, market, books, faults>>,
         order' \in Rows, old' \in BOOLEAN, order'.state = "FILLED" => order.state = "FILLED" \/ Done,
         task[t].at \in Resting
  PROVE  Inv'
<1>1. Fit(t, k)
  BY RestingFits DEF Resting
<1>2. faults' \in 0..MaxFaults /\ faults' = faults
  BY DEF Inv, Types
<1>3. k.at \notin Working /\ \A l \in Legs : MaySend(k, l) => MaySend(task[t], l)
  BY DEF MaySend, Resting, Working
<1> QED
  BY <1>1, <1>2, <1>3, TaskMoves

\* What is in the hand of a task at the places before a record is looked for.
LEMMA Empty ==
  ASSUME Inv, NEW t \in Tasks, task[t].at \in Resting
  PROVE  task[t].record = NoRecord /\ task[t] \in TaskStates
BY DEF Inv, Types, Fit, Resting

\* A task that ends.
LEMMA EndIs ==
  ASSUME NEW t \in Tasks, End(t)
  PROVE  \E k \in TaskStates : task' = [task EXCEPT ![t] = k] /\ k.record = NoRecord /\ k.at \in {"idle", "done"}
<1> DEFINE p == IF t \in Directs THEN "done" ELSE "idle"
           k == [Idle EXCEPT !.at = p]
<1>1. p \in {"idle", "done"}
  OBVIOUS
<1>2. task' = [task EXCEPT ![t] = k]
  BY DEF End, Become
<1> HIDE DEF p
<1>3. k \in TaskStates /\ k.at = p /\ k.record = NoRecord
  BY <1>1, IdleAt
<1> HIDE DEF k
<1> QED
  BY <1>1, <1>2, <1>3

\* A task that ends where it has nothing in hand.
LEMMA EndGoes ==
  ASSUME Inv, NEW t \in Tasks, End(t), task[t].at \in Resting, UNCHANGED <<scene, records, market, books, faults>>,
         order' \in Rows, old' \in BOOLEAN, order'.state = "FILLED" => order.state = "FILLED" \/ Done
  PROVE  Inv'
<1>1. PICK k \in TaskStates : task' = [task EXCEPT ![t] = k] /\ k.record = NoRecord /\ k.at \in {"idle", "done"}
  BY EndIs
<1>2. k.at \in Resting /\ k.at # "save"
  BY <1>1 DEF Resting
<1> QED
  BY <1>1, <1>2, TaskGoes


LEMMA PatchIs ==
  ASSUME NEW s \in OrderStates
  PROVE  /\ Patch(s) \in Patches /\ Patch(s).state = s
         /\ [Patch(s) EXCEPT !.exec = TRUE] \in Patches /\ [Patch(s) EXCEPT !.exec = TRUE].state = s
         /\ [Patch(s) EXCEPT !.interrupted = TRUE] \in Patches /\ [Patch(s) EXCEPT !.interrupted = TRUE].state = s
BY DEF Patch, Patches

LEMMA StatesAre == {"BLOCKED", "EXPIRED", "FAILED", "FILLED", "SUBMITTED", "NEEDS_SIGNATURE", "SUBMITTING"} \subseteq OrderStates
BY DEF OrderStates

\* Writing a patch over the row.
LEMMA WriteIs ==
  ASSUME Inv, NEW p \in Patches, p.state \in OrderStates, Write(p)
  PROVE  order' \in Rows /\ order'.state = p.state /\ old' \in BOOLEAN
BY DEF Inv, Types, Rows, Write, Patches

LEMMA SaveOrderStep ==
  ASSUME Inv, UNCHANGED scene, NEW t \in Tasks, SaveOrder(t)
  PROVE  Inv'
<1>1. task[t].at = "save" /\ End(t) /\ Write(task[t].to) /\ UNCHANGED <<records, market, books, faults>>
  BY DEF SaveOrder, At
<1>2. /\ task[t].to \in Patches /\ task[t].to.state \in OrderStates
      /\ task[t].to.state = "FILLED" => Done
  BY <1>1 DEF Inv, Types, TaskStates, Fit
<1>3. order' \in Rows /\ order'.state = task[t].to.state /\ old' \in BOOLEAN
  BY <1>1, <1>2, WriteIs
<1>4. order'.state = "FILLED" => Done
  BY <1>2, <1>3
<1>5. task[t].at \in Resting
  BY <1>1 DEF Resting
<1> QED
  BY <1>1, <1>3, <1>4, <1>5, EndGoes

LEMMA BeginStep ==
  ASSUME Inv, UNCHANGED scene, NEW t \in Tasks, NEW p \in {"check", "load"}, task[t].at = "idle",
         task' = [task EXCEPT ![t] = [Idle EXCEPT !.at = p]], UNCHANGED <<row, records, market, books, faults>>
  PROVE  Inv'
<1> DEFINE k == [Idle EXCEPT !.at = p]
<1>1. k \in TaskStates /\ k.at = p /\ k.record = NoRecord
  BY IdleAt
<1>2. task' = [task EXCEPT ![t] = k]
  OBVIOUS
<1>3. order' \in Rows /\ old' \in BOOLEAN /\ order' = order
  BY DEF Inv, Types, row
<1> HIDE DEF k
<1>4. k.at \in Resting /\ k.at # "save" /\ task[t].at \in Resting
  BY <1>1 DEF Resting
<1> QED
  BY <1>1, <1>2, <1>3, <1>4, TaskGoes

LEMMA ReadOrderStep ==
  ASSUME Inv, UNCHANGED scene, NEW r \in Requests, ReadOrder(r)
  PROVE  Inv'
<1>1. r \in Tasks
  BY Roles
<1> QED
  BY <1>1, BeginStep DEF ReadOrder, At, Become

LEMMA StartDirectStep ==
  ASSUME Inv, UNCHANGED scene, NEW d \in Directs, StartDirect(d)
  PROVE  Inv'
<1>1. d \in Tasks
  BY DEF Tasks, Senders
<1> QED
  BY <1>1, BeginStep DEF StartDirect, At, Become

LEMMA PlaceStep ==
  ASSUME Inv, UNCHANGED scene, NEW t \in Tasks, Place(t)
  PROVE  Inv'
<1>1. task[t].at = "check" /\ End(t) /\ UNCHANGED <<records, market, books, faults>>
  BY DEF Place, At
<1>2. PICK s \in {"EXPIRED", "BLOCKED", "NEEDS_SIGNATURE"} : Write(Patch(s))
  BY DEF Place
<1>3. s \in OrderStates /\ s # "FILLED"
  BY StatesAre
<1>4. order' \in Rows /\ order'.state = s /\ old' \in BOOLEAN
  BY <1>2, <1>3, PatchIs, WriteIs
<1>5. task[t].at \in Resting
  BY <1>1 DEF Resting
<1> QED
  BY <1>1, <1>3, <1>4, <1>5, EndGoes

LEMMA NotStartedStep ==
  ASSUME Inv, UNCHANGED scene, NEW t \in Tasks, NotStarted(t)
  PROVE  Inv'
<1>1. task[t].at = "check" /\ End(t) /\ UNCHANGED <<row, records, market, books, faults>>
  BY DEF NotStarted, At
<1>2. order' \in Rows /\ old' \in BOOLEAN /\ order' = order
  BY <1>1 DEF Inv, Types, row
<1>3. task[t].at \in Resting
  BY <1>1 DEF Resting
<1> QED
  BY <1>1, <1>2, <1>3, EndGoes

LEMMA StartSubmitStep ==
  ASSUME Inv, UNCHANGED scene, NEW t \in Tasks, StartSubmit(t)
  PROVE  Inv'
<1>1. task[t].at = "check" /\ UNCHANGED <<records, market, books, faults>>
      /\ order' = [order EXCEPT !.state = "SUBMITTING"] /\ old' = FALSE
  BY DEF StartSubmit, At
<1>2. task' = [task EXCEPT ![t] = Idle, !["submit"] = IF @.at = "idle" THEN [Idle EXCEPT !.at = "load"] ELSE @]
  BY DEF StartSubmit
<1>3. task \in [Tasks -> TaskStates] /\ "submit" \in Tasks
  BY Roles DEF Inv, Types
<1> DEFINE L == [Idle EXCEPT !.at = "load"]
<1>4. /\ L \in TaskStates /\ L.at = "load" /\ L.record = NoRecord
      /\ Idle \in TaskStates /\ Idle.at = "idle" /\ Idle.record = NoRecord
  BY IdleIs, IdleAt
<1> HIDE DEF L
<1>5. /\ task' \in [Tasks -> TaskStates]
      /\ \A u \in Tasks : \/ task'[u] = task[u]
                          \/ u = t /\ task'[u] = Idle
                          \/ u = "submit" /\ task'[u] = L /\ (task[u].at = "idle" \/ u = t)
  BY <1>2, <1>3, <1>4 DEF L
<1>6. \A u \in Tasks : Fit(u, Idle) /\ Fit(u, L)
  BY <1>4, RestingFits
<1>7. \A u \in Tasks : Fit(u, task'[u])
  BY <1>5, <1>6 DEF Inv
<1>8. ASSUME NEW s \in Senders
      PROVE  /\ task'[s].at \in Working => task[s].at \in Working
             /\ \A l \in Legs : MaySend(task'[s], l) => MaySend(task[s], l)
  <2>1. s \in Tasks
    BY Roles
  <2>2. task'[s] = task[s] \/ (task'[s].at \in {"idle", "load"} /\ task[s].at \in {"idle", "check"})
    BY <1>1, <1>4, <1>5, <2>1
  <2> QED
    BY <2>2 DEF MaySend, Working
<1>9. order' \in Rows /\ order'.state = "SUBMITTING" /\ old' \in BOOLEAN /\ faults' \in 0..MaxFaults
  BY <1>1, StatesAre DEF Inv, Types, Rows
<1> QED
  BY <1>1, <1>5, <1>7, <1>8, <1>9, TasksMove

----------------------------------------------------------------------------
(* Records are looked up, judged and concluded from.                       *)

LEMMA Outcomes ==
  ASSUME NEW t, NEW r \in Records
  PROVE  /\ Outcome(t, r) \in {"FAILED", "SUBMITTED", "FILLED"}
         /\ Outcome(t, r) = "FILLED" => \A l \in Route : r.legs[l].status = "FILLED"
<1>1. Summarize(r) \in {"FAILED", "SUBMITTED", "FILLED"}
      /\ (Summarize(r) = "FILLED" => \A l \in Route : r.legs[l].status = "FILLED")
  BY DEF Summarize, AllFilled
<1> QED
  BY <1>1 DEF Outcome

\* A task that finishes with a record ends, or goes to save what the record says.
LEMMA Finishes ==
  ASSUME Inv, NEW t \in Tasks, NEW r \in Records, Real(r.legs), Known(r.legs), Finish(t, r)
  PROVE  \E k \in TaskStates : /\ task' = [task EXCEPT ![t] = k] /\ k.record = NoRecord
                               /\ k.at \in {"idle", "done", "save"}
                               /\ k.at = "save" => k.to.state \in OrderStates /\ (k.to.state = "FILLED" => Done)
<1>1. CASE End(t)
  BY <1>1, EndIs
<1>2. CASE UpdateOrder(t, [Patch(Outcome(t, r)) EXCEPT !.exec = TRUE])
  <2> DEFINE o == Outcome(t, r)
             p == [Patch(o) EXCEPT !.exec = TRUE]
             k == [Idle EXCEPT !.at = "save", !.to = p]
  <2>1. o \in {"FAILED", "SUBMITTED", "FILLED"} /\ (o = "FILLED" => \A l \in Route : r.legs[l].status = "FILLED")
    BY Outcomes
  <2>2. Route \subseteq Legs
    BY SceneFacts DEF Inv, Types, Route
  <2>3. o = "FILLED" => Done
    <3> SUFFICES ASSUME o = "FILLED", NEW l \in Route PROVE \E s \in Senders : Barred(s) /\ Settled(s, l)
      BY DEF Done
    <3>1. l \in Legs /\ r.legs[l].status = "FILLED"
      BY <2>1, <2>2
    <3> QED
      BY <3>1, LegIs DEF Real, Known
  <2>4. o \in OrderStates
    BY <2>1, StatesAre
  <2> HIDE DEF o
  <2>5. p \in Patches /\ p.state = o
    BY <2>4, PatchIs
  <2> HIDE DEF p
  <2>6. k \in TaskStates /\ k.at = "save" /\ k.to = p /\ k.record = NoRecord
    BY <2>5, IdleTo
  <2>7. task' = [task EXCEPT ![t] = k]
    BY <1>2 DEF UpdateOrder, Become, p, o
  <2> HIDE DEF k
  <2> QED
    BY <2>3, <2>4, <2>5, <2>6, <2>7
<1> QED
  BY <1>1, <1>2 DEF Finish, Conclude

\* A refresh of a record leaves a record of what the venues say.
LEMMA RefreshedIs ==
  ASSUME Inv, NEW r \in Records, r # NoRecord, Sound(r), NEW asked
  PROVE  Refreshed(r, asked) \in Records /\ Holds(Refreshed(r, asked).legs)
         /\ Real(Refreshed(r, asked).legs) /\ Known(Refreshed(r, asked).legs)
<1> DEFINE legs == RefreshedLegs(r.legs, asked)
<1>1. \A s \in Senders, l \in Legs :
        FetchLeg(s, l) \in {"OPEN", "FILLED", "FAILED"} /\ (FetchLeg(s, l) = "FILLED" => Settled(s, l))
  <2> SUFFICES ASSUME NEW s \in Senders, NEW l \in Legs
               PROVE  FetchLeg(s, l) \in {"OPEN", "FILLED", "FAILED"} /\ (FetchLeg(s, l) = "FILLED" => Settled(s, l))
    OBVIOUS
  <2>1. CASE venue[s][l] = "killed"
    <3>1. ~Settled(s, l)
      BY <2>1 DEF Settled
    <3>2. FetchLeg(s, l) = "FAILED"
      BY <2>1, <3>1 DEF FetchLeg
    <3> QED
      BY <3>2
  <2>2. CASE venue[s][l] # "killed" /\ Settled(s, l)
    BY <2>2 DEF FetchLeg
  <2>3. CASE venue[s][l] # "killed" /\ ~Settled(s, l)
    BY <2>3 DEF FetchLeg
  <2> QED
    BY <2>1, <2>2, <2>3
<1>2. ASSUME NEW l \in Legs
      PROVE  /\ legs[l] \in LegRecords /\ legs[l].by = r.legs[l].by
             /\ legs[l] = NoLeg <=> r.legs[l] = NoLeg
             /\ legs[l].status = "FILLED" => Settled(legs[l].by, l)
  <2>1. legs[l] = IF l \in asked /\ r.legs[l].status \in {"OPEN", "FILLED"}
                  THEN [r.legs[l] EXCEPT !.status = FetchLeg(r.legs[l].by, l)] ELSE r.legs[l]
    BY DEF RefreshedLegs
  <2>2. r.legs[l] \in LegRecords /\ (r.legs[l].status = "FILLED" => Settled(r.legs[l].by, l))
    BY DEF Records, Sound, Real
  <2>3. CASE l \in asked /\ r.legs[l].status \in {"OPEN", "FILLED"}
    <3> DEFINE b == r.legs[l].by
               f == FetchLeg(b, l)
    <3>1. r.legs[l] # NoLeg /\ b \in Senders
      BY <2>2, <2>3, Blank DEF LegRecords
    <3>2. f \in {"OPEN", "FILLED", "FAILED"} /\ (f = "FILLED" => Settled(b, l))
      BY <1>1, <3>1
    <3>3. legs[l] = [r.legs[l] EXCEPT !.status = f]
      BY <2>1, <2>3
    <3> HIDE DEF f, legs
    <3>4. r.legs[l] \in [by : Senders, status : {"OPEN", "FILLED", "FAILED"}]
      BY <2>2, <3>1 DEF LegRecords
    <3>5. legs[l] \in [by : Senders, status : {"OPEN", "FILLED", "FAILED"}] /\ legs[l].by = b /\ legs[l].status = f
      BY <3>2, <3>3, <3>4
    <3> QED
      BY <3>1, <3>2, <3>5, Blank DEF LegRecords
  <2>4. CASE ~(l \in asked /\ r.legs[l].status \in {"OPEN", "FILLED"})
    BY <2>1, <2>2, <2>4
  <2> QED
    BY <2>3, <2>4
<1>3. legs \in [Legs -> LegRecords]
  BY <1>2 DEF RefreshedLegs
<1>4. Refreshed(r, asked) = [failed |-> HasFailed(legs), legs |-> legs] /\ HasFailed(legs) \in BOOLEAN
  BY DEF Refreshed, HasFailed
<1>5. Holds(legs) /\ Real(legs) /\ Known(legs)
  <2>1. Holds(r.legs) /\ Known(r.legs)
    BY DEF Sound
  <2> HIDE DEF legs
  <2> QED
    BY <1>2, <2>1 DEF Holds, Real, Known
<1> HIDE DEF legs
<1> QED
  BY <1>3, <1>4, <1>5 DEF Records

LEMMA FaultCounted == Inv /\ Fault => faults' \in 0..MaxFaults /\ faults' = faults + 1
BY BoundsAssumption DEF Inv, Types, Fault

LEMMA RefreshStep ==
  ASSUME Inv, NEW t \in {"refresh", "watcher"}, NEW r \in Records, r # NoRecord, Sound(r),
         task[t].at = "idle", Refresh(t, r), UNCHANGED <<scene, row, records, market, books>>
  PROVE  Inv'
<1>1. t \in Tasks /\ t \notin Senders
  BY Roles
<1>2. PICK asked : task' = [task EXCEPT ![t] = [Idle EXCEPT !.at = "store", !.record = Refreshed(r, asked)]]
  BY DEF Refresh, Become
<1> DEFINE n == Refreshed(r, asked)
           k == [Idle EXCEPT !.at = "store", !.record = n]
<1>3. n \in Records /\ Holds(n.legs) /\ Real(n.legs) /\ Known(n.legs)
  BY RefreshedIs
<1>4. task' = [task EXCEPT ![t] = k]
  BY <1>2
<1> HIDE DEF n
<1>5. k \in TaskStates /\ k.at = "store" /\ k.record = n
  BY <1>3, IdleWith
<1> HIDE DEF k
<1>6. Own(t, k)
  BY <1>3, <1>5 DEF Own, Known
<1>7. Fit(t, k)
  BY <1>3, <1>5, <1>6 DEF Fit
<1>8. faults' \in 0..MaxFaults /\ (faults' = faults \/ faults' = faults + 1)
  BY FaultCounted DEF Refresh, Inv, Types
<1>9. order' \in Rows /\ old' \in BOOLEAN /\ order' = order
  BY DEF Inv, Types, row
<1> QED
  BY <1>1, <1>4, <1>5, <1>7, <1>8, <1>9, TaskMoves

LEMMA StoredIs ==
  Inv => /\ FindStored \in Records /\ Sound(FindStored)
         /\ FindStored = NoRecord => db = NoRecord /\ cache = NoRecord
BY DEF Inv, Types, FindStored

LEMMA StatusStep ==
  ASSUME Inv, UNCHANGED scene, Status
  PROVE  Inv'
<1>1. task["refresh"].at = "idle" /\ UNCHANGED <<row, records, market, books>> /\ "refresh" \in Tasks
  BY Roles DEF Status, At
<1>2. CASE FindStored # NoRecord /\ Refresh("refresh", FindStored)
  BY <1>1, <1>2, StoredIs, RefreshStep
<1>3. ASSUME NEW p \in {[Patch("FAILED") EXCEPT !.interrupted = TRUE], Patch("EXPIRED")},
             UpdateOrder("refresh", p), UNCHANGED faults
      PROVE  Inv'
  <2> DEFINE k == [Idle EXCEPT !.at = "save", !.to = p]
  <2>1. p \in Patches /\ p.state \in {"FAILED", "EXPIRED"}
    BY PatchIs, StatesAre
  <2>2. k \in TaskStates /\ k.at = "save" /\ k.to = p /\ k.record = NoRecord
    BY <2>1, IdleTo
  <2>3. task' = [task EXCEPT !["refresh"] = k]
    BY <1>3 DEF UpdateOrder, Become
  <2> HIDE DEF k
  <2>4. k.to.state \in OrderStates /\ k.to.state # "FILLED"
    BY <2>1, <2>2, StatesAre
  <2>5. order' \in Rows /\ old' \in BOOLEAN /\ order' = order
    BY <1>1 DEF Inv, Types, row
  <2>6. task["refresh"].at \in Resting /\ k.at \in Resting
    BY <1>1, <2>2 DEF Resting
  <2> QED
    BY <1>1, <1>3, <2>2, <2>3, <2>4, <2>5, <2>6, TaskGoes
<1> QED
  BY <1>2, <1>3 DEF Status

LEMMA RefreshActiveStep ==
  ASSUME Inv, UNCHANGED scene, RefreshActive
  PROVE  Inv'
<1>1. task["watcher"].at = "idle" /\ db # NoRecord /\ Refresh("watcher", db) /\ UNCHANGED <<row, records, market, books>>
  BY DEF RefreshActive, Listed, At
<1>2. db \in Records /\ Sound(db)
  BY DEF Inv, Types
<1> QED
  BY <1>1, <1>2, RefreshStep

\* A submission throws: its order is to be FAILED, or its request is answered.
LEMMA ThrowIs ==
  ASSUME NEW s \in Senders, Throw(s)
  PROVE  \E k \in TaskStates : /\ task' = [task EXCEPT ![s] = k] /\ k.record = NoRecord
                               /\ k.at \in {"idle", "done", "save"}
                               /\ k.at = "save" => k.to.state \in OrderStates /\ k.to.state # "FILLED"
<1>1. CASE End(s)
  <2>1. s \in Tasks
    BY Roles
  <2> QED
    BY <1>1, <2>1, EndIs
<1>2. CASE UpdateOrder(s, Patch("FAILED"))
  <2> DEFINE p == Patch("FAILED")
             k == [Idle EXCEPT !.at = "save", !.to = p]
  <2>1. p \in Patches /\ p.state = "FAILED" /\ "FAILED" \in OrderStates
    BY PatchIs, StatesAre
  <2>2. task' = [task EXCEPT ![s] = k]
    BY <1>2 DEF UpdateOrder, Become
  <2> HIDE DEF p
  <2>3. k \in TaskStates /\ k.at = "save" /\ k.to = p /\ k.record = NoRecord
    BY <2>1, IdleTo
  <2> HIDE DEF k
  <2> QED
    BY <2>1, <2>2, <2>3
<1> QED
  BY <1>1, <1>2 DEF Throw

LEMMA LoadQuoteStep ==
  ASSUME Inv, UNCHANGED scene, NEW s \in Senders, LoadQuote(s)
  PROVE  Inv'
<1>1. /\ task[s].at = "load" /\ UNCHANGED <<row, records, market, books, faults>> /\ s \in Tasks
  BY Roles DEF LoadQuote, At
<1>2. order' \in Rows /\ old' \in BOOLEAN /\ order' = order /\ faults' \in 0..MaxFaults /\ faults' = faults
  BY <1>1 DEF Inv, Types, row
<1>3. task[s].at \in Resting
  BY <1>1 DEF Resting
<1>4. task[s].record = NoRecord /\ task[s] \in TaskStates
  BY <1>1, <1>3, Empty
<1>5. CASE Throw(s)
  <2>1. PICK k \in TaskStates : /\ task' = [task EXCEPT ![s] = k] /\ k.record = NoRecord
                                /\ k.at \in {"idle", "done", "save"}
                                /\ k.at = "save" => k.to.state \in OrderStates /\ k.to.state # "FILLED"
    BY <1>5, ThrowIs
  <2>2. k.at \in Resting
    BY <2>1 DEF Resting
  <2> QED
    BY <1>1, <1>2, <1>3, <2>1, <2>2, TaskGoes
<1>6. CASE FindStored # NoRecord /\ Finish(s, FindStored)
  <2>1. FindStored \in Records /\ Real(FindStored.legs) /\ Known(FindStored.legs)
    BY StoredIs DEF Sound
  <2>2. PICK k \in TaskStates : /\ task' = [task EXCEPT ![s] = k] /\ k.record = NoRecord
                                /\ k.at \in {"idle", "done", "save"}
                                /\ k.at = "save" => k.to.state \in OrderStates /\ (k.to.state = "FILLED" => Done)
    BY <1>1, <1>6, <2>1, Finishes
  <2>3. k.at \in Resting
    BY <2>2 DEF Resting
  <2> QED
    BY <1>1, <1>2, <1>3, <2>2, <2>3, TaskGoes
<1>7. CASE FindStored = NoRecord /\ Goto(s, "leg")
  <2> DEFINE k == [task[s] EXCEPT !.at = "leg"]
  <2>1. k \in TaskStates /\ k.at = "leg" /\ k.record = NoRecord
    BY <1>4 DEF TaskStates, Places
  <2>2. task' = [task EXCEPT ![s] = k]
    BY <1>7 DEF Goto, Become
  <2> HIDE DEF k
  <2>3. db = NoRecord
    BY <1>7, StoredIs
  <2>4. 1 \in Route /\ \A l \in Legs : NoRecord.legs[l] = NoLeg <=> l >= 1
    <3>1. 1 \in Route
      BY SceneFacts DEF Route, Inv, Types
    <3>2. \A l \in Legs : l >= 1
      BY DEF Legs
    <3> QED
      BY <3>1, <3>2, Blank
  <2>5. Fit(s, k)
    <3>1. Real(k.record.legs) /\ Own(s, k)
      BY <2>1, Blank, BlankFits DEF Own
    <3> QED
      BY <2>1, <2>4, <3>1 DEF Fit
  <2>6. \A l \in Legs : MaySend(task[s], l)
    BY <1>1, <2>3 DEF MaySend, Working
  <2> QED
    BY <1>1, <1>2, <2>1, <2>2, <2>3, <2>5, <2>6, TaskMoves
<1> QED
  BY <1>5, <1>6, <1>7 DEF LoadQuote

LEMMA PrepareThrowsStep ==
  ASSUME Inv, UNCHANGED scene, NEW s \in Senders, PrepareThrows(s)
  PROVE  Inv'
<1>1. Throw(s) /\ s \in Tasks /\ UNCHANGED <<row, records, market, books>>
      /\ faults' \in 0..MaxFaults /\ faults' = faults + 1
  BY FaultCounted, Roles DEF PrepareThrows
<1>2. PICK k \in TaskStates : /\ task' = [task EXCEPT ![s] = k] /\ k.record = NoRecord
                              /\ k.at \in {"idle", "done", "save"}
                              /\ k.at = "save" => k.to.state \in OrderStates /\ k.to.state # "FILLED"
  BY <1>1, ThrowIs
<1>3. Fit(s, k) /\ k.at \notin Working
  BY <1>2, RestingFits DEF Working
<1>4. order' \in Rows /\ old' \in BOOLEAN /\ order' = order
  BY <1>1 DEF Inv, Types, row
<1> QED
  BY <1>1, <1>2, <1>3, <1>4, TaskMoves

----------------------------------------------------------------------------
(* Legs are sent one after the other, while others may do the same.        *)

LEMMA NextLeg ==
  ASSUME Inv, NEW s \in Senders, task[s].at = "leg"
  PROVE  /\ s \in Tasks /\ task[s] \in TaskStates /\ Fit(s, task[s])
         /\ Leg(s) \in Route /\ Leg(s) \in Legs
         /\ \A l \in Legs : task[s].record.legs[l] = NoLeg <=> l >= Leg(s)
<1>1. s \in Tasks /\ task[s] \in TaskStates /\ Fit(s, task[s])
  BY Roles DEF Inv, Types
<1>2. PICK n \in Route : \A l \in Legs : task[s].record.legs[l] = NoLeg <=> l >= n
  BY <1>1 DEF Fit
<1>4. Route \subseteq Legs /\ scene.legs \in Nat
  BY SceneFacts DEF Inv, Types, Route
<1> DEFINE P(l) == task[s].record.legs[l] = NoLeg /\ \A k \in 1..(l - 1) : task[s].record.legs[k] # NoLeg
<1>5. P(n)
  <2>1. \A k \in 1..(n - 1) : k \in Legs /\ ~(k >= n)
    BY <1>4 DEF Route, Legs
  <2> QED
    BY <1>2, <1>4, <2>1 DEF Route
<1>6. ASSUME NEW l \in Route, P(l) PROVE l = n
  <2>1. l >= n
    BY <1>2, <1>4, <1>6
  <2>2. ~(n \in 1..(l - 1))
    BY <1>2, <1>4, <1>6, <1>5
  <2> QED
    BY <2>1, <2>2, <1>4 DEF Route
<1>7. Leg(s) = n
  <2>1. Leg(s) = CHOOSE l \in Route : P(l)
    BY DEF Leg
  <2> HIDE DEF P
  <2> QED
    BY <1>5, <1>6, <2>1
<1> QED
  BY <1>1, <1>2, <1>4, <1>7

\* The answer of a venue is noted, and the next leg comes or the legs are recorded.
Noted(s, n, status, k) ==
  /\ k.record.legs[n] = [by |-> s, status |-> status]
  /\ \A l \in Legs \ {n} : k.record.legs[l] = task[s].record.legs[l]
  /\ k.at = "merge" \/ (k.at = "leg" /\ \E m \in Route : \A l \in Legs : k.record.legs[l] = NoLeg <=> l >= m)

LEMMA AnswerIs ==
  ASSUME Inv, NEW s \in Senders, task[s].at = "leg", NEW status \in {"OPEN", "FILLED", "FAILED"}, Answered(s, status)
  PROVE  \E k \in TaskStates : task' = [task EXCEPT ![s] = k] /\ Noted(s, Leg(s), status, k)
<1> DEFINE at == IF status = "FAILED" \/ Leg(s) = scene.legs THEN "merge" ELSE "leg"
           new == [by |-> s, status |-> status]
           legs == [task[s].record.legs EXCEPT ![Leg(s)] = new]
           record == [failed |-> status = "FAILED", legs |-> legs]
           k == [task[s] EXCEPT !.record = record, !.at = at]
<1>1. task[s] \in TaskStates /\ Leg(s) \in Legs /\ task[s].record.legs \in [Legs -> LegRecords]
  BY NextLeg DEF TaskStates, Records
<1>2. task' = [task EXCEPT ![s] = k]
  BY DEF Answered, Become
<1>3. new \in LegRecords /\ new # NoLeg
  BY Blank DEF LegRecords
<1> HIDE DEF new
<1>4. /\ legs \in [Legs -> LegRecords] /\ legs[Leg(s)] = new
      /\ \A l \in Legs \ {Leg(s)} : legs[l] = task[s].record.legs[l]
  BY <1>1, <1>3
<1> HIDE DEF legs
<1>5. record \in Records /\ record.legs = legs
  BY <1>4 DEF Records
<1> HIDE DEF record
<1>6. k \in TaskStates /\ k.at = at /\ k.record = record
  BY <1>1, <1>5 DEF TaskStates, Places
<1> HIDE DEF k
<1>7. ASSUME at = "leg"
      PROVE  \E n \in Route : \A l \in Legs : legs[l] = NoLeg <=> l >= n
  <2>1. scene.legs \in Nat /\ Leg(s) \in 1..scene.legs /\ Leg(s) # scene.legs
    BY <1>7, SceneFacts, NextLeg DEF Inv, Types, Route
  <2>2. Leg(s) + 1 \in Route
    BY <2>1 DEF Route
  <2>3. ASSUME NEW l \in Legs PROVE legs[l] = NoLeg <=> l >= Leg(s) + 1
    <3>1. CASE l = Leg(s)
      BY <1>3, <1>4, <3>1, <2>1
    <3>2. CASE l # Leg(s)
      <4>1. legs[l] = NoLeg <=> l >= Leg(s)
        BY <1>4, <3>2, NextLeg
      <4>2. l \in Nat /\ Leg(s) \in Nat
        BY <2>1 DEF Legs
      <4> QED
        BY <3>2, <4>1, <4>2
    <3> QED
      BY <3>1, <3>2
  <2> QED
    BY <2>2, <2>3
<1>8. k.at = "merge" \/ (k.at = "leg" /\ \E n \in Route : \A l \in Legs : k.record.legs[l] = NoLeg <=> l >= n)
  BY <1>5, <1>6, <1>7
<1> QED
  BY <1>2, <1>4, <1>5, <1>6, <1>8 DEF Noted, new

\* What the sender then has in hand fits, with an order that may have filled.
LEMMA AnswerFits ==
  ASSUME Inv, NEW s \in Senders, task[s].at = "leg", NEW status \in {"OPEN", "FILLED", "FAILED"},
         NEW k \in TaskStates, NEW n \in Legs, n = Leg(s), Noted(s, n, status, k)
  PROVE  /\ Own(s, k) /\ Holds(k.record.legs) /\ k.at \in Working
         /\ \A l \in Legs : MaySend(k, l) => l # n /\ MaySend(task[s], l)
         /\ \A l \in Legs \ {n} : k.record.legs[l].status = "FILLED" => Settled(k.record.legs[l].by, l)
         /\ (status = "FILLED" => Settled(s, n)) => Fit(s, k)
<1>1. Fit(s, task[s])
  BY NextLeg
<1>2. k.record.legs[n] # NoLeg /\ k.record.legs[n].by = s /\ k.record.legs[n].status = status
  BY Blank DEF Noted
<1>3. k.at \in Working
  BY DEF Noted, Working
<1>4. Own(s, k)
  BY <1>1, <1>2, <1>3 DEF Fit, Own, Noted
<1>5. \A l \in Legs \ {n} : k.record.legs[l].status = "FILLED" => Settled(k.record.legs[l].by, l)
  BY <1>1 DEF Fit, Real, Noted
<1>6. ASSUME status = "FILLED" => Settled(s, n) PROVE Fit(s, k)
  <2>1. Real(k.record.legs)
    BY <1>2, <1>5, <1>6 DEF Real
  <2> QED
    BY <1>2, <1>4, <2>1 DEF Fit, Holds, Noted
<1>7. \A l \in Legs : MaySend(k, l) => l # n /\ MaySend(task[s], l)
  BY <1>2, <1>3 DEF MaySend, Noted
<1> QED
  BY <1>2, <1>3, <1>4, <1>5, <1>6, <1>7 DEF Holds

LEMMA LegRefusedStep ==
  ASSUME Inv, UNCHANGED scene, NEW s \in Senders, LegRefused(s)
  PROVE  Inv'
<1>1. task[s].at = "leg" /\ Answered(s, "FAILED") /\ UNCHANGED <<row, records, market, books, faults>>
  BY DEF LegRefused, At
<1>2. PICK k \in TaskStates : task' = [task EXCEPT ![s] = k] /\ Noted(s, Leg(s), "FAILED", k)
  BY <1>1, AnswerIs
<1>3. PICK n \in Legs : n = Leg(s)
  BY <1>1, NextLeg
<1>4. Fit(s, k) /\ \A l \in Legs : MaySend(k, l) => MaySend(task[s], l)
  <2> DEFINE status == "FAILED"
  <2>1. status \in {"OPEN", "FILLED", "FAILED"} /\ status # "FILLED" /\ Noted(s, n, status, k)
    BY <1>2, <1>3
  <2> HIDE DEF status
  <2> QED
    BY <1>1, <1>3, <2>1, AnswerFits
<1>5. order' \in Rows /\ old' \in BOOLEAN /\ order' = order /\ faults' \in 0..MaxFaults /\ faults' = faults
  BY <1>1 DEF Inv, Types, row
<1>6. task[s].at \in Working /\ s \in Tasks
  BY <1>1, Roles DEF Working
<1> QED
  BY <1>1, <1>2, <1>4, <1>5, <1>6, TaskMoves

\* A venue has the order of a leg, whatever it answers.
LEMMA LegIsSent ==
  ASSUME Inv, NEW s \in Senders, task[s].at = "leg", NEW state \in {"open", "filled"},
         NEW status \in {"OPEN", "FILLED", "FAILED"}, status = "FILLED" => state = "filled" /\ Leg(s) \notin Checked,
         venue' = [venue EXCEPT ![s][Leg(s)] = state], sent' = [sent EXCEPT ![s][Leg(s)] = @ + 1], Answered(s, status),
         UNCHANGED <<scene, row, records, quote, books>>,
         faults' \in 0..MaxFaults, faults' = faults \/ faults' = faults + 1
  PROVE  Inv'
<1>1. PICK k \in TaskStates : task' = [task EXCEPT ![s] = k] /\ Noted(s, Leg(s), status, k)
  BY AnswerIs
<1>2. PICK n \in Legs : n = Leg(s)
  BY NextLeg
<1>3. /\ Noted(s, n, status, k)
      /\ venue' = [venue EXCEPT ![s][n] = state] /\ sent' = [sent EXCEPT ![s][n] = @ + 1]
      /\ status = "FILLED" => state = "filled" /\ n \notin Checked
  BY <1>1, <1>2
<1>4. /\ Own(s, k) /\ Holds(k.record.legs) /\ k.at \in Working
      /\ \A l \in Legs : MaySend(k, l) => l # n /\ MaySend(task[s], l)
      /\ \A l \in Legs \ {n} : k.record.legs[l].status = "FILLED" => Settled(k.record.legs[l].by, l)
  BY <1>2, <1>3, AnswerFits
<1>5. /\ s \in Tasks /\ task[s].record.legs[n] = NoLeg /\ Types /\ Senders \subseteq Tasks
      /\ task[s].at \in Working /\ MaySend(task[s], n)
  <2>1. n \in Nat
    BY DEF Legs
  <2> QED
    BY <1>2, <2>1, NextLeg, Roles DEF Inv, Working, MaySend
<1>6. /\ db' = db /\ cache' = cache /\ aged' = aged /\ order' = order /\ old' = old
      /\ Route' = Route /\ Checked' = Checked /\ scene' = scene
      /\ applied' = applied /\ position' = position /\ quote' = quote
  BY DEF records, row, Route, Checked, books
<1>7. /\ venue' \in [Senders -> [Legs -> VenueStates]] /\ sent' \in [Senders -> [Legs -> Nat]]
      /\ venue'[s][n] = state /\ sent'[s][n] = sent[s][n] + 1
      /\ \A t \in Senders, l \in Legs : t # s \/ l # n => venue'[t][l] = venue[t][l] /\ sent'[t][l] = sent[t][l]
  <2>1. venue \in [Senders -> [Legs -> VenueStates]] /\ sent \in [Senders -> [Legs -> Nat]] /\ state \in VenueStates
    BY <1>5 DEF Types, VenueStates
  <2> QED
    BY <1>3, <2>1
<1>8. /\ task' \in [Tasks -> TaskStates] /\ task'[s] = k
      /\ \A u \in Tasks \ {s} : task'[u] = task[u]
  BY <1>1, <1>5 DEF Types
<1>9. Types'
  BY <1>5, <1>6, <1>7, <1>8 DEF Types
<1>10. \A t \in Senders, l \in Legs : t # s \/ l # n => (Settled(t, l) <=> Settled(t, l)')
  BY <1>6, <1>7 DEF Settled
<1>11. /\ \A t \in Senders : Barred(t) => Barred(t)'
       /\ \A t \in Senders, l \in Legs : Barred(t) /\ Settled(t, l) => Settled(t, l)'
       /\ Done => Done'
       /\ \A r \in Records : Sound(r) => Sound(r)'
       /\ \A u \in Tasks : task'[u] = task[u] => Fit(u, task[u])'
  <2>1. \A t \in Senders : task'[t].at \in Working => task[t].at \in Working \/ db = NoRecord
    BY <1>5, <1>8
  <2>2. \A t \in Senders, l \in Legs :
           Settled(t, l) => Settled(t, l)' \/ (task[t].at = "leg" /\ task[t].record.legs[l] = NoLeg)
    BY <1>5, <1>10
  <2> QED
    BY <1>6, <2>1, <2>2, Steady
<1>12. Fit(s, k)'
  <2>1. ASSUME NEW l \in Legs, k.record.legs[l].status = "FILLED" PROVE Settled(k.record.legs[l].by, l)'
    <3>1. CASE l = n
      <4>1. k.record.legs[l].by = s /\ state = "filled" /\ n \notin Checked
        BY <1>3, <2>1, <3>1 DEF Noted
      <4>2. Settled(s, n)'
        BY <1>6, <1>7, <4>1 DEF Settled
      <4> QED
        BY <3>1, <4>1, <4>2
    <3>2. CASE l # n
      <4> DEFINE b == k.record.legs[l].by
      <4>1. b \in Senders /\ Settled(b, l)
        BY <1>4, <2>1, <3>2, LegIs DEF TaskStates
      <4> HIDE DEF b
      <4>2. Settled(b, l)'
        BY <1>10, <3>2, <4>1
      <4> QED
        BY <4>2 DEF b
    <3> QED
      BY <3>1, <3>2
  <2>2. Real(k.record.legs)'
    BY <2>1 DEF Real
  <2>3. Own(s, k)'
    BY <1>4, <1>11 DEF Own, Working
  <2> QED
    BY <1>3, <1>4, <1>6, <2>2, <2>3 DEF Fit, Holds, NoLeg, Noted
<1>13. \A u \in Tasks : Fit(u, task[u])'
  <2>1. Fit(s, task[s])'
    BY <1>8, <1>12 DEF Fit, Real, Own, Holds
  <2> QED
    BY <1>8, <1>11, <2>1
<1>14. ASSUME NEW t \in Senders, NEW l \in Legs PROVE Sends(t, l)' /\ Booked(t, l)'
  <2>1. sent[t][l] \in Nat /\ faults \in Nat /\ faults' \in Nat /\ faults' >= faults
    BY <1>5, BoundsAssumption DEF Types
  <2>2. Sends(t, l) /\ Booked(t, l)
    BY DEF Inv
  <2>3. MaySend(task[t], l)' => MaySend(task[t], l) /\ (t # s \/ l # n)
    <3>1. MaySend(task[t], l)' => MaySend(task'[t], l)
      BY <1>6, Constants DEF MaySend
    <3> QED
      BY <1>4, <1>5, <1>8, <3>1
  <2>4. CASE t = s /\ l = n
    <3>1. sent[t][l] <= faults
      BY <1>5, <2>2, <2>4 DEF Sends
    <3>2. sent'[t][l] <= 1 + faults'
      BY <1>7, <2>1, <2>4, <3>1
    <3>3. position[t][l] # 1
      BY <1>5, <2>2, <2>4 DEF Booked, Barred
    <3> QED
      BY <1>6, <2>2, <2>3, <2>4, <3>2, <3>3 DEF Sends, Booked
  <2>5. CASE t # s \/ l # n
    <3>1. sent'[t][l] = sent[t][l]
      BY <1>7, <2>5
    <3>2. Sends(t, l)'
      BY <2>1, <2>2, <2>3, <3>1 DEF Sends
    <3> QED
      BY <1>6, <1>11, <2>2, <3>2 DEF Booked
  <2> QED
    BY <2>4, <2>5
<1>15. Sound(db)' /\ Sound(cache)'
  <2>1. PICK d \in Records, c \in Records : d = db /\ c = cache
    BY <1>5 DEF Types
  <2>2. Sound(d)' /\ Sound(c)' /\ db' = d /\ cache' = c
    BY <1>6, <1>11, <2>1 DEF Inv
  <2> QED
    BY <2>2 DEF Sound, Real, Known, Holds
<1>16. (order.state = "FILLED" => Done)' /\ (cache # NoRecord => db # NoRecord)'
  BY <1>6, <1>11, Constants DEF Inv
<1> QED
  BY <1>9, <1>13, <1>14, <1>15, <1>16 DEF Inv

LEMMA SubmitLegStep ==
  ASSUME Inv, UNCHANGED scene, NEW s \in Senders, SubmitLeg(s)
  PROVE  Inv'
<1>1. task[s].at = "leg" /\ sent' = [sent EXCEPT ![s][Leg(s)] = @ + 1] /\ UNCHANGED <<row, records, quote, books, faults>>
  BY DEF SubmitLeg, At
<1>2. PICK state \in {"open", "filled"} :
        /\ venue' = [venue EXCEPT ![s][Leg(s)] = state]
        /\ Answered(s, IF state = "filled" /\ Leg(s) \notin Checked THEN "FILLED" ELSE "OPEN")
  BY DEF SubmitLeg
<1> DEFINE status == IF state = "filled" /\ Leg(s) \notin Checked THEN "FILLED" ELSE "OPEN"
<1>3. status \in {"OPEN", "FILLED", "FAILED"} /\ (status = "FILLED" => state = "filled" /\ Leg(s) \notin Checked)
      /\ Answered(s, status)
  BY <1>2
<1>4. faults' \in 0..MaxFaults /\ faults' = faults
  BY <1>1 DEF Inv, Types
<1> HIDE DEF status
<1> QED
  BY <1>1, <1>2, <1>3, <1>4, LegIsSent

LEMMA AnswerLostStep ==
  ASSUME Inv, UNCHANGED scene, NEW s \in Senders, AnswerLost(s)
  PROVE  Inv'
<1>1. /\ task[s].at = "leg" /\ sent' = [sent EXCEPT ![s][Leg(s)] = @ + 1] /\ venue' = [venue EXCEPT ![s][Leg(s)] = "open"]
      /\ Answered(s, "FAILED") /\ UNCHANGED <<row, records, quote, books>>
      /\ faults' \in 0..MaxFaults /\ faults' = faults + 1
  BY FaultCounted DEF AnswerLost, At
<1> QED
  BY <1>1, LegIsSent

----------------------------------------------------------------------------
(* A record is merged and stored, and its fills are booked.                *)

LEMMA MergeRecordStep ==
  ASSUME Inv, UNCHANGED scene, NEW s \in Senders, MergeRecord(s)
  PROVE  Inv'
<1> DEFINE there == FindStored.legs
           own == task[s].record.legs
           legs == Merge(there, own)
           k == [task[s] EXCEPT !.at = "store", !.record.legs = legs]
<1>1. task[s].at = "merge" /\ task' = [task EXCEPT ![s] = k] /\ UNCHANGED <<row, records, market, books, faults>>
  BY DEF MergeRecord, At, Become
<1>2. s \in Tasks /\ task[s] \in TaskStates /\ Fit(s, task[s]) /\ task[s].record \in Records
  BY Roles DEF Inv, Types, TaskStates
<1>3. /\ there \in [Legs -> LegRecords] /\ own \in [Legs -> LegRecords] /\ Holds(own)
      /\ Real(there) /\ Known(there) /\ Real(own) /\ Own(s, task[s])
  BY <1>1, <1>2, StoredIs DEF Records, Sound, Fit
<1>4. \A l \in Legs : /\ own[l].by \in Senders => Barred(own[l].by) \/ own[l].by = s
                      /\ there[l].by \in Senders => Barred(there[l].by)
  BY <1>3 DEF Own, Known
<1> HIDE DEF there, own
<1>5. ASSUME NEW l \in Legs
      PROVE  legs[l] \in {there[l], own[l]} /\ (own[l] # NoLeg => legs[l] # NoLeg)
  <2>1. legs[l] = IF Prevails(there[l], own[l]) THEN there[l] ELSE own[l]
    BY DEF Merge
  <2>2. Prevails(there[l], own[l]) /\ own[l] # NoLeg => there[l] # NoLeg
    BY Blank DEF Prevails
  <2> QED
    BY <2>1, <2>2
<1>6. legs \in [Legs -> LegRecords]
  BY <1>3, <1>5 DEF Merge
<1> HIDE DEF legs
<1>7. k \in TaskStates /\ k.at = "store" /\ k.record.legs = legs
  <2>1. task[s].record = [failed |-> task[s].record.failed, legs |-> task[s].record.legs]
        /\ task[s].record.failed \in BOOLEAN
    BY <1>2 DEF Records
  <2>2. [task[s].record EXCEPT !.legs = legs] \in Records /\ [task[s].record EXCEPT !.legs = legs].legs = legs
    BY <1>6, <2>1 DEF Records
  <2> DEFINE r == [task[s].record EXCEPT !.legs = legs]
  <2>3. k = [task[s] EXCEPT !.at = "store", !.record = r]
    BY <1>2 DEF TaskStates
  <2>4. r \in Records /\ r.legs = legs
    BY <2>2
  <2> HIDE DEF r
  <2> QED
    BY <1>2, <2>3, <2>4 DEF TaskStates, Places
<1> HIDE DEF k
<1>8. Fit(s, k)
  <2>1. Real(legs)
    BY <1>3, <1>5 DEF Real
  <2>2. Own(s, k)
    BY <1>4, <1>5, <1>7 DEF Own, Working
  <2>3. Holds(legs)
    BY <1>3, <1>5 DEF Holds
  <2> QED
    BY <1>7, <2>1, <2>2, <2>3 DEF Fit
<1>9. order' \in Rows /\ old' \in BOOLEAN /\ order' = order /\ faults' \in 0..MaxFaults /\ faults' = faults
  BY <1>1 DEF Inv, Types, row
<1>10. task[s].at \in Working /\ \A l \in Legs : ~MaySend(k, l)
  BY <1>1, <1>7 DEF Working, MaySend
<1> QED
  BY <1>1, <1>2, <1>7, <1>8, <1>9, <1>10, TaskMoves

LEMMA SaveExecutionStatusStep ==
  ASSUME Inv, UNCHANGED scene, NEW t \in Tasks, saveExecutionStatus(t)
  PROVE  Inv'
<1>1. PICK r \in Records : r = task[t].record
  BY DEF Inv, Types, TaskStates
<1>2. PICK k \in TaskStates : k = [task[t] EXCEPT !.at = "apply"]
  BY DEF Inv, Types, TaskStates, Places
<1>3. /\ task[t].at = "store" /\ db' = r /\ cache' \in {cache, r} /\ aged' = FALSE /\ task' = [task EXCEPT ![t] = k]
      /\ UNCHANGED <<row, market, books, faults>>
  BY <1>1, <1>2 DEF saveExecutionStatus, At, Goto, Become
<1>4. Types /\ Fit(t, task[t]) /\ task[t] \in TaskStates
  BY DEF Inv, Types
<1>5. k.at = "apply" /\ k.record = r
  BY <1>1, <1>2, <1>4 DEF TaskStates
<1>6. Holds(r.legs) /\ r # NoRecord /\ Real(r.legs)
  BY <1>1, <1>3, <1>4, Blank DEF Fit
<1>7. task' \in [Tasks -> TaskStates] /\ task'[t] = k /\ \A u \in Tasks \ {t} : task'[u] = task[u]
  BY <1>3, <1>4 DEF Types
<1>8. /\ order' = order /\ old' = old /\ venue' = venue /\ sent' = sent /\ quote' = quote
      /\ applied' = applied /\ position' = position /\ faults' = faults /\ scene' = scene
  BY <1>3 DEF row, market, books
<1>9. \A s \in Senders, l \in Legs : Settled(s, l) <=> Settled(s, l)'
  BY <1>8 DEF Settled, Checked
<1>10. db' # NoRecord /\ db' # NoRecord'
  BY <1>3, <1>6, Constants
<1>11. /\ \A s \in Senders : Barred(s) => Barred(s)'
       /\ Done => Done'
       /\ \A q \in Records : Sound(q) => Sound(q)'
       /\ \A u \in Tasks : task'[u] = task[u] => Fit(u, task[u])'
  <2>1. \A s \in Senders : task'[s].at \in Working => task[s].at \in Working
    BY <1>5, <1>7, Roles DEF Working
  <2> QED
    BY <1>8, <1>9, <1>10, <2>1, Steady
<1>12. ASSUME NEW l \in Legs, r.legs[l].by \in Senders PROVE Barred(r.legs[l].by)'
  <2>1. CASE r.legs[l].by = t
    BY <1>5, <1>7, <1>10, <2>1 DEF Barred, Working
  <2>2. CASE r.legs[l].by # t
    <3> DEFINE b == r.legs[l].by
    <3>1. Barred(b) /\ b \in Senders
      BY <1>1, <1>4, <1>12, <2>2 DEF Fit, Own
    <3> HIDE DEF b
    <3>2. Barred(b)'
      BY <1>11, <3>1
    <3> QED
      BY <3>2 DEF b
  <2> QED
    BY <2>1, <2>2
<1>13. ASSUME NEW l \in Legs, r.legs[l].status = "FILLED" PROVE Settled(r.legs[l].by, l)'
  <2> DEFINE b == r.legs[l].by
  <2>1. b \in Senders /\ Settled(b, l)
    BY <1>6, <1>13, LegIs DEF Real
  <2> HIDE DEF b
  <2>2. Settled(b, l)'
    BY <1>9, <2>1
  <2> QED
    BY <2>2 DEF b
<1>14. Real(r.legs)' /\ Known(r.legs)' /\ Holds(r.legs)' /\ Sound(r)'
  <2>1. Real(r.legs)' /\ Known(r.legs)'
    BY <1>12, <1>13 DEF Real, Known
  <2>2. Holds(r.legs)'
    BY <1>6, Constants DEF Holds
  <2> QED
    BY <2>1, <2>2 DEF Sound
<1>15. Types'
  BY <1>1, <1>3, <1>4, <1>7, <1>8 DEF Types
<1>16. \A u \in Tasks : Fit(u, task[u])'
  <2>1. Fit(t, k)'
    <3>1. Own(t, k)'
      BY <1>5, <1>14 DEF Own, Known
    <3> QED
      BY <1>5, <1>14, <3>1 DEF Fit
  <2>2. Fit(t, task[t])'
    BY <1>7, <2>1 DEF Fit, Real, Own, Holds
  <2> QED
    BY <1>7, <1>11, <2>2
<1>17. ASSUME NEW s \in Senders, NEW l \in Legs PROVE Sends(s, l)' /\ Booked(s, l)'
  <2>1. Sends(s, l) /\ Booked(s, l)
    BY DEF Inv
  <2>2. MaySend(task[s], l)' => MaySend(task[s], l)
    <3>1. CASE s = t
      BY <1>5, <1>7, <1>10, <3>1 DEF MaySend
    <3>2. CASE s # t
      <4>1. task'[s] = task[s]
        BY <1>7, <3>2, Roles
      <4> QED
        BY <1>10, <4>1, Constants DEF MaySend
    <3> QED
      BY <3>1, <3>2
  <2> QED
    BY <1>8, <1>9, <1>11, <2>1, <2>2 DEF Sends, Booked
<1>18. Sound(db)' /\ Sound(cache)'
  <2>1. PICK c \in Records : c = cache
    BY <1>4 DEF Types
  <2>2. Sound(c)' /\ Sound(r)' /\ db' = r /\ (cache' = c \/ cache' = r)
    BY <1>3, <1>11, <1>14, <2>1 DEF Inv
  <2> QED
    BY <2>2 DEF Sound, Real, Known, Holds
<1>19. (order.state = "FILLED" => Done)' /\ (cache # NoRecord => db # NoRecord)'
  BY <1>8, <1>10, <1>11 DEF Inv
<1> QED
  BY <1>15, <1>16, <1>17, <1>18, <1>19 DEF Inv

LEMMA RecordFilledPositionsStep ==
  ASSUME Inv, UNCHANGED scene, NEW t \in Tasks, RecordFilledPositions(t)
  PROVE  Inv'
<1>1. PICK r \in Records : r = task[t].record
  BY DEF Inv, Types, TaskStates
<1>2. /\ task[t].at = "apply" /\ recordFilledLegs(r.legs) /\ Finish(t, r)
      /\ UNCHANGED <<row, records, market, faults>>
  BY <1>1 DEF RecordFilledPositions, At
<1>3. Types /\ Real(r.legs) /\ Known(r.legs)
  <2>1. Fit(t, task[t])
    BY DEF Inv
  <2> QED
    BY <1>1, <1>2, <2>1 DEF Inv, Fit, Own, Known, Working
<1>4. PICK k \in TaskStates : /\ task' = [task EXCEPT ![t] = k] /\ k.record = NoRecord
                              /\ k.at \in {"idle", "done", "save"}
                              /\ k.at = "save" => k.to.state \in OrderStates /\ (k.to.state = "FILLED" => Done)
  BY <1>2, <1>3, Finishes
<1> DEFINE Fills(s, l) == r.legs[l] = [by |-> s, status |-> "FILLED"]
<1>5. /\ applied' = [s \in Senders |-> [l \in Legs |-> applied[s][l] \/ Fills(s, l)]]
      /\ position' = [s \in Senders |-> [l \in Legs |->
            IF Fills(s, l) /\ ~applied[s][l] THEN position[s][l] + 1 ELSE position[s][l]]]
  BY <1>2 DEF recordFilledLegs
<1>6. ASSUME NEW s \in Senders, NEW l \in Legs, Fills(s, l) PROVE Barred(s) /\ Settled(s, l)
  <2>1. r.legs[l].by = s /\ r.legs[l].status = "FILLED"
    BY <1>6
  <2> QED
    BY <1>3, <2>1 DEF Real, Known
<1> HIDE DEF Fills
<1>7. /\ order' = order /\ old' = old /\ venue' = venue /\ sent' = sent /\ quote' = quote
      /\ db' = db /\ cache' = cache /\ aged' = aged /\ faults' = faults /\ scene' = scene
  BY <1>2 DEF row, market, records
<1>8. \A s \in Senders, l \in Legs : Settled(s, l) <=> Settled(s, l)'
  BY <1>7 DEF Settled, Checked
<1>9. task' \in [Tasks -> TaskStates] /\ task'[t] = k /\ \A u \in Tasks \ {t} : task'[u] = task[u]
  BY <1>3, <1>4 DEF Types
<1>10. k.at \notin Working /\ task[t].at \notin Working
  BY <1>2, <1>4 DEF Working
<1>11. /\ \A s \in Senders : Barred(s) => Barred(s)'
       /\ Done => Done'
       /\ \A q \in Records : Sound(q) => Sound(q)'
       /\ \A u \in Tasks, j \in TaskStates :
            /\ Fit(u, j)
            /\ \A l \in Legs : u \in Senders /\ j.record.legs[l].by = u /\ j.record.legs[l].status = "FILLED" => Settled(u, l)'
            => Fit(u, j)'
       /\ \A u \in Tasks : task'[u] = task[u] => Fit(u, task[u])'
  <2>1. \A s \in Senders : task'[s].at \in Working => task[s].at \in Working \/ db = NoRecord
    BY <1>9, <1>10, Roles
  <2>2. db # NoRecord => db' # NoRecord
    BY <1>7
  <2>3. \A s \in Senders, l \in Legs :
           Settled(s, l) => Settled(s, l)' \/ (task[s].at = "leg" /\ task[s].record.legs[l] = NoLeg)
    BY <1>8
  <2> QED
    BY <1>7, <2>1, <2>2, <2>3, Steady
<1>12. ASSUME NEW s \in Senders, NEW l \in Legs
       PROVE  Booked(s, l)' /\ position'[s][l] \in {0, 1} /\ applied'[s][l] \in BOOLEAN
  <2>1. Booked(s, l) /\ applied[s][l] \in BOOLEAN /\ position[s][l] \in {0, 1}
    BY <1>3 DEF Inv, Types
  <2>2. applied'[s][l] = (applied[s][l] \/ Fills(s, l))
    BY <1>5, Zenon
  <2>3. position'[s][l] = IF Fills(s, l) /\ ~applied[s][l] THEN position[s][l] + 1 ELSE position[s][l]
    BY <1>5
  <2>4. CASE Fills(s, l) /\ ~applied[s][l]
    <3>1. position[s][l] = 0
      BY <2>1, <2>4 DEF Booked
    <3>2. position'[s][l] = 1
      BY <2>3, <2>4, <3>1
    <3>3. applied'[s][l] = TRUE
      BY <2>2, <2>4, Zenon
    <3>4. Barred(s)' /\ Settled(s, l)'
      BY <1>6, <1>8, <1>11, <2>4
    <3> QED
      BY <3>2, <3>3, <3>4 DEF Booked
  <2>5. CASE ~(Fills(s, l) /\ ~applied[s][l])
    <3>1. position'[s][l] = position[s][l] /\ applied'[s][l] = applied[s][l]
      BY <2>1, <2>2, <2>3, <2>5
    <3> QED
      BY <1>8, <1>11, <2>1, <3>1 DEF Booked
  <2> QED
    BY <2>4, <2>5
<1>13. applied' \in [Senders -> [Legs -> BOOLEAN]] /\ position' \in [Senders -> [Legs -> {0, 1}]]
  <2>1. /\ applied' = [s \in Senders |-> [l \in Legs |-> applied'[s][l]]]
        /\ position' = [s \in Senders |-> [l \in Legs |-> position'[s][l]]]
    BY <1>5
  <2> QED
    BY <1>12, <2>1
<1>14. Types'
  BY <1>3, <1>7, <1>9, <1>13 DEF Types
<1>15. \A u \in Tasks : Fit(u, task[u])'
  <2>1. Fit(t, k)
    BY <1>4, RestingFits
  <2>2. \A l \in Legs : k.record.legs[l].status # "FILLED"
    BY <1>4, Blank
  <2>3. Fit(t, k)'
    BY <1>11, <2>1, <2>2
  <2>4. Fit(t, task[t])'
    BY <1>9, <2>3 DEF Fit, Real, Own, Holds
  <2> QED
    BY <1>9, <1>11, <2>4
<1>16. ASSUME NEW s \in Senders, NEW l \in Legs PROVE Sends(s, l)'
  <2>1. Sends(s, l)
    BY DEF Inv
  <2>2. MaySend(task[s], l)' => MaySend(task[s], l)
    <3>1. CASE s = t
      BY <1>2, <1>4, <1>7, <1>9, <3>1, Constants DEF MaySend, Working
    <3>2. CASE s # t
      <4>1. task'[s] = task[s]
        BY <1>9, <3>2, Roles
      <4> QED
        BY <1>7, <4>1, Constants DEF MaySend
    <3> QED
      BY <3>1, <3>2
  <2> QED
    BY <1>7, <2>1, <2>2 DEF Sends
<1>17. Sound(db)' /\ Sound(cache)'
  <2>1. PICK d \in Records, c \in Records : d = db /\ c = cache
    BY <1>3 DEF Types
  <2>2. Sound(d)' /\ Sound(c)' /\ db' = d /\ cache' = c
    BY <1>7, <1>11, <2>1 DEF Inv
  <2> QED
    BY <2>2 DEF Sound, Real, Known, Holds
<1>18. (order.state = "FILLED" => Done)' /\ (cache # NoRecord => db # NoRecord)'
  BY <1>7, <1>11, Constants DEF Inv
<1> QED
  BY <1>12, <1>14, <1>15, <1>16, <1>17, <1>18 DEF Inv

----------------------------------------------------------------------------
(* The venues, the clocks and the process.                                 *)

LEMMA WorldMoves ==
  ASSUME Inv, UNCHANGED <<scene, order, db, cache, sent, books, task, faults>>,
         venue' \in [Senders -> [Legs -> VenueStates]], old' \in BOOLEAN, quote' \in BOOLEAN, aged' \in BOOLEAN,
         \A s \in Senders, l \in Legs : Settled(s, l) => Settled(s, l)'
  PROVE  Inv'
<1>1. Types /\ Types' /\ applied' = applied /\ position' = position
  BY DEF Inv, Types, books
<1>2. /\ \A s \in Senders : Barred(s) => Barred(s)'
      /\ \A s \in Senders, l \in Legs : Barred(s) /\ Settled(s, l) => Settled(s, l)'
      /\ Done => Done'
      /\ \A r \in Records : Sound(r) => Sound(r)'
      /\ \A u \in Tasks : task'[u] = task[u] => Fit(u, task[u])'
  BY Steady
<1>3. \A u \in Tasks : Fit(u, task[u])'
  BY <1>2
<1>4. ASSUME NEW s \in Senders, NEW l \in Legs PROVE Sends(s, l)' /\ Booked(s, l)'
  <2>1. Sends(s, l) /\ Booked(s, l)
    BY DEF Inv
  <2>2. MaySend(task[s], l)' => MaySend(task[s], l)
    BY Constants DEF MaySend
  <2> QED
    BY <1>1, <1>2, <2>1, <2>2 DEF Sends, Booked
<1>5. Sound(db)' /\ Sound(cache)'
  <2>1. PICK d \in Records, c \in Records : d = db /\ c = cache
    BY <1>1 DEF Types
  <2>2. Sound(d)' /\ Sound(c)' /\ db' = d /\ cache' = c
    BY <1>2, <2>1 DEF Inv
  <2> QED
    BY <2>2 DEF Sound, Real, Known, Holds
<1>6. (order.state = "FILLED" => Done)' /\ (cache # NoRecord => db # NoRecord)'
  BY <1>2, Constants DEF Inv
<1> QED
  BY <1>1, <1>3, <1>4, <1>5, <1>6 DEF Inv

LEMMA VenueMovesStep ==
  ASSUME Inv, UNCHANGED scene, NEW s \in Senders, NEW l \in Legs, VenueMoves(s, l)
  PROVE  Inv'
<1>1. PICK v \in {"filled", "killed", "settled"} :
        /\ venue' = [venue EXCEPT ![s][l] = v]
        /\ venue[s][l] = "open" \/ (venue[s][l] = "filled" /\ l \in Checked /\ v = "settled")
  BY DEF VenueMoves
<1>2. Types /\ UNCHANGED <<order, old, db, cache, aged, sent, quote, books, task, faults>>
  BY DEF VenueMoves, row, records, Inv
<1>3. /\ venue' \in [Senders -> [Legs -> VenueStates]] /\ venue'[s][l] = v
      /\ \A t \in Senders, m \in Legs : t # s \/ m # l => venue'[t][m] = venue[t][m]
  <2>1. venue \in [Senders -> [Legs -> VenueStates]] /\ v \in VenueStates
    BY <1>2 DEF Types, VenueStates
  <2> QED
    BY <1>1, <2>1
<1>4. ASSUME NEW t \in Senders, NEW m \in Legs, Settled(t, m) PROVE Settled(t, m)'
  <2>1. CASE t = s /\ m = l
    BY <1>1, <1>3, <1>4, <2>1 DEF Settled
  <2>2. CASE t # s \/ m # l
    BY <1>3, <1>4, <2>2 DEF Settled, Checked
  <2> QED
    BY <2>1, <2>2
<1> QED
  BY <1>2, <1>3, <1>4, WorldMoves DEF Types

LEMMA TimePasses ==
  ASSUME Inv, UNCHANGED scene, QuoteExpires \/ SubmitAges \/ RecordAges
  PROVE  Inv'
<1>1. Types /\ UNCHANGED <<order, db, cache, venue, sent, books, task, faults>>
      /\ old' \in BOOLEAN /\ quote' \in BOOLEAN /\ aged' \in BOOLEAN
  BY DEF QuoteExpires, SubmitAges, RecordAges, row, records, market, Inv, Types
<1>2. \A s \in Senders, l \in Legs : Settled(s, l) => Settled(s, l)'
  BY <1>1 DEF Settled, Checked
<1> QED
  BY <1>1, <1>2, WorldMoves DEF Types

LEMMA Stutters ==
  ASSUME Inv, UNCHANGED vars
  PROVE  Inv'
<1>1. /\ Types /\ UNCHANGED <<scene, order, db, cache, venue, sent, books, task, faults>>
      /\ old' = old /\ quote' = quote /\ aged' = aged
  BY DEF vars, row, records, market, Inv
<1>2. \A s \in Senders, l \in Legs : Settled(s, l) => Settled(s, l)'
  BY <1>1 DEF Settled, Checked
<1> QED
  BY <1>1, <1>2, WorldMoves DEF Types

LEMMA RestartStep ==
  ASSUME Inv, UNCHANGED scene, Restart
  PROVE  Inv'
<1>1. /\ Types /\ faults' \in 0..MaxFaults /\ faults' = faults + 1 /\ cache' = NoRecord
      /\ task' = [t \in Tasks |-> Idle] /\ UNCHANGED <<row, db, aged, market, books>>
  BY FaultCounted DEF Inv, Restart
<1>2. /\ order' = order /\ old' = old /\ venue' = venue /\ sent' = sent /\ quote' = quote
      /\ applied' = applied /\ position' = position
  BY <1>1 DEF row, market, books
<1>3. Types'
  BY <1>1, <1>2, Blank, IdleIs DEF Types
<1>4. \A s \in Senders, l \in Legs : Settled(s, l) <=> Settled(s, l)'
  BY <1>2 DEF Settled, Checked
<1>5. /\ \A s \in Senders : Barred(s) => Barred(s)'
      /\ Done => Done'
      /\ \A r \in Records : Sound(r) => Sound(r)'
      /\ \A u \in Tasks, k \in TaskStates :
           /\ Fit(u, k)
           /\ \A l \in Legs : u \in Senders /\ k.record.legs[l].by = u /\ k.record.legs[l].status = "FILLED" => Settled(u, l)'
           => Fit(u, k)'
  <2>1. \A s \in Senders : task'[s].at \notin Working
    BY <1>1, IdleIs, Roles DEF Working
  <2> QED
    BY <1>1, <1>4, <2>1, Steady
<1>6. ASSUME NEW u \in Tasks PROVE Fit(u, task[u])'
  <2>1. PICK k \in TaskStates : k = Idle /\ k.at = "idle" /\ k.record = NoRecord
    BY IdleIs
  <2>2. Fit(u, k) /\ task'[u] = k
    BY <1>1, <2>1, RestingFits
  <2>3. Fit(u, k)'
    BY <1>5, <2>1, <2>2, Blank
  <2> QED
    BY <2>2, <2>3 DEF Fit, Real, Own, Holds
<1>7. ASSUME NEW s \in Senders, NEW l \in Legs PROVE Sends(s, l)' /\ Booked(s, l)'
  <2>1. Sends(s, l) /\ Booked(s, l) /\ sent[s][l] \in Nat /\ faults \in Nat
    BY <1>1, BoundsAssumption DEF Inv, Types
  <2>2. Sends(s, l)'
    BY <1>1, <1>2, <2>1 DEF Sends
  <2>3. Booked(s, l)'
    BY <1>2, <1>4, <1>5, <2>1 DEF Booked
  <2> QED
    BY <2>2, <2>3
<1>8. Sound(db)' /\ Sound(cache)'
  <2>1. PICK d \in Records, c \in Records : d = db /\ c = NoRecord
    BY <1>1, Blank DEF Types
  <2>2. Sound(d)' /\ Sound(c)' /\ db' = d /\ cache' = c
    BY <1>1, <1>5, <2>1, BlankFits DEF Inv
  <2> QED
    BY <2>2 DEF Sound, Real, Known, Holds
<1>9. (order.state = "FILLED" => Done)' /\ (cache # NoRecord => db # NoRecord)'
  BY <1>1, <1>2, <1>5, Constants DEF Inv
<1> QED
  BY <1>3, <1>6, <1>7, <1>8, <1>9 DEF Inv

----------------------------------------------------------------------------
(* All steps together.                                                     *)

LEMMA StepInv == Inv /\ [Next]_vars => Inv'
<1> SUFFICES ASSUME Inv, [Next]_vars PROVE Inv'
  OBVIOUS
<1>1. CASE UNCHANGED vars
  BY <1>1, Stutters
<1>2. CASE Next
  <2>1. UNCHANGED scene
    BY <1>2 DEF Next
  <2>2. ASSUME NEW r \in Requests, ReadOrder(r) PROVE Inv'
    BY <2>1, <2>2, ReadOrderStep
  <2>3. ASSUME NEW t \in Tasks, Step(t) PROVE Inv'
    BY <2>1, <2>3, SaveOrderStep, SaveExecutionStatusStep, RecordFilledPositionsStep, PlaceStep,
       StartSubmitStep, NotStartedStep DEF Step
  <2>4. ASSUME NEW d \in Directs, StartDirect(d) PROVE Inv'
    BY <2>1, <2>4, StartDirectStep
  <2>5. ASSUME NEW s \in Senders, SubmitStep(s) \/ PrepareThrows(s) \/ AnswerLost(s) PROVE Inv'
    BY <2>1, <2>5, LoadQuoteStep, SubmitLegStep, LegRefusedStep, MergeRecordStep, PrepareThrowsStep,
       AnswerLostStep DEF SubmitStep
  <2>6. CASE Status \/ RefreshActive
    BY <2>1, <2>6, StatusStep, RefreshActiveStep
  <2>7. ASSUME NEW s \in Senders, NEW l \in Legs, VenueMoves(s, l) PROVE Inv'
    BY <2>1, <2>7, VenueMovesStep
  <2>8. CASE QuoteExpires \/ SubmitAges \/ RecordAges \/ Restart
    BY <2>1, <2>8, TimePasses, RestartStep
  <2> QED
    BY <1>2, <2>2, <2>3, <2>4, <2>5, <2>6, <2>7, <2>8 DEF Next
<1> QED
  BY <1>1, <1>2

\* signed-trade-bundle.ts, execution-order-orchestrator.ts and
\* execution-status-watcher.ts: in every reachable state the records, the tasks,
\* the positions and the row of the order say what the venues have really done.
THEOREM InvHolds == Spec => []Inv
<1>1. Init => Inv
  BY InitInv
<1>2. Inv /\ [Next]_vars => Inv'
  BY StepInv
<1> QED
  BY <1>1, <1>2, PTL DEF Spec

\* signed-trade-bundle.ts:266-269: the record names a sender only once that sender is
\* past its own look for a record, and from then on every look of it finds one; so
\* none of the submissions, however many overlap, sends again what it has recorded.
THEOREM RecordedIsNeverResent == Spec => RecordedIsNotResent
<1>1. Inv /\ [Next]_vars => [\A s \in Senders : sent'[s] # sent[s] => s \notin By(db) \cup By(cache)]_vars
  <2> SUFFICES ASSUME Inv, Next, NEW s \in Senders, sent'[s] # sent[s]
               PROVE  s \notin By(db) \cup By(cache)
    OBVIOUS
  <2>1. PICK t \in Senders : SubmitLeg(t) \/ AnswerLost(t)
    BY DEF Next, ReadOrder, Step, SaveOrder, saveExecutionStatus, RecordFilledPositions, Place, StartSubmit,
           NotStarted, SubmitStep, StartDirect, LoadQuote, LegRefused, MergeRecord, PrepareThrows, Status,
           RefreshActive, VenueMoves, QuoteExpires, SubmitAges, RecordAges, Restart, market
  <2>2. t = s
    <3>1. sent' = [sent EXCEPT ![t][Leg(t)] = @ + 1]
      BY <2>1 DEF SubmitLeg, AnswerLost
    <3> QED
      BY <3>1 DEF Inv, Types
  <2>3. ~Barred(s)
    BY <2>1, <2>2 DEF SubmitLeg, AnswerLost, At, Barred, Working
  <2> QED
    BY <2>3 DEF Inv, Sound, Known, By
<1> QED
  BY <1>1, InvHolds, PTL DEF Spec, RecordedIsNotResent

\* execution-routing.repository.ts:395-534: whoever records a fill, it is in the
\* position once, and it is one the venue has settled.
THEOREM PositionsAreFills == Spec => []PositionIsFill
<1>1. Inv => PositionIsFill
  <2> SUFFICES ASSUME Inv PROVE PositionIsFill
    OBVIOUS
  <2>1. Types /\ MaxFaults \in Nat /\ \A s \in Senders, l \in Legs : Sends(s, l) /\ Booked(s, l)
    BY BoundsAssumption DEF Inv
  <2>2. sent \in [Senders -> [Legs -> 0..(1 + MaxFaults)]]
    <3>1. sent \in [Senders -> [Legs -> Nat]] /\ faults \in 0..MaxFaults
      BY <2>1 DEF Types
    <3>2. \A s \in Senders, l \in Legs : sent[s][l] \in 0..(1 + MaxFaults)
      BY <2>1, <3>1 DEF Sends
    <3> QED
      BY <3>1, <3>2
  <2>3. position \in [Senders -> [Legs -> 0..(1 + MaxFaults)]]
    <3>1. {0, 1} \subseteq 0..(1 + MaxFaults)
      BY <2>1
    <3> QED
      BY <2>1, <3>1 DEF Types
  <2>4. \A t \in Tasks : /\ task[t].at \in Places /\ task[t].record \in Records
                         /\ task[t].to.state \in OrderStates \cup {"-"}
    BY <2>1 DEF Types, TaskStates, Patches
  <2>5. TypeOK
    BY <2>1, <2>2, <2>3, <2>4 DEF Types, TypeOK, VenueStates
  <2>6. ASSUME NEW s \in Senders, NEW l \in Legs
        PROVE  position[s][l] <= 1 /\ (position[s][l] = 1 => Settled(s, l))
    <3>1. position[s][l] \in {0, 1} /\ Booked(s, l)
      BY <2>1 DEF Types
    <3> QED
      BY <3>1 DEF Booked
  <2> QED
    BY <2>5, <2>6 DEF PositionIsFill
<1> QED
  BY <1>1, InvHolds, PTL

\* execution-order-orchestrator.ts:671-693: an order that says FILLED has filled,
\* whichever of the late writes put it there.
THEOREM FilledOrdersAreReal == Spec => []FilledIsReal
<1>1. Inv => FilledIsReal
  BY DEF Inv, Done, FilledIsReal
<1> QED
  BY <1>1, InvHolds, PTL
=============================================================================
