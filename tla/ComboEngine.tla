----------------------------- MODULE ComboEngine -----------------------------
(***************************************************************************)
(* src/core/combo-engine: acceptances of combo RFQs (acceptCombo).  What a *)
(* combo still wants is netted against other combos (2A), then cleared in  *)
(* a round of several combos (2B), and only the rest goes to the venues.   *)
(*                                                                         *)
(* A leg is a signed size under its market and outcome: positive to buy,   *)
(* negative to sell; a combo has at most one leg per key, and the prices   *)
(* of opposite legs cross.  Combos are numbered by id, which is also their *)
(* age.  Redis locks cover combos only: a call that locks a leg also locks *)
(* its combo.  acquireLocks, the algorithm of OrderLocker, is one step     *)
(* here, as LockGrants allows.  Exposure moves by the matched sizes in the *)
(* same transaction and is not a variable of its own.                      *)
(***************************************************************************)
EXTENDS Integers, FiniteSets, FiniteSetsExt, Functions, Relation

CONSTANTS Combos,        \* ids, in the order of their creation
          Keys,          \* market:outcome
          Size,          \* combo -> key -> signed size
          UserOf,        \* combo -> its taker
          Accepts,       \* calls of acceptCombo
          ComboOf,       \* the combo each accepts
          Netting,       \* combos sampled for authoritative netting
          Clearing,      \* combos sampled for authoritative clearing
          Reconciled,    \* combos the reconciliation job gets to see
          LockOutlives,  \* TRUE: the 3 s of a lock outlast its use
          MaxFaults,     \* bound: failed commands and lost answers
          Free,          \* nobody holds the lock
          NotListed      \* no snapshot in the clearing registry

Vectors == [Keys -> Int]
Zero == [k \in Keys |-> 0]

ASSUME CombosAssumption == Combos \subseteq Nat /\ IsFiniteSet(Combos)
ASSUME KeysAssumption == IsFiniteSet(Keys)
ASSUME CallsAssumption == ComboOf \in [Accepts -> Combos] /\ Free \notin Accepts
ASSUME SizeAssumption == Size \in [Combos -> Vectors] /\ \A c \in Combos : Size[c] # Zero
ASSUME SampleAssumption == Netting \cup Clearing \cup Reconciled \subseteq Combos
ASSUME FaultAssumption == MaxFaults \in Nat

VARIABLES state,     \* combo_rfqs.state
          left,      \* combo_legs.remaining_size, signed
          matched,   \* match rows of netting groups and clearing rounds, summed
          attempts,  \* combo_netting_attempts
          rounds,    \* clearing_rounds
          row,       \* the transaction that has each combo FOR UPDATE
          lock,      \* Redis: lock:combo:<id>
          bucket,    \* Redis: clearing:bucket
          snapshot,  \* Redis: clearing:entity:<id>
          external,  \* what the venues filled, signed
          call,      \* where each acceptance is
          faults

tables == <<state, left, matched, attempts, rounds>>
registry == <<bucket, snapshot>>
vars == <<tables, row, lock, registry, external, call, faults>>

Idle == [at |-> "idle", want |-> Zero, group |-> {}, plan |-> <<>>,
         seen |-> Zero, todo |-> {}]

Init ==
  /\ state = [c \in Combos |-> "OPEN"]
  /\ left = Size
  /\ matched = [c \in Combos |-> Zero]
  /\ attempts = {} /\ rounds = {}
  /\ row = [c \in Combos |-> Free]
  /\ lock = [c \in Combos |-> Free]
  /\ bucket = {}
  /\ snapshot = [c \in Combos |-> NotListed]
  /\ external = [c \in Combos |-> Zero]
  /\ call = [a \in Accepts |-> Idle]
  /\ faults = 0

At(a, place) == call[a].at = place
Goto(a, place) == call' = [call EXCEPT ![a].at = place]

\* The next part of the call, which knows only what is left to fill.
Enter(a, place) ==
  call' = [call EXCEPT ![a] = [Idle EXCEPT !.at = place, !.want = call[a].want]]

Fault == faults < MaxFaults /\ faults' = faults + 1

Open == {"OPEN", "PARTIALLY_EXECUTED", "ACCEPTED"}
Abs(n) == IF n < 0 THEN -n ELSE n
Sign(n) == IF n < 0 THEN -1 ELSE IF n > 0 THEN 1 ELSE 0
KeysIn(v) == {k \in Keys : v[k] # 0}
Opposed(v, w) == {k \in Keys : v[k] * w[k] < 0}

----------------------------------------------------------------------------
(* Locks and rows                                                          *)

\* acquireLocks: all of them, or an error after the last try.
LockAll(a, S, place) ==
  \/ /\ \A c \in S : lock[c] = Free
     /\ lock' = [c \in Combos |-> IF c \in S THEN a ELSE lock[c]]
     /\ Goto(a, place)
  \/ /\ \E c \in S : lock[c] # Free
     /\ Goto(a, "failed")
     /\ UNCHANGED lock

\* releaseLocks: only the keys that still have the caller's id.
UnlockAll(a) == lock' = [c \in Combos |-> IF lock[c] = a THEN Free ELSE lock[c]]

\* The row a transaction asks for next.
NextRow(a) ==
  CASE At(a, "netRow")  -> ComboOf[a]
    [] At(a, "peerRow") -> CHOOSE c \in call[a].group : c # ComboOf[a]
    [] OTHER            -> Min(call[a].todo)

Asking(a) ==
  \/ call[a].at \in {"netRow", "peerRow"}
  \/ At(a, "roundRows") /\ call[a].todo # {}

\* Mutant: the connection goes back to the pool inside its transaction.
EndNothing(a) == a \in Accepts /\ UNCHANGED row

EndTransaction(a) == row' = [c \in Combos |-> IF row[c] = a THEN Free ELSE row[c]]

\* Who waits for whose row.
Waits == [p \in Accepts \X Accepts |->
            Asking(p[1]) /\ row[NextRow(p[1])] = p[2] /\ p[1] # p[2]]

\* Postgres ends one transaction of a circle of waits.
Deadlock(a) ==
  /\ Asking(a) /\ row[NextRow(a)] \notin {Free, a}
  /\ TransitiveClosure(Waits, Accepts)[a, a]
  /\ EndTransaction(a)
  /\ Goto(a, IF At(a, "roundRows") THEN "replay" ELSE "netFailed")
  /\ UNCHANGED <<tables, lock, registry, external, faults>>

\* The time to live of a lock passes while it is in use.
Expire(c) ==
  /\ ~LockOutlives /\ lock[c] # Free
  /\ lock' = [lock EXCEPT ![c] = Free]
  /\ UNCHANGED <<tables, row, registry, external, call, faults>>

----------------------------------------------------------------------------
(* acceptCombo up to the netting                                           *)

\* getSession, the state check, the expiry and the reservation of risk.  A
\* missing quote and a refused reservation leave nothing behind either.
Begin(a) ==
  /\ At(a, "idle")
  /\ LET c == ComboOf[a] IN
       \/ Goto(a, "refused")
       \/ state[c] \in {"OPEN", "ACCEPTED"} /\ Goto(a, "expired")
       \/ /\ state[c] \in {"OPEN", "ACCEPTED"}
          /\ call' = [call EXCEPT ![a].want = left[c],
                        ![a].at = IF c \in Netting THEN "candidates" ELSE "netted"]
  /\ UNCHANGED <<tables, row, lock, registry, external, faults>>

----------------------------------------------------------------------------
(* attemptNet                                                              *)

Compatible(i, c) ==
  LET pairs == Opposed(left[i], left[c]) IN
  /\ UserOf[i] # UserOf[c]
  /\ KeysIn(left[c]) \subseteq KeysIn(left[i])
  /\ pairs # {}
  /\ KeysIn(left[c]) = KeysIn(left[i]) => pairs = KeysIn(left[i])

\* The candidate set of the registry: any combos with an opposite leg.  The
\* registry only proposes, so a stale or a missing entry is one of these sets.
FindCandidates(a) ==
  LET c == ComboOf[a] IN
  /\ At(a, "candidates")
  /\ CASE left[c] = Zero        -> Goto(a, "netted")
       [] left[c] # Zero /\ state[c] \notin Open -> Goto(a, "failed")
       [] OTHER ->
            \E S \in SUBSET {d \in Combos \ {c} : Opposed(left[c], Size[d]) # {}} :
              call' = [call EXCEPT ![a].at = "next", ![a].todo = S]
  /\ UNCHANGED <<tables, row, lock, registry, external, faults>>

\* One candidate: skipped unless it is open and compatible as it is read now.
NextCandidate(a) ==
  LET c == ComboOf[a] IN
  /\ At(a, "next")
  /\ IF left[c] = Zero \/ call[a].todo = {}
     THEN call' = [call EXCEPT ![a].at = "netted", ![a].want = left[c]]
     ELSE IF state[c] \notin Open
     THEN Goto(a, "failed")
     ELSE
            \E d \in call[a].todo :
              IF state[d] \in Open /\ Compatible(c, d)
              THEN call' = [call EXCEPT ![a].at = "netLock", ![a].group = {c, d},
                                        ![a].todo = @ \ {d}]
              ELSE call' = [call EXCEPT ![a].todo = @ \ {d}]
  /\ UNCHANGED <<tables, row, lock, registry, external, faults>>

NetLock(a) ==
  /\ At(a, "netLock")
  /\ LockAll(a, call[a].group, "netRow")
  /\ UNCHANGED <<tables, row, registry, external, faults>>

\* Mutant: the combo is read without FOR UPDATE.
SelectIncomingUnlocked(a) ==
  /\ At(a, "netRow")
  /\ call' = [call EXCEPT ![a].at = "peerRow", ![a].seen = left[ComboOf[a]]]
  /\ UNCHANGED <<tables, row, lock, registry, external, faults>>

\* loadComboForUpdate of the incoming combo.
SelectIncoming(a) ==
  LET c == ComboOf[a] IN
  /\ At(a, "netRow") /\ row[c] = Free
  /\ row' = [row EXCEPT ![c] = a]
  /\ call' = [call EXCEPT ![a].at = "peerRow", ![a].seen = left[c]]
  /\ UNCHANGED <<tables, lock, registry, external, faults>>

\* The smallest pair decides how much of every pair is netted.
Nettable(v, w) == Min({Min({Abs(v[k]), Abs(w[k])}) : k \in Opposed(v, w)})

\* Mutant: the attempt is told apart by its two combos alone.
AttemptOfCombos(c, d, pairs, n) == <<c, d, {}, 0>>

\* The hash that makes the attempt unique.
AttemptId(c, d, pairs, n) == <<c, d, pairs, n>>

StillOpen(S) == \A c \in S : state[c] \in Open

Closing(v) == IF v = Zero THEN "EXECUTED" ELSE "PARTIALLY_EXECUTED"

\* The rest of executeNettingTransaction: both combos are read again under
\* their row locks, and matched if they still fit.  A COMMIT may fail, or be
\* done and its answer lost.
NetPair(a) ==
  LET c == ComboOf[a]
      d == CHOOSE e \in call[a].group : e # c
      pairs == Opposed(call[a].seen, left[d])
      n == Nettable(call[a].seen, left[d])
      cut(v) == [k \in Keys |-> IF k \in pairs THEN v[k] - Sign(v[k]) * n ELSE v[k]]
      met(v, e) == [k \in Keys |->
                      IF k \in pairs THEN v[k] + Sign(Size[e][k]) * n ELSE v[k]]
      attempt == AttemptId(c, d, pairs, n)
      new == StillOpen({c, d}) /\ Compatible(c, d) /\ attempt \notin attempts
      apply ==
        /\ left' = [left EXCEPT ![c] = cut(call[a].seen), ![d] = cut(@)]
        /\ matched' = [matched EXCEPT ![c] = met(@, c), ![d] = met(@, d)]
        /\ state' = [state EXCEPT ![c] = Closing(left'[c]), ![d] = Closing(left'[d])]
        /\ attempts' = attempts \cup {attempt}
        /\ UNCHANGED rounds
  IN
  /\ At(a, "peerRow") /\ row[d] = Free
  /\ EndTransaction(a)
  /\ \/ ~new /\ Goto(a, "unlock") /\ UNCHANGED <<tables, faults>>
     \/ new /\ apply /\ Goto(a, "unlock") /\ UNCHANGED faults
     \/ /\ new /\ Fault /\ Goto(a, "netFailed")
        /\ apply \/ UNCHANGED tables
  /\ UNCHANGED <<lock, registry, external>>

\* The registry is refreshed and the locks are given back.
NetUnlock(a) ==
  /\ call[a].at \in {"unlock", "netFailed"}
  /\ UnlockAll(a)
  /\ call' = [call EXCEPT ![a].at = IF At(a, "unlock") THEN "next" ELSE "failed",
                          ![a].group = {}, ![a].seen = Zero]
  /\ UNCHANGED <<tables, row, registry, external, faults>>

\* Mutant: one finished leg counts as the whole combo.
NettedAnyLeg(a) ==
  /\ At(a, "netted")
  /\ Enter(a, IF \E k \in Keys : call[a].want[k] = 0 THEN "filled"
              ELSE IF ComboOf[a] \in Clearing THEN "register" ELSE "route")
  /\ UNCHANGED <<tables, row, lock, registry, external, faults>>

\* What the netting left decides: nothing is done, something is cleared or routed.
Netted(a) ==
  /\ At(a, "netted")
  /\ Enter(a, IF call[a].want = Zero THEN "filled"
              ELSE IF ComboOf[a] \in Clearing THEN "register" ELSE "route")
  /\ UNCHANGED <<tables, row, lock, registry, external, faults>>

----------------------------------------------------------------------------
(* Rounds: what the planner chooses and what the executor makes of it      *)

Total(S, vec, k) == SumFunctionOnSet([c \in S |-> vec[c][k]], S)
KeysOf(S, vec) == UNION {KeysIn(vec[c]) : c \in S}
ResidualOf(S, vec) == [k \in Keys |-> Total(S, vec, k)]
AbsOf(v) == MapThenSumSet(LAMBDA k : Abs(v[k]), Keys)

\* Candidate groups: up to four combos held together by opposite legs, of at
\* most six legs, in which no taker faces itself.
IsGroup(S, vec) ==
  /\ Cardinality(S) \in 2..4
  /\ Cardinality(KeysOf(S, vec)) <= 6
  /\ \A P \in SUBSET S \ {{}, S} :
       \E c \in P, d \in S \ P : Opposed(vec[c], vec[d]) # {}
  /\ \A c, d \in S : UserOf[c] = UserOf[d] => Opposed(vec[c], vec[d]) = {}

Surplus(n) == IF n > 2 THEN n - 2 ELSE 0

\* finalScore of the scorer: what the group compresses, less its penalties.
Score(S, vec) ==
  MapThenSumSet(LAMBDA c : AbsOf(vec[c]), S) - AbsOf(ResidualOf(S, vec))
    - Surplus(Cardinality(S)) - Surplus(Cardinality(KeysOf(S, vec)))
    - Cardinality(KeysIn(ResidualOf(S, vec)))

\* The groups that may come first; which of equals does is left open.
BestGroups(S, vec) ==
  LET groups == {G \in SUBSET S : IsGroup(G, vec)} IN
  {G \in groups : \A H \in groups :
     \/ Score(H, vec) < Score(G, vec)
     \/ /\ Score(H, vec) = Score(G, vec)
        /\ AbsOf(ResidualOf(G, vec)) <= AbsOf(ResidualOf(H, vec))}

\* participant_set_hash and match_signature_hash.
Signature(S, vec) ==
  [group |-> S, keys |-> KeysOf(S, vec), residual |-> ResidualOf(S, vec),
   score |-> Score(S, vec)]

\* Mutant: every participant may keep up to the whole residual.
KeptOfAll(S, vec, c, k) ==
  LET rest == Total(S, vec, k) IN
  IF vec[c][k] * rest <= 0 THEN 0
  ELSE Sign(rest) * Min({Abs(vec[c][k]), Abs(rest)})

\* allocateParticipantResiduals: the oldest keep what the group has left over.
Kept(S, vec, c, k) ==
  LET rest  == Total(S, vec, k)
      older == {d \in S : d < c /\ vec[d][k] * rest > 0}
      free  == Abs(rest) - Min({Abs(rest), Abs(Total(older, vec, k))})
  IN IF vec[c][k] * rest <= 0 THEN 0 ELSE Sign(rest) * Min({Abs(vec[c][k]), free})

----------------------------------------------------------------------------
(* runAuthoritativeInternalClearing                                        *)

Listed(c) == snapshot[c] # NotListed

\* registerEntity of the accepting combo, with the residual it knows.
Register(a) ==
  LET c == ComboOf[a] IN
  /\ At(a, "register")
  /\ snapshot' = [snapshot EXCEPT ![c] = call[a].want]
  /\ bucket' = bucket \cup {c}
  /\ Goto(a, "list")
  /\ UNCHANGED <<tables, row, lock, external, faults>>

\* listBucketEntities
ListBucket(a) ==
  /\ At(a, "list")
  /\ call' = [call EXCEPT ![a].at = IF bucket = {} THEN "withdraw" ELSE "plan",
                          ![a].todo = bucket]
  /\ UNCHANGED <<tables, row, lock, registry, external, faults>>

\* getEntitySnapshot of every member, and the choice of a group.  A member
\* without a snapshot is an error of the whole acceptance.
PlanRound(a) ==
  LET page == call[a].todo
      best == BestGroups(page, snapshot)
  IN
  /\ At(a, "plan")
  /\ IF \E c \in page : ~Listed(c) THEN Goto(a, "failed")
     ELSE IF best = {} THEN Goto(a, "withdraw")
     ELSE \E G \in best :
            call' = [call EXCEPT ![a].at = IF ComboOf[a] \in G THEN "roundLock" ELSE "withdraw",
                                 ![a].group = G, ![a].plan = Signature(G, snapshot),
                                 ![a].todo = G]
  /\ UNCHANGED <<tables, row, lock, registry, external, faults>>

\* unregisterEntity of a combo that goes on to the venues.
Withdraw(a) ==
  /\ At(a, "withdraw")
  /\ bucket' = bucket \ {ComboOf[a]}
  /\ snapshot' = [snapshot EXCEPT ![ComboOf[a]] = NotListed]
  /\ Enter(a, "route")
  /\ UNCHANGED <<tables, row, lock, external, faults>>

RoundLock(a) ==
  /\ At(a, "roundLock")
  /\ LockAll(a, call[a].group, "roundRows")
  /\ UNCHANGED <<tables, row, registry, external, faults>>

\* loadParticipantsWithClient: the rows are locked in the order of their ids.
RoundRow(a) ==
  LET c == Min(call[a].todo) IN
  /\ At(a, "roundRows") /\ call[a].todo # {}
  /\ row[c] = Free
  /\ row' = [row EXCEPT ![c] = a]
  /\ call' = [call EXCEPT ![a].todo = @ \ {c}]
  /\ UNCHANGED <<tables, lock, registry, external, faults>>

\* revalidateRoundPlan on the locked rows.
StillBest(S, plan) ==
  /\ \A c \in S : left[c] # Zero
  /\ S \in BestGroups(S, left)
  /\ KeysOf(S, left) = plan.keys
  /\ ResidualOf(S, left) = plan.residual

\* executeTransaction once every row is locked.  The participants are read
\* without locks before, with the same check: it refuses nothing more.
ApplyRound(a) ==
  LET S == call[a].group
      round == Signature(S, left)
      fits == StillOpen(S) /\ StillBest(S, call[a].plan) /\ round.score = call[a].plan.score
      kept == [c \in S |-> [k \in Keys |-> Kept(S, left, c, k)]]
      apply ==
        /\ left' = [c \in Combos |-> IF c \in S THEN kept[c] ELSE left[c]]
        /\ matched' = [c \in Combos |->
             IF c \in S THEN [k \in Keys |-> matched[c][k] + left[c][k] - kept[c][k]]
             ELSE matched[c]]
        /\ state' = [c \in Combos |-> IF c \in S THEN Closing(kept[c]) ELSE state[c]]
        /\ rounds' = rounds \cup {round}
        /\ UNCHANGED attempts
      refresh == call' = [call EXCEPT ![a].at = "refresh", ![a].todo = S]
  IN
  /\ At(a, "roundRows") /\ call[a].todo = {}
  /\ EndTransaction(a)
  /\ \/ ~fits /\ Goto(a, "replay") /\ UNCHANGED <<tables, faults>>
     \/ fits /\ round \in rounds /\ refresh /\ UNCHANGED <<tables, faults>>
     \/ fits /\ round \notin rounds /\ apply /\ refresh /\ UNCHANGED faults
     \/ /\ fits /\ round \notin rounds /\ Fault /\ Goto(a, "replay")
        /\ apply \/ UNCHANGED tables
  /\ UNCHANGED <<lock, registry, external>>

\* tryResolveReplayFromExistingRound: an error is no error if the round of
\* this plan is in the table, whoever wrote it.
Replay(a) ==
  /\ At(a, "replay")
  /\ UnlockAll(a)
  /\ Enter(a, IF call[a].plan \in rounds THEN "cleared" ELSE "failed")
  /\ UNCHANGED <<tables, row, registry, external, faults>>

Oldest(a) == Min(call[a].todo)

\* refreshRegistryFromAuthoritativeState, one participant at a time: taken
\* out, ...
RefreshOut(a) ==
  /\ At(a, "refresh") /\ call[a].todo # {}
  /\ bucket' = bucket \ {Oldest(a)}
  /\ snapshot' = [snapshot EXCEPT ![Oldest(a)] = NotListed]
  /\ Goto(a, "refreshIn")
  /\ UNCHANGED <<tables, row, lock, external, faults>>

\* ... and put back as it is now, if it can still be cleared.  An error of
\* Redis is logged and the next participant follows.
RefreshIn(a) ==
  LET c == Oldest(a) IN
  /\ At(a, "refreshIn")
  /\ call' = [call EXCEPT ![a].at = "refresh", ![a].todo = @ \ {c}]
  /\ \/ /\ state[c] \in Open /\ left[c] # Zero
        /\ bucket' = bucket \cup {c}
        /\ snapshot' = [snapshot EXCEPT ![c] = left[c]]
        /\ UNCHANGED faults
     \/ /\ state[c] \notin Open \/ left[c] = Zero
        /\ UNCHANGED <<registry, faults>>
     \/ Fault /\ UNCHANGED registry
  /\ UNCHANGED <<tables, row, lock, external>>

RoundUnlock(a) ==
  /\ At(a, "refresh") /\ call[a].todo = {}
  /\ UnlockAll(a)
  /\ Enter(a, "cleared")
  /\ UNCHANGED <<tables, row, registry, external, faults>>

\* The session is read again: nothing left, or a residual to route.
Cleared(a) ==
  LET c == ComboOf[a] IN
  /\ At(a, "cleared")
  /\ call' = [call EXCEPT ![a].want = left[c],
                          ![a].at = IF left[c] = Zero THEN "filled" ELSE "withdraw"]
  /\ UNCHANGED <<tables, row, lock, registry, external, faults>>

----------------------------------------------------------------------------
(* The end of acceptCombo                                                  *)

\* updateSessionState: one UPDATE that asks for no earlier state.
WriteState(a, value) ==
  /\ row[ComboOf[a]] = Free
  /\ state' = [state EXCEPT ![ComboOf[a]] = value]
  /\ UNCHANGED <<left, matched, attempts, rounds>>

\* The last write of a call and what it reports.
Conclude(a, place, value, result) ==
  /\ At(a, place)
  /\ WriteState(a, value)
  /\ IF result = "venues" THEN Goto(a, result)
     ELSE call' = [call EXCEPT ![a] = [Idle EXCEPT !.at = result]]
  /\ UNCHANGED <<row, lock, registry, external, faults>>

Route(a) == Conclude(a, "route", "ACCEPTED", "venues")

\* executePlan of the residual: the venues fill it or not, and an answer that
\* comes after its timeout counts as a rejection.
Venues(a) ==
  LET c == ComboOf[a] IN
  /\ At(a, "venues")
  /\ \E filled, told \in BOOLEAN :
       /\ told => filled
       /\ external' = IF filled
                      THEN [external EXCEPT ![c] = [k \in Keys |-> @[k] + call[a].want[k]]]
                      ELSE external
       /\ Goto(a, IF told THEN "completed" ELSE "rejected")
  /\ UNCHANGED <<tables, row, lock, registry, faults>>

End(a) ==
  \/ Conclude(a, "expired", "EXPIRED", "refused")
  \/ Conclude(a, "filled", "EXECUTED", "internal")
  \/ Conclude(a, "completed", "EXECUTED", "external")
  \/ Conclude(a, "rejected", "FAILED", "lost")
  \/ Conclude(a, "failed", "FAILED", "threw")

Ended(a) == call[a].at \in {"refused", "internal", "external", "lost", "threw"}

\* reconciliation-v2, clearing_phase2b: a combo with a residual and without a
\* snapshot is registered, whatever its state.
Reconcile(c) ==
  /\ c \in Reconciled /\ ~Listed(c) /\ left[c] # Zero
  /\ snapshot' = [snapshot EXCEPT ![c] = left[c]]
  /\ bucket' = bucket \cup {c}
  /\ UNCHANGED <<tables, row, lock, external, call, faults>>

----------------------------------------------------------------------------
Accept(a) ==
  \/ Begin(a) \/ FindCandidates(a) \/ NextCandidate(a) \/ NetLock(a)
  \/ SelectIncoming(a) \/ NetPair(a) \/ NetUnlock(a) \/ Netted(a)
  \/ Register(a) \/ ListBucket(a) \/ PlanRound(a) \/ Withdraw(a)
  \/ RoundLock(a) \/ RoundRow(a) \/ ApplyRound(a) \/ Replay(a)
  \/ RefreshOut(a) \/ RefreshIn(a) \/ RoundUnlock(a) \/ Cleared(a)
  \/ Route(a) \/ Venues(a) \/ End(a) \/ Deadlock(a)

Next ==
  \/ \E a \in Accepts : Accept(a)
  \/ \E c \in Combos : Expire(c) \/ Reconcile(c)

\* Every call runs on; nothing makes a lock expire or the job run.
Fairness == \A a \in Accepts : WF_vars(Accept(a))

Spec == Init /\ [][Next]_vars /\ Fairness

----------------------------------------------------------------------------
States == {"OPEN", "PARTIALLY_EXECUTED", "EXECUTED", "ACCEPTED", "FAILED", "EXPIRED"}

\* The shape of the tables and of Redis; and what is left of a leg stays on its
\* side: neither a netting (updateLegRemaining) nor a round takes more than there was.
TypeOK ==
  /\ state \in [Combos -> States]
  /\ left \in [Combos -> Vectors] /\ matched \in [Combos -> Vectors]
  /\ \A c \in Combos, k \in Keys :
       left[c][k] * Size[c][k] >= 0 /\ Abs(left[c][k]) <= Abs(Size[c][k])
  /\ row \in [Combos -> Accepts \cup {Free}]
  /\ lock \in [Combos -> Accepts \cup {Free}]
  /\ bucket \subseteq Combos
  /\ faults \in 0..MaxFaults

\* remaining_size and the match rows tell the same story, although a netting
\* writes the size it computed from what it read (updateLegRemaining) and a round
\* subtracts (insertRoundLegMatchesAndUpdateLegs).
BooksAgree ==
  /\ TypeOK
  /\ \A c \in Combos, k \in Keys : left[c][k] + matched[c][k] = Size[c][k]

\* What is bought internally of an outcome is sold internally: netting pairs, and
\* rounds that leave residuals (allocateParticipantResiduals), match both sides.
MatchesBalance == \A k \in Keys : Total(Combos, matched, k) = 0

\* buildAttemptSnapshot and loadExistingRoundId: an id in the table of attempts or
\* rounds is only met again by a repetition, never by a match still to be made.
NoFalseReplay ==
  /\ \A c, d \in Combos :
       LET pairs == Opposed(left[c], left[d]) IN
       pairs # {} =>
         AttemptId(c, d, pairs, Nettable(left[c], left[d])) \notin attempts
  /\ \A r \in rounds : \A c, d \in r.group : Opposed(left[c], left[d]) = {}

\* combo-engine.ts:353-448: an acceptance that reports an internal fill has left
\* nothing of its combo, also when its round was told by replay or a COMMIT was lost.
InternalMeansFilled ==
  \A a \in Accepts : At(a, "internal") => left[ComboOf[a]] = Zero

\* acceptCombo ends, whatever locks and rows it finds taken, and although a netting
\* locks its two rows in no order (multi-leg-internal-netting-engine.ts:437-440).
AcceptancesEnd == \A a \in Accepts : <>Ended(a)
=============================================================================
