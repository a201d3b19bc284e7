---------------------------- MODULE OrderLocker ----------------------------
(***************************************************************************)
(* src/core/internal-engine/locker.ts: the Redis locks an internal cross   *)
(* takes on the incoming and on the resting order.  Every step of a worker *)
(* is one Redis command, so the commands of several workers, and the time  *)
(* to live of their keys, interleave in every order.                       *)
(*                                                                         *)
(* An order id is a natural number: its place in the order localeCompare   *)
(* sorts ids by.  The owner id (a fresh uuid per acquisition) is the       *)
(* worker while the acquisition lives; the keys of an acquisition that     *)
(* died belong to Orphan, an owner id nobody will ever present again.      *)
(***************************************************************************)
EXTENDS Naturals, Sequences, FiniteSets

CONSTANTS Workers,        \* concurrent callers of acquireDualOrderLocks
          Orders,         \* order ids, numbered in collation order
          MaxRetries,     \* OrderLockerOptions.maxRetries
          TtlMayExpire,   \* TRUE: a key may expire while its owner still works
          Free, Orphan    \* a missing key; a key whose acquisition died

ASSUME OrdersAssumption == Orders \subseteq Nat /\ IsFiniteSet(Orders)
ASSUME RetriesAssumption == MaxRetries \in Nat \ {0}
ASSUME OwnersAssumption == /\ Free \notin Workers
                           /\ Orphan \notin Workers
                           /\ Free # Orphan
ASSUME TtlAssumption == TtlMayExpire \in BOOLEAN

VARIABLES lock,      \* lock[k]: the value of the Redis key lock:order:k
          lpc,       \* where each worker is in the locker
          call       \* the local variables of its acquisition

lockerVars == <<lock, lpc, call>>

\* sortedIds (later the handle's lockIds), how many of them the current try has
\* set, how many of those releaseLocks has visited, the loop counter, and whether
\* it is tryAcquireLocks that called releaseLocks.
NoCall == [ids |-> <<>>, acquired |-> 0, released |-> 0, attempt |-> 0, givingUp |-> FALSE]

LockerInit ==
  /\ lock = [k \in Orders |-> Free]
  /\ lpc = [w \in Workers |-> "idle"]
  /\ call = [w \in Workers |-> NoCall]

\* Mutant: the ids are deduped and not sorted.
DedupeOrderIdsOnly(a, b) == IF a = b THEN <<a>> ELSE <<a, b>>

sortAndDedupeOrderIds(a, b) ==
  IF a = b THEN <<a>> ELSE IF a < b THEN <<a, b>> ELSE <<b, a>>

Goto(w, state) == lpc' = [lpc EXCEPT ![w] = state]

Return(w) ==
  /\ Goto(w, "idle")
  /\ call' = [call EXCEPT ![w] = NoCall]

acquireDualOrderLocks(w, a, b) ==
  /\ lpc[w] = "idle"
  /\ Goto(w, "set")
  /\ call' = [call EXCEPT ![w] = [NoCall EXCEPT !.ids = sortAndDedupeOrderIds(a, b), !.attempt = 1]]
  /\ UNCHANGED lock

\* The key the next SET ... NX of a try names, the next key of a release.
NextKey(w) == call[w].ids[call[w].acquired + 1]
ReleaseKey(w) == call[w].ids[call[w].released + 1]

\* Mutant: SET without NX.
SetKeyWithoutNX(w) ==
  /\ lpc[w] = "set"
  /\ lock' = [lock EXCEPT ![NextKey(w)] = w]
  /\ call' = [call EXCEPT ![w].acquired = @ + 1]
  /\ Goto(w, IF call[w].acquired + 1 = Len(call[w].ids) THEN "held" ELSE "set")

\* SET key owner PX ttl NX answers OK.
SetKey(w) ==
  /\ lpc[w] = "set"
  /\ lock[NextKey(w)] = Free
  /\ lock' = [lock EXCEPT ![NextKey(w)] = w]
  /\ call' = [call EXCEPT ![w].acquired = @ + 1]
  /\ Goto(w, IF call[w].acquired + 1 = Len(call[w].ids) THEN "held" ELSE "set")

\* A try has failed and its keys are given back: back off, or throw OrderLockError.
TryFailed(w) == IF call[w].attempt < MaxRetries THEN "sleep" ELSE "failed"

\* Mutant: a try that fails half-way keeps what it has.
SetRefusedKeepingKeys(w) ==
  /\ lpc[w] = "set"
  /\ lock[NextKey(w)] # Free
  /\ call' = [call EXCEPT ![w].givingUp = TRUE]
  /\ Goto(w, TryFailed(w))
  /\ UNCHANGED lock

\* SET ... NX answers null; releaseLocks returns at once when it gets no key.
SetRefused(w) ==
  /\ lpc[w] = "set"
  /\ lock[NextKey(w)] # Free
  /\ call' = [call EXCEPT ![w].givingUp = TRUE]
  /\ Goto(w, IF call[w].acquired = 0 THEN TryFailed(w) ELSE "get")
  /\ UNCHANGED lock

\* The caller calls releaseLocks(handle), in its finally block.
releaseLocks(w) ==
  /\ lpc[w] = "held"
  /\ Goto(w, "get")
  /\ UNCHANGED <<lock, call>>

\* releaseLocks is done with a key: on to the next one, or out of the loop.
Visited(w) ==
  IF call[w].released + 1 = call[w].acquired /\ ~call[w].givingUp
  THEN Return(w)
  ELSE /\ call' = [call EXCEPT ![w].released = @ + 1]
       /\ Goto(w, IF call[w].released + 1 = call[w].acquired THEN TryFailed(w) ELSE "get")

\* GET key: the owner is compared here, and the DEL is a second command.
GetOwn(w) ==
  /\ lpc[w] = "get"
  /\ lock[ReleaseKey(w)] = w
  /\ Goto(w, "del")
  /\ UNCHANGED <<lock, call>>

GetForeign(w) ==
  /\ lpc[w] = "get"
  /\ lock[ReleaseKey(w)] # w
  /\ Visited(w)
  /\ UNCHANGED lock

DelKey(w) ==
  /\ lpc[w] = "del"
  /\ lock' = [lock EXCEPT ![ReleaseKey(w)] = Free]
  /\ Visited(w)

\* Mutant: the loop counter is not advanced.
WakeUncounted(w) ==
  /\ lpc[w] = "sleep"
  /\ Goto(w, "set")
  /\ call' = [call EXCEPT ![w] = [NoCall EXCEPT !.ids = call[w].ids, !.attempt = call[w].attempt]]
  /\ UNCHANGED lock

\* The backoff of acquireDualOrderLocks is over.
Wake(w) ==
  /\ lpc[w] = "sleep"
  /\ Goto(w, "set")
  /\ call' = [call EXCEPT ![w] = [NoCall EXCEPT !.ids = call[w].ids, !.attempt = call[w].attempt + 1]]
  /\ UNCHANGED lock

\* OrderLockError reaches the caller.
Rejected(w) ==
  /\ lpc[w] = "failed"
  /\ Return(w)
  /\ UNCHANGED lock

\* A Redis command throws, or the process dies: nothing of the locker runs for
\* this acquisition again, and only their time to live removes its keys.
Abandon(w) ==
  /\ lpc[w] # "idle"
  /\ Return(w)
  /\ lock' = [k \in Orders |-> IF lock[k] = w THEN Orphan ELSE lock[k]]

\* PX: the time to live of a key runs out.
Expire(k) ==
  /\ lock[k] # Free
  /\ lock[k] = Orphan \/ TtlMayExpire
  /\ lock' = [lock EXCEPT ![k] = Free]
  /\ UNCHANGED <<lpc, call>>

\* What the locker does by itself between the caller's calls.
LockerStep(w) ==
  \/ SetKey(w)
  \/ SetRefused(w)
  \/ GetOwn(w)
  \/ GetForeign(w)
  \/ DelKey(w)
  \/ Wake(w)

LockerNext ==
  \/ \E w \in Workers :
       \/ \E a, b \in Orders : acquireDualOrderLocks(w, a, b)
       \/ LockerStep(w)
       \/ releaseLocks(w)
       \/ Rejected(w)
       \/ Abandon(w)
  \/ \E k \in Orders : Expire(k)

\* The code awaits every Redis command and the callers release in a finally
\* block, so no call stops half-way by itself; Redis expires what is left over.
LockerFairness ==
  /\ \A w \in Workers : WF_lockerVars(LockerStep(w) \/ releaseLocks(w) \/ Rejected(w))
  /\ \A k \in Orders : WF_lockerVars(lock[k] = Orphan /\ Expire(k))

LockerSpec == LockerInit /\ [][LockerNext]_lockerVars /\ LockerFairness

----------------------------------------------------------------------------
LockerStates == {"idle", "set", "get", "del", "sleep", "held", "failed"}

\* The ids of an acquisition: one order, or two in ascending order.
SortedIds == {s \in Seq(Orders) : Len(s) <= 2 /\ (Len(s) = 2 => s[1] < s[2])}

\* The shape of the locker's state (locker.ts:15-31, 47-51).
LockerTypeOK ==
  /\ lock \in [Orders -> Workers \cup {Free, Orphan}]
  /\ lpc \in [Workers -> LockerStates]
  /\ call \in [Workers -> [ids : SortedIds, acquired : 0..2, released : 0..2,
                          attempt : 0..MaxRetries, givingUp : BOOLEAN]]

\* The keys a worker has set in its current try and not yet visited in a release.
Window(w) == {call[w].ids[i] : i \in (call[w].released + 1)..call[w].acquired}

\* locker.ts:89-101 gives back the keys of a try that failed half-way, and
\* releaseLocks visits every key of a handle: a key whose owner id is still in
\* use is always one its owner is about to release or is working under, so no
\* call returns and leaves a live lock behind.
NoLeakedLocks ==
  \A k \in Orders, w \in Workers :
    lock[k] = w => /\ lpc[w] \in {"set", "held", "get", "del"}
                   /\ k \in Window(w)

\* w is refused a key by v, and v is itself still collecting keys.
Blocks(v, w) ==
  /\ lpc[w] = "set"
  /\ lpc[v] = "set"
  /\ lock[NextKey(w)] = v

\* locker.ts:43-46 "Acquires locks for two orders deterministically to prevent
\* deadlocks. Lock smaller UUID first.": no set of workers refuse each other in
\* a circle, so the retries of contending attempts cannot all be spent on each
\* other's half-acquired pairs.
NoWaitCycle ==
  \A S \in (SUBSET Workers) \ {{}} :
    \E w \in S : \A v \in S : ~Blocks(v, w)

\* Between acquireDualOrderLocks and releaseLocks the handle's orders are locked
\* for this worker and nobody else, as long as no key outlives its ttl in use.
HandleOwnsKeys ==
  ~TtlMayExpire =>
    \A w \in Workers : lpc[w] = "held" => \A i \in 1..Len(call[w].ids) : lock[call[w].ids[i]] = w

\* locker.ts:51-65: the retry loop is bounded, so a call that has begun ends with
\* a handle or with OrderLockError, whatever the other workers do.
AcquireTerminates ==
  \A w \in Workers : lpc[w] = "set" ~> lpc[w] \in {"held", "failed", "idle"}

\* The handles that exist, as LockGrants sees them.
grant == [w \in Workers |->
            IF lpc[w] = "held" \/ (lpc[w] \in {"get", "del"} /\ ~call[w].givingUp)
            THEN Window(w) ELSE {}]

Grants == INSTANCE LockGrants

\* Without expiry in use, an acquisition is one atomic grant of disjoint orders.
ImplementsGrants == Grants!Spec
=============================================================================
