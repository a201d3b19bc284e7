------------------------- MODULE InternalCrossProofs -------------------------
(***************************************************************************)
(* Proofs about InternalCross and the locker its attempts go through.      *)
(*                                                                         *)
(* First OrderLocker, for any number of workers, any finite set of orders  *)
(* and any number of retries.  Then the crossing itself, for any orders,   *)
(* any number of concurrent attempts, any batch size, and whether or not   *)
(* locks and book keys expire and the book is rebuilt.  What is proved of  *)
(* the ledger uses no lock: it rests on the locked rows and the unique     *)
(* constraint alone.  Last Funding, the intents that bring the money to    *)
(* the venues, for any routes, faults and speed of the requests.           *)
(***************************************************************************)
EXTENDS InternalCross, Funding, Sums, FiniteSetTheorems, WellFoundedInduction, TLAPS

----------------------------------------------------------------------------
(* The locker: the inductive invariant.                                    *)

\* What the local variables of an acquisition say at each point of the code.
CallOK(w) ==
  LET c == call[w] IN
  /\ lpc[w] = "idle" => c = NoCall
  /\ lpc[w] # "idle" => c.attempt >= 1 /\ Len(c.ids) > 0
  /\ lpc[w] = "set" => c.acquired < Len(c.ids) /\ c.released = 0 /\ ~c.givingUp
  /\ lpc[w] = "held" => c.acquired = Len(c.ids) /\ c.released = 0 /\ ~c.givingUp
  /\ lpc[w] \in {"get", "del"} => c.released < c.acquired /\ c.acquired <= Len(c.ids)
  /\ lpc[w] \in {"get", "del"} /\ ~c.givingUp => c.acquired = Len(c.ids)
  /\ lpc[w] = "sleep" => c.attempt < MaxRetries

IInv == LockerTypeOK /\ (\A w \in Workers : CallOK(w)) /\ NoLeakedLocks

\* The invariant holds before any acquisition.
LEMMA InitIInv == LockerInit => IInv
<1> SUFFICES ASSUME LockerInit PROVE IInv
  OBVIOUS
<1>1. NoCall.ids \in SortedIds
  BY DEF NoCall, SortedIds
<1>2. LockerTypeOK
  BY <1>1, RetriesAssumption DEF LockerInit, LockerTypeOK, LockerStates, NoCall
<1>3. \A w \in Workers : CallOK(w)
  BY DEF LockerInit, CallOK
<1>4. NoLeakedLocks
  BY OwnersAssumption DEF LockerInit, NoLeakedLocks
<1> QED
  BY <1>2, <1>3, <1>4 DEF IInv

\* sortAndDedupeOrderIds returns one or two ids, in ascending order.
LEMMA SortedIdsLemma ==
  ASSUME NEW a \in Orders, NEW b \in Orders
  PROVE  sortAndDedupeOrderIds(a, b) \in SortedIds /\ Len(sortAndDedupeOrderIds(a, b)) > 0
  BY OrdersAssumption DEF sortAndDedupeOrderIds, SortedIds

Calls == [ids : SortedIds, acquired : 0..2, released : 0..2,
          attempt : 0..MaxRetries, givingUp : BOOLEAN]

\* The ids of an acquisition: orders, at most two, ascending.
LEMMA SortedIdsShape ==
  ASSUME NEW s \in SortedIds
  PROVE  /\ s \in Seq(Orders)
         /\ Len(s) \in 0..2
         /\ \A i \in 1..Len(s) : s[i] \in Orders
         /\ \A i, j \in 1..Len(s) : i < j => s[i] < s[j]
<1>1. s \in Seq(Orders) /\ Len(s) <= 2 /\ (Len(s) = 2 => s[1] < s[2])
  BY DEF SortedIds
<1>2. Len(s) \in Nat /\ Len(s) <= 2
  BY <1>1
<1>3. Len(s) \in 0..2
  <2>1. \A n \in Nat : n <= 2 => n \in 0..2
    OBVIOUS
  <2> QED
    BY <1>2, <2>1
<1>4. \A i \in 1..Len(s) : s[i] \in Orders
  BY <1>1
<1>5. \A i, j \in 1..Len(s) : i < j => s[i] < s[j]
  <2> SUFFICES ASSUME NEW i \in 1..Len(s), NEW j \in 1..Len(s), i < j PROVE s[i] < s[j]
    OBVIOUS
  <2>1. Len(s) = 2 /\ i = 1 /\ j = 2
    BY <1>3
  <2> QED
    BY <1>1, <2>1
<1> QED
  BY <1>1, <1>3, <1>4, <1>5

\* What is known of a worker that is in the locker.
LEMMA InLocker ==
  ASSUME IInv, NEW w \in Workers, lpc[w] # "idle"
  PROVE  /\ call[w] \in Calls
         /\ call[w].attempt >= 1
         /\ call[w].ids \in SortedIds
         /\ call[w].ids \in Seq(Orders)
         /\ Len(call[w].ids) \in 1..2
         /\ call[w].acquired \in 0..2
         /\ call[w].released \in 0..2
<1>1. call[w] \in Calls /\ Len(call[w].ids) > 0 /\ call[w].attempt >= 1
  BY DEF IInv, LockerTypeOK, Calls, CallOK
<1>2. call[w].ids \in SortedIds /\ call[w].acquired \in 0..2 /\ call[w].released \in 0..2
  BY <1>1 DEF Calls
<1>3. call[w].ids \in Seq(Orders) /\ Len(call[w].ids) \in 0..2
  BY <1>2, SortedIdsShape
<1> QED
  BY <1>1, <1>2, <1>3

\* One more key set, or visited: a call's counters stay within the two keys.
LEMMA OneMore ==
  ASSUME NEW c \in Calls, NEW n \in 1..2
  PROVE  /\ c.acquired < n => /\ [c EXCEPT !.acquired = @ + 1] \in Calls
                              /\ [c EXCEPT !.acquired = @ + 1].acquired = c.acquired + 1
         /\ c.released < n => /\ [c EXCEPT !.released = @ + 1] \in Calls
                              /\ [c EXCEPT !.released = @ + 1].released = c.released + 1
  BY DEF Calls

\* A step of one worker leaves the others as they are, and takes no lock but for
\* the worker itself, that it keeps in its window.
LEMMA FrameIInv ==
  ASSUME IInv, NEW w \in Workers, NEW s \in LockerStates, NEW c \in Calls,
         lpc' = [lpc EXCEPT ![w] = s],
         call' = [call EXCEPT ![w] = c],
         CallOK(w)',
         lock' \in [Orders -> Workers \cup {Free, Orphan}],
         \A k \in Orders : lock'[k] \in Workers \ {w} => lock'[k] = lock[k],
         \A k \in Orders : lock'[k] = w => s \in {"set", "held", "get", "del"} /\ k \in Window(w)'
  PROVE  IInv'
<1>1. LockerTypeOK'
  BY DEF IInv, LockerTypeOK, Calls
<1>2. \A v \in Workers \ {w} : lpc'[v] = lpc[v] /\ call'[v] = call[v]
  BY DEF IInv, LockerTypeOK
<1>3. \A v \in Workers : CallOK(v)'
  <2> SUFFICES ASSUME NEW v \in Workers \ {w} PROVE CallOK(v)'
    OBVIOUS
  <2>1. CallOK(v)
    BY DEF IInv
  <2> QED
    BY <1>2, <2>1 DEF CallOK
<1>4. NoLeakedLocks'
  <2> SUFFICES ASSUME NEW k \in Orders, NEW v \in Workers, lock'[k] = v
               PROVE  lpc'[v] \in {"set", "held", "get", "del"} /\ k \in Window(v)'
    BY DEF NoLeakedLocks
  <2>1. CASE v = w
    BY <2>1 DEF IInv, LockerTypeOK
  <2>2. CASE v # w
    <3>1. lock[k] = v
      BY <2>2
    <3>2. lpc[v] \in {"set", "held", "get", "del"} /\ k \in Window(v)
      BY <3>1 DEF IInv, NoLeakedLocks
    <3> QED
      BY <1>2, <2>2, <3>2 DEF Window
  <2> QED
    BY <2>1, <2>2
<1> QED
  BY <1>1, <1>3, <1>4 DEF IInv

\* Outside the locker, while backing off and on the way to OrderLockError a
\* worker holds nothing.
LEMMA NothingHeld ==
  ASSUME IInv, NEW w \in Workers, lpc[w] \in {"idle", "sleep", "failed"}
  PROVE  \A k \in Orders : lock[k] # w
  BY DEF IInv, NoLeakedLocks

\* A call of acquireDualOrderLocks starts with no key (locker.ts:47-51).
LEMMA AcquireIInv ==
  ASSUME IInv, NEW w \in Workers, NEW a \in Orders, NEW b \in Orders,
         acquireDualOrderLocks(w, a, b)
  PROVE  IInv'
<1> DEFINE c == [NoCall EXCEPT !.ids = sortAndDedupeOrderIds(a, b), !.attempt = 1]
<1>1. c \in Calls /\ c.attempt = 1 /\ c.acquired = 0 /\ c.released = 0 /\ ~c.givingUp
      /\ c.ids = sortAndDedupeOrderIds(a, b)
  <2>1. sortAndDedupeOrderIds(a, b) \in SortedIds
    BY SortedIdsLemma
  <2>2. 1 \in 0..MaxRetries /\ 0 \in 0..2
    BY RetriesAssumption
  <2> QED
    BY <2>1, <2>2 DEF NoCall, Calls
<1>2. lpc' = [lpc EXCEPT ![w] = "set"] /\ call' = [call EXCEPT ![w] = c] /\ lock' = lock
  BY DEF acquireDualOrderLocks, Goto
<1>3. CallOK(w)'
  <2>1. lpc'[w] = "set" /\ call'[w] = c
    BY <1>2 DEF IInv, LockerTypeOK
  <2>2. Len(c.ids) > 0
    BY <1>1, SortedIdsLemma
  <2> HIDE DEF c
  <2> QED
    BY <1>1, <2>1, <2>2 DEF CallOK
<1>4. \A k \in Orders : lock[k] # w
  BY NothingHeld DEF acquireDualOrderLocks
<1> QED
  BY <1>1, <1>2, <1>3, <1>4, FrameIInv DEF IInv, LockerTypeOK, LockerStates

\* The key SET NX obtains is the next of the window (locker.ts:89-92).
LEMMA SetKeyIInv ==
  ASSUME IInv, NEW w \in Workers, SetKey(w)
  PROVE  IInv'
<1> DEFINE c == [call[w] EXCEPT !.acquired = @ + 1]
           s == IF call[w].acquired + 1 = Len(call[w].ids) THEN "held" ELSE "set"
<1>1. /\ call[w] \in Calls /\ lpc[w] = "set" /\ call[w].attempt >= 1 /\ Len(call[w].ids) > 0
      /\ call[w].acquired < Len(call[w].ids) /\ call[w].released = 0 /\ ~call[w].givingUp
  BY DEF IInv, LockerTypeOK, Calls, CallOK, SetKey
<1>2. /\ call[w].ids \in Seq(Orders) /\ Len(call[w].ids) \in 1..2 /\ call[w].acquired \in 0..2
  BY <1>1, InLocker
<1>3. c \in Calls
  BY <1>1, <1>2, OneMore
<1>4. lpc' = [lpc EXCEPT ![w] = s] /\ call' = [call EXCEPT ![w] = c]
  BY DEF SetKey, Goto, IInv, LockerTypeOK
<1>5. lpc'[w] = s /\ call'[w] = c
  BY <1>4 DEF IInv, LockerTypeOK
<1>6. CallOK(w)'
  BY <1>1, <1>2, <1>5 DEF CallOK
<1>7. NextKey(w) \in Orders /\ NextKey(w) = call[w].ids[call[w].acquired + 1]
  BY <1>1, <1>2 DEF NextKey
<1>8. lock' = [lock EXCEPT ![NextKey(w)] = w]
  BY DEF SetKey
<1>9. Window(w)' = Window(w) \cup {NextKey(w)}
  BY <1>1, <1>2, <1>5, <1>7 DEF Window
<1>10. \A k \in Orders : lock'[k] = w => k \in Window(w)'
  BY <1>7, <1>8, <1>9 DEF IInv, NoLeakedLocks, LockerTypeOK
<1> QED
  BY <1>3, <1>4, <1>6, <1>7, <1>8, <1>10, FrameIInv DEF IInv, LockerTypeOK, LockerStates

\* After a failed try: backing off with a try left, or OrderLockError.
LEMMA TryFailedPlace ==
  ASSUME IInv, NEW w \in Workers, lpc[w] # "idle"
  PROVE  /\ TryFailed(w) \in {"sleep", "failed"}
         /\ TryFailed(w) = "sleep" => call[w].attempt < MaxRetries
  BY DEF TryFailed

\* A refused SET turns to the release of the keys of this try (locker.ts:93-98).
LEMMA SetRefusedIInv ==
  ASSUME IInv, NEW w \in Workers, SetRefused(w)
  PROVE  IInv'
<1> DEFINE c == [call[w] EXCEPT !.givingUp = TRUE]
           s == IF call[w].acquired = 0 THEN TryFailed(w) ELSE "get"
<1>1. /\ lpc[w] = "set" /\ call[w] \in Calls /\ call[w].attempt >= 1 /\ Len(call[w].ids) \in 1..2
      /\ call[w].acquired \in 0..2
      /\ call[w].acquired < Len(call[w].ids) /\ call[w].released = 0
  BY InLocker DEF IInv, CallOK, SetRefused
<1>2. /\ c \in Calls /\ c.ids = call[w].ids /\ c.acquired = call[w].acquired
      /\ c.released = 0 /\ c.attempt = call[w].attempt /\ c.givingUp
  BY <1>1 DEF Calls
<1>3. s \in {"get", "sleep", "failed"} /\ (s = "sleep" => call[w].attempt < MaxRetries)
      /\ (s = "get" <=> call[w].acquired # 0)
  BY <1>1, TryFailedPlace
<1>4. lpc' = [lpc EXCEPT ![w] = s] /\ call' = [call EXCEPT ![w] = c] /\ lock' = lock
  BY DEF SetRefused, Goto
<1>5. lpc'[w] = s /\ call'[w] = c
  BY <1>4 DEF IInv, LockerTypeOK
<1> HIDE DEF c, s
<1>6. CallOK(w)'
  BY <1>1, <1>2, <1>3, <1>5 DEF CallOK
<1>7. Window(w)' = Window(w)
  BY <1>1, <1>2, <1>5 DEF Window
<1>8. call[w].acquired = 0 => Window(w) = {}
  BY <1>1 DEF Window
<1>9. \A k \in Orders : lock'[k] = w => s = "get" /\ k \in Window(w)'
  BY <1>3, <1>4, <1>7, <1>8 DEF IInv, NoLeakedLocks
<1> QED
  BY <1>2, <1>3, <1>4, <1>6, <1>9, FrameIInv DEF IInv, LockerTypeOK, LockerStates

\* The release of a handle starts at its first key (locker.ts:72-77).
LEMMA releaseLocksIInv ==
  ASSUME IInv, NEW w \in Workers, releaseLocks(w)
  PROVE  IInv'
<1>1. /\ lpc[w] = "held" /\ call[w] \in Calls /\ call[w].attempt >= 1 /\ Len(call[w].ids) \in 1..2
      /\ call[w].acquired \in 0..2 /\ call[w].released \in 0..2 /\ Len(call[w].ids) > 0
      /\ call[w].acquired = Len(call[w].ids) /\ call[w].released = 0 /\ ~call[w].givingUp
  BY InLocker DEF IInv, CallOK, releaseLocks
<1>2. lpc' = [lpc EXCEPT ![w] = "get"] /\ call' = [call EXCEPT ![w] = call[w]] /\ lock' = lock
  BY DEF releaseLocks, Goto, IInv, LockerTypeOK
<1>3. lpc'[w] = "get" /\ call'[w] = call[w]
  BY <1>2 DEF IInv, LockerTypeOK
<1>4. CallOK(w)'
  BY <1>1, <1>3 DEF CallOK
<1>5. \A k \in Orders : lock'[k] = w => k \in Window(w)'
  BY <1>2, <1>3 DEF IInv, NoLeakedLocks, Window
<1> QED
  BY <1>1, <1>2, <1>4, <1>5, FrameIInv DEF IInv, LockerTypeOK, LockerStates

\* GET changes nothing; the key stays in the window until its DEL.
LEMMA GetOwnIInv ==
  ASSUME IInv, NEW w \in Workers, GetOwn(w)
  PROVE  IInv'
<1>1. /\ lpc[w] = "get" /\ call[w] \in Calls /\ call[w].attempt >= 1 /\ Len(call[w].ids) \in 1..2
      /\ call[w].acquired \in 0..2 /\ call[w].released \in 0..2 /\ Len(call[w].ids) > 0
      /\ call[w].released < call[w].acquired /\ call[w].acquired <= Len(call[w].ids)
      /\ ~call[w].givingUp => call[w].acquired = Len(call[w].ids)
  BY InLocker DEF IInv, CallOK, GetOwn
<1>2. lpc' = [lpc EXCEPT ![w] = "del"] /\ call' = [call EXCEPT ![w] = call[w]] /\ lock' = lock
  BY DEF GetOwn, Goto, IInv, LockerTypeOK
<1>3. lpc'[w] = "del" /\ call'[w] = call[w]
  BY <1>2 DEF IInv, LockerTypeOK
<1>4. CallOK(w)'
  BY <1>1, <1>3 DEF CallOK
<1>5. \A k \in Orders : lock'[k] = w => k \in Window(w)'
  BY <1>2, <1>3 DEF IInv, NoLeakedLocks, Window
<1> QED
  BY <1>1, <1>2, <1>4, <1>5, FrameIInv DEF IInv, LockerTypeOK, LockerStates

\* The end of one key's visit in releaseLocks.
LEMMA VisitedIInv ==
  ASSUME IInv, NEW w \in Workers, lpc[w] \in {"get", "del"}, Visited(w),
         lock' \in [Orders -> Workers \cup {Free, Orphan}],
         \A k \in Orders : lock'[k] \in Workers => lock'[k] = lock[k],
         \A k \in Orders : lock'[k] = w => k # ReleaseKey(w)
  PROVE  IInv'
<1>1. /\ call[w] \in Calls /\ call[w].attempt >= 1 /\ Len(call[w].ids) \in 1..2
      /\ call[w].acquired \in 0..2 /\ call[w].released \in 0..2 /\ Len(call[w].ids) > 0
      /\ call[w].released < call[w].acquired /\ call[w].acquired <= Len(call[w].ids)
      /\ ~call[w].givingUp => call[w].acquired = Len(call[w].ids)
  BY InLocker DEF IInv, CallOK
<1>2. \A k \in Orders : lock'[k] = w =>
        \E i \in (call[w].released + 2)..call[w].acquired : k = call[w].ids[i]
  <2> SUFFICES ASSUME NEW k \in Orders, lock'[k] = w
               PROVE  \E i \in (call[w].released + 2)..call[w].acquired : k = call[w].ids[i]
    OBVIOUS
  <2>1. k \in Window(w) /\ k # ReleaseKey(w)
    BY DEF IInv, NoLeakedLocks
  <2>2. PICK i \in (call[w].released + 1)..call[w].acquired : k = call[w].ids[i]
    BY <2>1 DEF Window
  <2>3. i # call[w].released + 1
    BY <2>1, <2>2 DEF ReleaseKey
  <2> QED
    BY <1>1, <2>2, <2>3
<1>3. CASE call[w].released + 1 = call[w].acquired /\ ~call[w].givingUp
  <2>1. lpc' = [lpc EXCEPT ![w] = "idle"] /\ call' = [call EXCEPT ![w] = NoCall]
    BY <1>3 DEF Visited, Return, Goto
  <2>2. NoCall \in Calls
    <3>1. NoCall.ids \in SortedIds
      BY DEF NoCall, SortedIds
    <3> QED
      BY <3>1, RetriesAssumption DEF NoCall, Calls
  <2>3. CallOK(w)'
    BY <2>1 DEF CallOK, IInv, LockerTypeOK
  <2>4. \A k \in Orders : lock'[k] # w
    BY <1>1, <1>2, <1>3
  <2> QED
    BY <2>1, <2>2, <2>3, <2>4, FrameIInv DEF IInv, LockerTypeOK, LockerStates
<1>4. CASE ~(call[w].released + 1 = call[w].acquired /\ ~call[w].givingUp)
  <2> DEFINE c == [call[w] EXCEPT !.released = @ + 1]
             s == IF call[w].released + 1 = call[w].acquired THEN TryFailed(w) ELSE "get"
  <2>1. lpc' = [lpc EXCEPT ![w] = s] /\ call' = [call EXCEPT ![w] = c]
    BY <1>4 DEF Visited, Goto, IInv, LockerTypeOK
  <2>2. /\ c \in Calls /\ c.ids = call[w].ids /\ c.acquired = call[w].acquired
        /\ c.released = call[w].released + 1 /\ c.attempt = call[w].attempt
        /\ c.givingUp = call[w].givingUp
    BY <1>1, OneMore DEF Calls
  <2>3. /\ s \in {"get", "sleep", "failed"} /\ (s = "sleep" => call[w].attempt < MaxRetries)
        /\ s = "get" <=> call[w].released + 1 # call[w].acquired
    BY <1>1, TryFailedPlace
  <2>4. lpc'[w] = s /\ call'[w] = c
    BY <2>1 DEF IInv, LockerTypeOK
  <2> HIDE DEF c, s
  <2>5. CallOK(w)'
    BY <1>1, <2>2, <2>3, <2>4 DEF CallOK
  <2>6. \A k \in Orders : lock'[k] = w => s = "get" /\ k \in Window(w)'
    <3> SUFFICES ASSUME NEW k \in Orders, lock'[k] = w PROVE s = "get" /\ k \in Window(w)'
      OBVIOUS
    <3>1. PICK i \in (call[w].released + 2)..call[w].acquired : k = call[w].ids[i]
      BY <1>2
    <3>2. call[w].released + 1 # call[w].acquired
      BY <1>1, <3>1
    <3>3. i \in (c.released + 1)..c.acquired
      BY <1>1, <2>2, <3>1
    <3> QED
      BY <2>2, <2>3, <2>4, <3>1, <3>2, <3>3 DEF Window
  <2> QED
    BY <2>1, <2>2, <2>3, <2>5, <2>6, FrameIInv DEF IInv, LockerTypeOK, LockerStates
<1> QED
  BY <1>3, <1>4

\* A key that is somebody else's leaves the window, and stays theirs.
LEMMA GetForeignIInv ==
  ASSUME IInv, NEW w \in Workers, GetForeign(w)
  PROVE  IInv'
<1>1. lpc[w] = "get" /\ lock[ReleaseKey(w)] # w /\ Visited(w) /\ lock' = lock
  BY DEF GetForeign
<1>2. lock' \in [Orders -> Workers \cup {Free, Orphan}]
  BY <1>1 DEF IInv, LockerTypeOK
<1> QED
  BY <1>1, <1>2, VisitedIInv

\* DEL frees the key it takes out of the window (locker.ts:78-81).
LEMMA DelKeyIInv ==
  ASSUME IInv, NEW w \in Workers, DelKey(w)
  PROVE  IInv'
<1>1. lpc[w] = "del" /\ Visited(w) /\ lock' = [lock EXCEPT ![ReleaseKey(w)] = Free]
  BY DEF DelKey
<1>2. lock' \in [Orders -> Workers \cup {Free, Orphan}]
  BY <1>1 DEF IInv, LockerTypeOK
<1>3. \A k \in Orders : lock'[k] \in Workers => lock'[k] = lock[k] /\ k # ReleaseKey(w)
  BY <1>1, OwnersAssumption DEF IInv, LockerTypeOK
<1> QED
  BY <1>1, <1>2, <1>3, VisitedIInv

\* The next try of an acquisition starts afresh with the same ids.
LEMMA NextTry ==
  ASSUME NEW c \in Calls, c.attempt >= 1, c.attempt < MaxRetries
  PROVE  LET d == [NoCall EXCEPT !.ids = c.ids, !.attempt = c.attempt + 1]
         IN  /\ d \in Calls /\ d.ids = c.ids /\ d.acquired = 0 /\ d.released = 0
             /\ d.attempt >= 1 /\ ~d.givingUp
<1> DEFINE n == c.attempt + 1
<1>1. n \in 0..MaxRetries /\ n >= 1
  BY RetriesAssumption DEF Calls
<1>2. 0 \in 0..2 /\ c.ids \in SortedIds
  BY DEF Calls
<1> HIDE DEF n
<1> QED
  BY <1>1, <1>2 DEF Calls, NoCall, n

\* The loop of acquireDualOrderLocks starts its next try with no key (locker.ts:51-62).
LEMMA WakeIInv ==
  ASSUME IInv, NEW w \in Workers, Wake(w)
  PROVE  IInv'
<1> DEFINE c == [NoCall EXCEPT !.ids = call[w].ids, !.attempt = call[w].attempt + 1]
<1>1. /\ lpc[w] = "sleep" /\ call[w] \in Calls /\ call[w].attempt >= 1
      /\ Len(call[w].ids) > 0 /\ call[w].attempt < MaxRetries
  BY InLocker DEF IInv, CallOK, Wake
<1>2. /\ c \in Calls /\ c.ids = call[w].ids /\ c.acquired = 0 /\ c.released = 0
      /\ c.attempt >= 1 /\ ~c.givingUp
  BY <1>1, NextTry
<1>3. lpc' = [lpc EXCEPT ![w] = "set"] /\ call' = [call EXCEPT ![w] = c] /\ lock' = lock
  BY DEF Wake, Goto
<1>4. lpc'[w] = "set" /\ call'[w] = c
  BY <1>3 DEF IInv, LockerTypeOK
<1> HIDE DEF c
<1>6. CallOK(w)'
  BY <1>1, <1>2, <1>4 DEF CallOK
<1> QED
  BY <1>1, <1>2, <1>3, <1>6, NothingHeld, FrameIInv DEF IInv, LockerTypeOK, LockerStates

\* A worker that leaves the locker holds nothing from then on.
LEMMA LeaveIInv ==
  ASSUME IInv, NEW w \in Workers, Return(w),
         lock' \in [Orders -> Workers \cup {Free, Orphan}],
         \A k \in Orders : lock'[k] # w /\ (lock'[k] \in Workers => lock'[k] = lock[k])
  PROVE  IInv'
<1>1. NoCall.ids \in SortedIds
  BY DEF NoCall, SortedIds
<1>2. NoCall \in Calls
  BY <1>1, RetriesAssumption DEF NoCall, Calls
<1>3. lpc' = [lpc EXCEPT ![w] = "idle"] /\ call' = [call EXCEPT ![w] = NoCall]
  BY DEF Return, Goto
<1>4. CallOK(w)'
  BY <1>3 DEF CallOK, IInv, LockerTypeOK
<1> QED
  BY <1>2, <1>3, <1>4, FrameIInv DEF LockerStates

\* OrderLockError leaves with no key (locker.ts:64).
LEMMA RejectedIInv ==
  ASSUME IInv, NEW w \in Workers, Rejected(w)
  PROVE  IInv'
  BY LeaveIInv, NothingHeld DEF Rejected, IInv, LockerTypeOK

\* The keys of an acquisition that died are Orphan's, nobody alive owns them.
LEMMA AbandonIInv ==
  ASSUME IInv, NEW w \in Workers, Abandon(w)
  PROVE  IInv'
<1>1. Return(w) /\ lock' = [k \in Orders |-> IF lock[k] = w THEN Orphan ELSE lock[k]]
  BY DEF Abandon
<1>2. lock' \in [Orders -> Workers \cup {Free, Orphan}]
  BY <1>1 DEF IInv, LockerTypeOK
<1>3. \A k \in Orders : lock'[k] # w /\ (lock'[k] \in Workers => lock'[k] = lock[k])
  BY <1>1, OwnersAssumption
<1> QED
  BY <1>1, <1>2, <1>3, LeaveIInv

\* A key that expires only leaves its owner with less.
LEMMA ExpireIInv ==
  ASSUME IInv, NEW k \in Orders, Expire(k)
  PROVE  IInv'
<1>1. lock' = [lock EXCEPT ![k] = Free] /\ lpc' = lpc /\ call' = call
  BY DEF Expire
<1>2. LockerTypeOK'
  BY <1>1 DEF IInv, LockerTypeOK
<1>3. \A w \in Workers : CallOK(w)'
  BY <1>1 DEF IInv, CallOK
<1>4. NoLeakedLocks'
  BY <1>1, OwnersAssumption DEF IInv, NoLeakedLocks, LockerTypeOK, Window
<1> QED
  BY <1>2, <1>3, <1>4 DEF IInv

\* Every step of the locker and of its keys' time to live keeps the invariant.
LEMMA NextIInv == IInv /\ [LockerNext]_lockerVars => IInv'
<1> SUFFICES ASSUME IInv, [LockerNext]_lockerVars PROVE IInv'
  OBVIOUS
<1>1. CASE UNCHANGED lockerVars
  BY <1>1 DEF lockerVars, IInv, LockerTypeOK, CallOK, NoLeakedLocks, Window
<1>2. ASSUME NEW w \in Workers, NEW a \in Orders, NEW b \in Orders, acquireDualOrderLocks(w, a, b)
      PROVE  IInv'
  BY <1>2, AcquireIInv
<1>3. ASSUME NEW w \in Workers, LockerStep(w) PROVE IInv'
  BY <1>3, SetKeyIInv, SetRefusedIInv, GetOwnIInv, GetForeignIInv, DelKeyIInv, WakeIInv DEF LockerStep
<1>4. ASSUME NEW w \in Workers, releaseLocks(w) \/ Rejected(w) \/ Abandon(w) PROVE IInv'
  BY <1>4, releaseLocksIInv, RejectedIInv, AbandonIInv
<1>5. ASSUME NEW k \in Orders, Expire(k) PROVE IInv'
  BY <1>5, ExpireIInv
<1> QED
  BY <1>1, <1>2, <1>3, <1>4, <1>5 DEF LockerNext

\* The inductive invariant holds for ever: what the acquisition's local variables
\* say at every point of locker.ts:47-104, and where a live owner's keys can be.
THEOREM LockerInvariant == LockerSpec => []IInv
<1>1. LockerInit => IInv
  BY InitIInv
<1>2. IInv /\ [LockerNext]_lockerVars => IInv'
  BY NextIInv
<1> QED
  BY <1>1, <1>2, PTL DEF LockerSpec

\* The locker's state keeps its shape (locker.ts:15-31).
THEOREM TypeCorrect == LockerSpec => []LockerTypeOK
<1>1. IInv => LockerTypeOK
  BY DEF IInv
<1> QED
  BY <1>1, LockerInvariant, PTL

\* A lock whose owner id is in use belongs to an acquisition that is going to
\* release it (locker.ts:72-104), for any number of workers, orders and retries.
THEOREM LocksNeverLeak == LockerSpec => []NoLeakedLocks
<1>1. IInv => NoLeakedLocks
  BY DEF IInv
<1> QED
  BY <1>1, LockerInvariant, PTL

----------------------------------------------------------------------------
(* Waits ascend: a worker that refuses another one a key while it collects *)
(* its own is itself waiting for a larger one.                             *)

\* A worker that is refused a key by another one that still collects keys waits
\* for a smaller key than that one: both collect in ascending order (locker.ts:106).
LEMMA WaitsAscend ==
  ASSUME IInv, NEW v \in Workers, NEW w \in Workers, Blocks(v, w)
  PROVE  NextKey(v) \in Orders /\ NextKey(w) \in Orders /\ NextKey(w) < NextKey(v)
<1>1. lpc[w] = "set" /\ lpc[v] = "set" /\ lock[NextKey(w)] = v
  BY DEF Blocks
<1>2. \A u \in {v, w} : /\ call[u].ids \in SortedIds /\ Len(call[u].ids) \in 1..2
                        /\ call[u].acquired \in 0..2 /\ call[u].acquired < Len(call[u].ids)
                        /\ call[u].released = 0
  BY <1>1, InLocker DEF IInv, CallOK
<1>3. \A u \in {v, w} : call[u].acquired + 1 \in 1..Len(call[u].ids)
  BY <1>2
<1>4. NextKey(v) \in Orders /\ NextKey(w) \in Orders
  BY <1>2, <1>3, SortedIdsShape DEF NextKey
<1>5. NextKey(w) \in Window(v)
  BY <1>1, <1>4 DEF IInv, NoLeakedLocks
<1>6. PICK i \in 1..call[v].acquired : NextKey(w) = call[v].ids[i]
  BY <1>2, <1>5 DEF Window
<1>7. i \in 1..Len(call[v].ids) /\ i < call[v].acquired + 1
  BY <1>2, <1>6
<1> QED
  BY <1>2, <1>3, <1>4, <1>6, <1>7, SortedIdsShape DEF NextKey

\* The worker that waits for the largest key in a set is refused by nobody in it.
LEMMA NoCircle == IInv => NoWaitCycle
<1> SUFFICES ASSUME IInv, NEW S \in SUBSET Workers, S # {}
             PROVE  \E w \in S : \A v \in S : ~Blocks(v, w)
  BY DEF NoWaitCycle
<1> DEFINE Above(w) == {k \in Orders : NextKey(w) < k}
           R == StrictSubsetOrdering(Orders)
           T == {Above(w) : w \in S}
<1>1. T \subseteq FiniteSubsetsOf(Orders) /\ T # {}
  <2>1. \A w \in S : Above(w) \in SUBSET Orders
    OBVIOUS
  <2>2. FiniteSubsetsOf(Orders) = SUBSET Orders
    BY OrdersAssumption, FS_FiniteSubsetsOfFinite
  <2> HIDE DEF Above
  <2>3. T \subseteq FiniteSubsetsOf(Orders)
    BY <2>1, <2>2
  <2>4. PICK w : w \in S
    OBVIOUS
  <2>5. Above(w) \in T
    BY <2>4
  <2> QED
    BY <2>3, <2>5
<1>2. PICK X \in T : \A Y \in T : ~(<<Y, X>> \in R)
  BY <1>1, WFMin, FS_StrictSubsetOrderingWellFounded
<1>3. PICK w \in S : X = Above(w)
  BY <1>2
<1>4. ASSUME NEW v \in S, Blocks(v, w) PROVE FALSE
  <2>1. NextKey(v) \in Orders /\ NextKey(w) \in Orders /\ NextKey(w) < NextKey(v)
    BY <1>4, WaitsAscend
  <2>2. \A i, j, k \in Orders : (i < j /\ j < k => i < k) /\ ~(i < i)
    BY OrdersAssumption
  <2>3. Above(v) \subseteq Above(w) /\ NextKey(v) \in Above(w) /\ NextKey(v) \notin Above(v)
    BY <2>1, <2>2
  <2>4. <<Above(v), Above(w)>> \in R
    BY <2>3 DEF StrictSubsetOrdering
  <2> QED
    BY <1>2, <1>3, <2>4
<1> QED
  BY <1>4

\* locker.ts:43-46: whatever the number of workers and orders, no set of workers
\* refuse each other in a circle.
THEOREM DeadlockFree == LockerSpec => []NoWaitCycle
  BY LockerInvariant, NoCircle, PTL

----------------------------------------------------------------------------
(* As long as no key expires in use, a worker owns its whole window, and   *)
(* no two windows have an order in common.                                 *)

Holds(w) == lpc[w] \in {"set", "held", "get", "del"}
WindowsOwned == \A w \in Workers : Holds(w) => \A k \in Window(w) : lock[k] = w

\* A window is made of orders.
LEMMA WindowType ==
  ASSUME IInv, NEW w \in Workers, Holds(w)
  PROVE  Window(w) \subseteq Orders
<1>1. call[w].ids \in SortedIds /\ call[w].released \in 0..2 /\ call[w].acquired <= Len(call[w].ids)
      /\ Len(call[w].ids) \in 1..2 /\ call[w].acquired \in 0..2
  BY InLocker DEF IInv, CallOK, Holds
<1>2. \A i \in (call[w].released + 1)..call[w].acquired : i \in 1..Len(call[w].ids)
  BY <1>1
<1> QED
  BY <1>1, <1>2, SortedIdsShape DEF Window

\* The key a release comes to is the first of the window; the others follow it.
LEMMA ReleaseKeyFirst ==
  ASSUME IInv, NEW w \in Workers, lpc[w] \in {"get", "del"}
  PROVE  /\ ReleaseKey(w) \in Window(w) /\ ReleaseKey(w) \in Orders
         /\ {call[w].ids[i] : i \in (call[w].released + 2)..call[w].acquired}
              = Window(w) \ {ReleaseKey(w)}
<1>1. /\ call[w].ids \in SortedIds /\ Len(call[w].ids) \in 1..2
      /\ call[w].released \in 0..2 /\ call[w].acquired \in 0..2
      /\ call[w].released < call[w].acquired /\ call[w].acquired <= Len(call[w].ids)
  BY InLocker DEF IInv, CallOK
<1>2. call[w].released + 1 \in (call[w].released + 1)..call[w].acquired
  BY <1>1
<1>3. ReleaseKey(w) \in Window(w) /\ ReleaseKey(w) \in Orders
  BY <1>2, WindowType DEF Window, ReleaseKey, Holds
<1>4. \A i \in (call[w].released + 2)..call[w].acquired :
        call[w].released + 1 < i /\ i \in 1..Len(call[w].ids) /\ call[w].released + 1 \in 1..Len(call[w].ids)
  BY <1>1
<1>5. \A i \in (call[w].released + 2)..call[w].acquired : call[w].ids[i] # ReleaseKey(w)
  <2> SUFFICES ASSUME NEW i \in (call[w].released + 2)..call[w].acquired
               PROVE  call[w].ids[i] # ReleaseKey(w)
    OBVIOUS
  <2>1. ReleaseKey(w) < call[w].ids[i] /\ ReleaseKey(w) \in Nat /\ call[w].ids[i] \in Nat
    BY <1>1, <1>4, SortedIdsShape, OrdersAssumption DEF ReleaseKey
  <2> QED
    BY <2>1
<1>6. \A i \in (call[w].released + 1)..call[w].acquired :
        i = call[w].released + 1 \/ i \in (call[w].released + 2)..call[w].acquired
  BY <1>1
<1>7. \A i \in (call[w].released + 2)..call[w].acquired : i \in (call[w].released + 1)..call[w].acquired
  BY <1>1
<1> QED
  BY <1>3, <1>5, <1>6, <1>7 DEF Window, ReleaseKey

\* What a step of w does to the windows: nobody else's changes.
LEMMA OthersWindows ==
  ASSUME IInv, NEW w \in Workers,
         \A v \in Workers \ {w} : lpc'[v] = lpc[v] /\ call'[v] = call[v],
         WindowsOwned,
         \A k \in Orders : lock[k] \in Workers \ {w} => lock'[k] = lock[k],
         Holds(w)' => \A k \in Window(w)' : lock'[k] = w
  PROVE  WindowsOwned'
<1> SUFFICES ASSUME NEW v \in Workers, Holds(v)', NEW k \in Window(v)' PROVE lock'[k] = v
  BY DEF WindowsOwned
<1>1. CASE v = w
  BY <1>1
<1>2. CASE v # w
  <2>1. Holds(v) /\ k \in Window(v)
    BY <1>2 DEF Holds, Window
  <2>2. lock[k] = v /\ k \in Orders
    BY <2>1, WindowType DEF WindowsOwned
  <2> QED
    BY <1>2, <2>2
<1> QED
  BY <1>1, <1>2

\* Each kind of step of a worker, for what it does to its own window.
LEMMA StepFrame ==
  ASSUME IInv, NEW w \in Workers,
         LockerStep(w) \/ releaseLocks(w) \/ Rejected(w) \/ Abandon(w)
           \/ \E a, b \in Orders : acquireDualOrderLocks(w, a, b)
  PROVE  \A v \in Workers \ {w} : lpc'[v] = lpc[v] /\ call'[v] = call[v]
  BY DEF LockerStep, SetKey, SetRefused, GetOwn, GetForeign, DelKey, Wake, releaseLocks,
         Rejected, Abandon, acquireDualOrderLocks, Visited, Return, Goto, IInv, LockerTypeOK

\* The window of a worker after SetKey and after a visit.
LEMMA SetKeyWindow ==
  ASSUME IInv, NEW w \in Workers, SetKey(w)
  PROVE  /\ Window(w)' = Window(w) \cup {NextKey(w)}
         /\ NextKey(w) \in Orders /\ lock[NextKey(w)] = Free
         /\ lock' = [lock EXCEPT ![NextKey(w)] = w]
         /\ lpc[w] = "set" /\ lpc'[w] \in {"set", "held"}
         /\ call'[w].givingUp = call[w].givingUp
<1>1. /\ call[w] \in Calls /\ lpc[w] = "set" /\ call[w].acquired < Len(call[w].ids) /\ call[w].released = 0
      /\ call[w].ids \in SortedIds /\ Len(call[w].ids) \in 1..2 /\ call[w].acquired \in 0..2
  BY InLocker DEF IInv, CallOK, SetKey
<1>2. call' = [call EXCEPT ![w].acquired = @ + 1] /\ lock' = [lock EXCEPT ![NextKey(w)] = w]
      /\ lock[NextKey(w)] = Free /\ lpc'[w] \in {"set", "held"}
  BY DEF SetKey, Goto, IInv, LockerTypeOK
<1>3. /\ call'[w].ids = call[w].ids /\ call'[w].acquired = call[w].acquired + 1
      /\ call'[w].released = 0 /\ call'[w].givingUp = call[w].givingUp
  BY <1>1, <1>2 DEF IInv, LockerTypeOK, Calls
<1>4. call[w].acquired + 1 \in 1..Len(call[w].ids)
  BY <1>1
<1>5. NextKey(w) \in Orders
  BY <1>1, <1>4, SortedIdsShape DEF NextKey
<1>6. Window(w)' = Window(w) \cup {NextKey(w)}
  BY <1>1, <1>3 DEF Window, NextKey
<1> QED
  BY <1>1, <1>2, <1>3, <1>5, <1>6

\* After a visit either the release is over, or the key has left the window.
LEMMA VisitedWindow ==
  ASSUME IInv, NEW w \in Workers, lpc[w] \in {"get", "del"}, Visited(w)
  PROVE  \/ /\ lpc'[w] = "idle"
            /\ Window(w) = {ReleaseKey(w)} /\ ~call[w].givingUp
         \/ /\ lpc'[w] = "get" \/ (lpc'[w] \in {"sleep", "failed"} /\ call[w].givingUp)
            /\ Window(w)' = Window(w) \ {ReleaseKey(w)}
            /\ call'[w].givingUp = call[w].givingUp
<1>1. /\ call[w] \in Calls /\ call[w].released \in 0..2 /\ call[w].acquired \in 0..2
      /\ call[w].released < call[w].acquired /\ call[w].acquired <= Len(call[w].ids)
  BY InLocker DEF IInv, CallOK
<1>2. CASE call[w].released + 1 = call[w].acquired /\ ~call[w].givingUp
  <2>1. lpc'[w] = "idle"
    BY <1>2 DEF Visited, Return, Goto, IInv, LockerTypeOK
  <2>2. (call[w].released + 1)..call[w].acquired = {call[w].released + 1}
    BY <1>1, <1>2
  <2> QED
    BY <1>2, <2>1, <2>2 DEF Window, ReleaseKey
<1>3. CASE ~(call[w].released + 1 = call[w].acquired /\ ~call[w].givingUp)
  <2>1. call' = [call EXCEPT ![w].released = @ + 1]
        /\ lpc'[w] = IF call[w].released + 1 = call[w].acquired THEN TryFailed(w) ELSE "get"
    BY <1>3 DEF Visited, Goto, IInv, LockerTypeOK
  <2>2. /\ call'[w].ids = call[w].ids /\ call'[w].acquired = call[w].acquired
        /\ call'[w].released = call[w].released + 1 /\ call'[w].givingUp = call[w].givingUp
    BY <1>1, <2>1 DEF IInv, LockerTypeOK, Calls
  <2>3. (call[w].released + 1) + 1 = call[w].released + 2
    BY <1>1
  <2>4. Window(w)' = Window(w) \ {ReleaseKey(w)}
    BY <2>2, <2>3, ReleaseKeyFirst DEF Window
  <2>5. lpc'[w] = "get" \/ (lpc'[w] \in {"sleep", "failed"} /\ call[w].givingUp)
    BY <1>3, <2>1, TryFailedPlace
  <2> QED
    BY <2>2, <2>4, <2>5
<1> QED
  BY <1>2, <1>3

\* Every step of a worker keeps the windows owned: a key enters a window when SET
\* NX finds it free, and leaves it before or together with its DEL.
LEMMA StepWindows ==
  ASSUME IInv, WindowsOwned, NEW w \in Workers,
         LockerStep(w) \/ releaseLocks(w) \/ Rejected(w) \/ Abandon(w)
           \/ \E a, b \in Orders : acquireDualOrderLocks(w, a, b)
  PROVE  WindowsOwned'
<1>1. \A v \in Workers \ {w} : lpc'[v] = lpc[v] /\ call'[v] = call[v]
  BY StepFrame
<1>2. Window(w) \in SUBSET Orders \/ ~Holds(w)
  BY WindowType
<1>3. ASSUME NEW a \in Orders, NEW b \in Orders, acquireDualOrderLocks(w, a, b) PROVE WindowsOwned'
  <2>1. call'[w].acquired = 0 /\ call'[w].released = 0 /\ lock' = lock
    BY <1>3 DEF acquireDualOrderLocks, NoCall, IInv, LockerTypeOK
  <2>2. Window(w)' = {}
    BY <2>1 DEF Window
  <2> QED
    BY <1>1, <2>1, <2>2, OthersWindows
<1>4. CASE SetKey(w)
  <2>0. /\ Window(w)' = Window(w) \cup {NextKey(w)} /\ NextKey(w) \in Orders
        /\ lock' = [lock EXCEPT ![NextKey(w)] = w] /\ DOMAIN lock = Orders
        /\ Holds(w) /\ Window(w) \subseteq Orders
    BY <1>2, <1>4, SetKeyWindow DEF Holds, IInv, LockerTypeOK
  <2>1. \A k \in Window(w)' : lock'[k] = w
    BY <2>0 DEF WindowsOwned
  <2>2. \A k \in Orders : lock[k] \in Workers \ {w} => lock'[k] = lock[k]
    BY <1>4, SetKeyWindow, OwnersAssumption DEF IInv, LockerTypeOK
  <2> QED
    BY <1>1, <2>1, <2>2, OthersWindows
<1>5. CASE SetRefused(w) \/ releaseLocks(w) \/ GetOwn(w)
  <2>1. Holds(w) /\ lock' = lock /\ call[w] \in Calls
    BY <1>5, InLocker DEF SetRefused, releaseLocks, GetOwn, Holds
  <2>2. /\ call'[w].ids = call[w].ids /\ call'[w].acquired = call[w].acquired
        /\ call'[w].released = call[w].released
    BY <1>5, <2>1 DEF SetRefused, releaseLocks, GetOwn, IInv, LockerTypeOK, Calls
  <2>3. Window(w)' = Window(w)
    BY <2>2 DEF Window
  <2> QED
    BY <1>1, <2>1, <2>3, OthersWindows DEF WindowsOwned
<1>6. CASE GetForeign(w)
  BY <1>6, ReleaseKeyFirst DEF GetForeign, WindowsOwned, Holds
<1>7. CASE DelKey(w)
  <2>1. /\ lpc[w] = "del" /\ Visited(w) /\ lock' = [lock EXCEPT ![ReleaseKey(w)] = Free]
        /\ Holds(w)
    BY <1>7 DEF DelKey, Holds
  <2>2. ReleaseKey(w) \in Orders /\ lock[ReleaseKey(w)] = w
    BY <2>1, ReleaseKeyFirst DEF WindowsOwned
  <2>3. \A k \in Orders : lock[k] \in Workers \ {w} => lock'[k] = lock[k]
    BY <2>1, <2>2 DEF IInv, LockerTypeOK
  <2>4. Holds(w)' => \A k \in Window(w)' : lock'[k] = w
    <3>1. Holds(w)' => Window(w)' = Window(w) \ {ReleaseKey(w)}
      BY <2>1, VisitedWindow DEF Holds
    <3> QED
      BY <1>2, <2>1, <3>1 DEF WindowsOwned, IInv, LockerTypeOK
  <2> QED
    BY <1>1, <2>3, <2>4, OthersWindows
<1>8. CASE Wake(w)
  <2>1. call'[w].acquired = 0 /\ call'[w].released = 0 /\ lock' = lock
    BY <1>8 DEF Wake, NoCall, IInv, LockerTypeOK
  <2>2. Window(w)' = {}
    BY <2>1 DEF Window
  <2> QED
    BY <1>1, <2>1, <2>2, OthersWindows
<1>9. CASE Rejected(w) \/ Abandon(w)
  <2>1. lpc'[w] = "idle"
    BY <1>9 DEF Rejected, Abandon, Return, Goto, IInv, LockerTypeOK
  <2>2. \A k \in Orders : lock[k] \in Workers \ {w} => lock'[k] = lock[k]
    BY <1>9 DEF Rejected, Abandon
  <2> QED
    BY <1>1, <2>1, <2>2, OthersWindows DEF Holds
<1> QED
  BY <1>3, <1>4, <1>5, <1>6, <1>7, <1>8, <1>9 DEF LockerStep

\* Without expiry in use, only keys that belong to nobody alive disappear.
LEMMA NextWindows ==
  ASSUME ~TtlMayExpire, IInv, WindowsOwned, [LockerNext]_lockerVars
  PROVE  WindowsOwned'
<1>1. CASE UNCHANGED lockerVars
  BY <1>1 DEF lockerVars, WindowsOwned, Window, Holds
<1>2. ASSUME NEW k \in Orders, Expire(k) PROVE WindowsOwned'
  <2>1. lock[k] = Orphan /\ lock' = [lock EXCEPT ![k] = Free] /\ lpc' = lpc /\ call' = call
    BY <1>2 DEF Expire
  <2>2. \A w \in Workers : Holds(w) => Window(w) \subseteq Orders /\ k \notin Window(w)
    BY <2>1, WindowType, OwnersAssumption DEF WindowsOwned
  <2> QED
    BY <2>1, <2>2 DEF WindowsOwned, Window, Holds, IInv, LockerTypeOK
<1> QED
  BY <1>1, <1>2, StepWindows DEF LockerNext

\* IInv and the ownership of whole windows hold together for ever.
LEMMA WindowsInvariant ==
  ASSUME ~TtlMayExpire
  PROVE  LockerSpec => [](IInv /\ WindowsOwned)
<1>1. LockerInit => IInv /\ WindowsOwned
  BY InitIInv DEF LockerInit, WindowsOwned, Holds
<1>2. (IInv /\ WindowsOwned) /\ [LockerNext]_lockerVars => (IInv /\ WindowsOwned)'
  BY NextIInv, NextWindows
<1> QED
  BY <1>1, <1>2, PTL DEF LockerSpec

\* A handle's window is all its orders.
LEMMA OwnedHandles == IInv /\ WindowsOwned => HandleOwnsKeys
<1> SUFFICES ASSUME IInv, WindowsOwned, NEW w \in Workers, lpc[w] = "held",
                    NEW i \in 1..Len(call[w].ids)
             PROVE  lock[call[w].ids[i]] = w
  BY DEF HandleOwnsKeys
<1>1. call[w].acquired = Len(call[w].ids) /\ call[w].released = 0
  BY DEF IInv, CallOK
<1>2. i \in (call[w].released + 1)..call[w].acquired
  BY <1>1
<1> QED
  BY <1>2 DEF WindowsOwned, Window, Holds

\* The promise of acquireDualOrderLocks (locker.ts:43-66): whoever holds a handle
\* owns both locks, and so nobody else does, unless a key may expire in use.
THEOREM HandlesOwnTheirKeys == LockerSpec => []HandleOwnsKeys
<1>1. CASE TtlMayExpire
  <2>1. HandleOwnsKeys
    BY <1>1 DEF HandleOwnsKeys
  <2> QED
    BY <2>1, PTL
<1>2. CASE ~TtlMayExpire
  <2>1. LockerSpec => [](IInv /\ WindowsOwned)
    BY <1>2, WindowsInvariant
  <2> QED
    BY <2>1, OwnedHandles, PTL
<1> QED
  BY <1>1, <1>2

----------------------------------------------------------------------------
(* The locker implements LockGrants: SetKey of the last key is Take, the   *)
(* visits of releaseLocks and the death of a worker are GiveBack, and the  *)
(* other steps leave the handles as they are.                              *)

\* A step of one worker that takes a handle on free orders, gives back a part of
\* its handle or leaves it as it is.
LEMMA OneWorkersGrant ==
  ASSUME NEW w \in Workers,
         \A v \in Workers \ {w} : lpc'[v] = lpc[v] /\ call'[v] = call[v],
         grant[w] \in SUBSET Orders, grant'[w] \in SUBSET Orders,
         \/ grant'[w] \subseteq grant[w]
         \/ grant[w] = {} /\ \A v \in Workers : grant[v] \cap grant'[w] = {}
  PROVE  [Grants!Next]_grant
<1>1. \A v \in Workers \ {w} : grant'[v] = grant[v]
  BY DEF grant, Window
<1>2. grant' = [grant EXCEPT ![w] = grant'[w]]
  BY <1>1 DEF grant
<1>3. CASE grant'[w] = grant[w]
  <2>1. \A v \in Workers : grant'[v] = grant[v]
    BY <1>1, <1>3
  <2> QED
    BY <2>1 DEF grant
<1>4. CASE grant'[w] # grant[w] /\ grant'[w] \subseteq grant[w]
  <2>1. Grants!GiveBack(w, grant'[w])
    BY <1>2, <1>4 DEF Grants!GiveBack
  <2> QED
    BY <2>1 DEF Grants!Next
<1>5. CASE grant'[w] # grant[w] /\ ~(grant'[w] \subseteq grant[w])
  <2>1. Grants!Take(w, grant'[w])
    BY <1>2, <1>5 DEF Grants!Take
  <2> QED
    BY <2>1 DEF Grants!Next
<1> QED
  BY <1>3, <1>4, <1>5

\* Handles are made of orders, and are empty outside held, get and del.
LEMMA GrantType ==
  ASSUME IInv, NEW w \in Workers
  PROVE  /\ grant[w] \in SUBSET Orders
         /\ lpc[w] \in {"idle", "set", "sleep", "failed"} => grant[w] = {}
         /\ grant[w] = {} \/ (Holds(w) /\ grant[w] = Window(w))
  BY WindowType DEF grant, Holds

\* GrantType after a step.
LEMMA GrantTypeNext ==
  ASSUME NEW w \in Workers
  PROVE  IInv' => (grant[w] \in SUBSET Orders)'
<1>1. IInv => grant[w] \in SUBSET Orders
  BY GrantType
<1> QED
  BY <1>1, PTL

\* Each step of a worker, for what it does to its own handle.
LEMMA StepGrants ==
  ASSUME IInv, IInv', WindowsOwned, WindowsOwned', NEW w \in Workers,
         LockerStep(w) \/ releaseLocks(w) \/ Rejected(w) \/ Abandon(w)
           \/ \E a, b \in Orders : acquireDualOrderLocks(w, a, b)
  PROVE  [Grants!Next]_grant
<1>1. \A v \in Workers \ {w} : lpc'[v] = lpc[v] /\ call'[v] = call[v]
  BY StepFrame
<1>2. grant[w] \in SUBSET Orders
  BY GrantType
<1>3. grant'[w] \in SUBSET Orders
  BY GrantTypeNext
<1>4. CASE lpc'[w] \in {"idle", "set", "sleep", "failed"}
  <2>1. grant'[w] = {}
    BY <1>4 DEF grant
  <2> QED
    BY <1>1, <1>2, <1>3, <2>1, OneWorkersGrant
<1>5. CASE SetKey(w) /\ lpc'[w] = "held"
  <2>1. grant[w] = {} /\ grant'[w] = Window(w)' /\ Holds(w)'
    BY <1>5 DEF SetKey, grant, Holds
  <2>2. ASSUME NEW v \in Workers PROVE grant[v] \cap grant'[w] = {}
    <3>1. CASE v = w
      BY <2>1, <3>1
    <3>2. CASE v # w
      <4>1. \A k \in grant[v] : lock'[k] = v
        BY <1>1, <3>2, GrantType DEF WindowsOwned, Window, Holds
      <4>2. \A k \in grant'[w] : lock'[k] = w
        BY <2>1 DEF WindowsOwned
      <4> QED
        BY <3>2, <4>1, <4>2
    <3> QED
      BY <3>1, <3>2
  <2> QED
    BY <1>1, <1>2, <1>3, <2>1, <2>2, OneWorkersGrant
<1>6. CASE SetRefused(w) /\ lpc'[w] = "get"
  <2>1. call'[w].givingUp
    BY <1>6 DEF SetRefused, IInv, LockerTypeOK
  <2>2. grant'[w] = {}
    BY <1>6, <2>1 DEF grant
  <2> QED
    BY <1>1, <1>2, <1>3, <2>2, OneWorkersGrant
<1>7. CASE releaseLocks(w) \/ GetOwn(w)
  <2>1. call'[w] = call[w] /\ lpc'[w] \in {"get", "del"} /\ lpc[w] \in {"held", "get"}
    BY <1>7 DEF releaseLocks, GetOwn, Goto, IInv, LockerTypeOK
  <2>2. Window(w)' = Window(w)
    BY <2>1 DEF Window
  <2>3. grant'[w] \subseteq grant[w]
    BY <2>1, <2>2 DEF grant
  <2> QED
    BY <1>1, <1>2, <1>3, <2>3, OneWorkersGrant
<1>8. CASE (GetForeign(w) \/ DelKey(w)) /\ lpc'[w] = "get"
  <2>1. lpc[w] \in {"get", "del"} /\ Visited(w)
    BY <1>8 DEF GetForeign, DelKey
  <2>2. Window(w)' \subseteq Window(w) /\ call'[w].givingUp = call[w].givingUp
    BY <1>8, <2>1, VisitedWindow
  <2>3. grant'[w] \subseteq grant[w]
    BY <1>8, <2>1, <2>2 DEF grant
  <2> QED
    BY <1>1, <1>2, <1>3, <2>3, OneWorkersGrant
<1>9. LockerStep(w) => lpc'[w] \in {"idle", "set", "sleep", "failed"}
                       \/ (SetKey(w) /\ lpc'[w] = "held") \/ (SetRefused(w) /\ lpc'[w] = "get")
                       \/ GetOwn(w) \/ ((GetForeign(w) \/ DelKey(w)) /\ lpc'[w] = "get")
  <2>1. SetKey(w) => lpc'[w] \in {"set", "held"}
    BY SetKeyWindow
  <2>2. SetRefused(w) => lpc'[w] \in {"get", "sleep", "failed"}
    BY TryFailedPlace DEF SetRefused, Goto, IInv, LockerTypeOK
  <2>3. GetForeign(w) \/ DelKey(w) => lpc'[w] \in {"idle", "get", "sleep", "failed"}
    BY VisitedWindow DEF GetForeign, DelKey
  <2>4. Wake(w) => lpc'[w] = "set"
    BY DEF Wake, Goto, IInv, LockerTypeOK
  <2> QED
    BY <2>1, <2>2, <2>3, <2>4 DEF LockerStep
<1>10. Rejected(w) \/ Abandon(w) => lpc'[w] = "idle"
  BY DEF Rejected, Abandon, Return, Goto, IInv, LockerTypeOK
<1>11. (\E a, b \in Orders : acquireDualOrderLocks(w, a, b)) => lpc'[w] = "set"
  BY DEF acquireDualOrderLocks, Goto, IInv, LockerTypeOK
<1> QED
  BY <1>4, <1>5, <1>6, <1>7, <1>8, <1>9, <1>10, <1>11

\* Every step of the locker is a step of LockGrants or leaves the handles alone.
LEMMA GrantsNext ==
  ASSUME IInv, IInv', WindowsOwned, WindowsOwned', [LockerNext]_lockerVars
  PROVE  [Grants!Next]_grant
<1>1. CASE UNCHANGED lockerVars
  BY <1>1 DEF lockerVars, grant, Window
<1>2. ASSUME NEW k \in Orders, Expire(k) PROVE [Grants!Next]_grant
  BY <1>2 DEF Expire, grant, Window
<1> QED
  BY <1>1, <1>2, StepGrants DEF LockerNext

\* locker.ts:43-84: as long as no key expires in use, the two-key protocol is an
\* atomic grant of disjoint sets of orders, given back order by order.
THEOREM LockerImplementsGrants ==
  ASSUME ~TtlMayExpire
  PROVE  LockerSpec => ImplementsGrants
<1>1. LockerInit => Grants!Init
  BY DEF LockerInit, Grants!Init, grant
<1>2. IInv /\ IInv' /\ WindowsOwned /\ WindowsOwned' /\ [LockerNext]_lockerVars => [Grants!Next]_grant
  BY GrantsNext
<1>3. LockerSpec => [](IInv /\ WindowsOwned)
  BY WindowsInvariant
<1> QED
  BY <1>1, <1>2, <1>3, PTL DEF LockerSpec, ImplementsGrants, Grants!Spec


----------------------------------------------------------------------------
(* The crossing: the inductive invariant.                                  *)

Profiles == {NoProfile} \cup {Order[o].profile : o \in Orders}
Snapshots == [remaining : Nat, profile : Profiles]
Entries == [maker : Makers \cup {0}, remaining : Nat, profile : Profiles]
AttemptType == [state : AttemptStates, remaining : Nat, filled : Nat, batch : SUBSET Entries,
                progressed : BOOLEAN, entry : Entries, newRemaining : Nat, error : BOOLEAN]

\* The candidate in hand is somebody else's resting order and something is left
\* to fill; what is left is never more than the order.
AttemptOK(a) ==
  LET r == att[a] IN
  /\ r.remaining <= Order[TakerOf[a]].size
  /\ \A e \in r.batch : e.maker \in Makers
  /\ r.state \in {"match", "sync", "release"} =>
       /\ r.entry.maker \in Makers
       /\ Order[r.entry.maker].user # Order[TakerOf[a]].user
  /\ r.state = "match" => r.remaining > 0

TablesOK ==
  /\ row \in [Makers -> Nat]
  /\ trades \in [Takers -> [Makers -> Nat]]
  /\ member \subseteq Makers
  /\ snap \in [Makers -> Snapshots \cup {NoKey}]
  /\ loaded \in [Makers -> Nat]

CrossInv ==
  /\ TablesOK
  /\ att \in [Attempts -> AttemptType]
  /\ \A a \in Attempts : AttemptOK(a)
  /\ NoSelfTrade

\* Takers and makers are orders, and sizes are positive.
LEMMA OrderFacts ==
  /\ \A m \in Makers : m \in Orders /\ Order[m].size \in Nat
  /\ \A a \in Attempts : /\ TakerOf[a] \in Takers /\ TakerOf[a] \in Orders
                         /\ Order[TakerOf[a]].size \in Nat /\ Order[TakerOf[a]].size > 0
  BY OrderIdsAssumption, SizesAssumption, TakerAssumption DEF Attempts

\* The invariant holds before any attempt.
LEMMA InitCross == Init => CrossInv
<1> SUFFICES ASSUME Init PROVE CrossInv
  OBVIOUS
<1>1. TablesOK
  BY OrderFacts DEF Init, TablesOK, Snapshots, Profiles
<1>2. NoAttempt \in AttemptType
  BY DEF NoAttempt, AttemptType, AttemptStates, NoEntry, Entries, Profiles
<1>3. att \in [Attempts -> AttemptType] /\ \A a \in Attempts : att[a] = NoAttempt
  BY <1>2 DEF Init
<1>4. \A a \in Attempts : AttemptOK(a)
  BY <1>3, OrderFacts DEF AttemptOK, NoAttempt
<1>5. NoSelfTrade
  BY DEF Init, NoSelfTrade
<1> QED
  BY <1>1, <1>3, <1>4, <1>5 DEF CrossInv

\* A step of one attempt that trades nothing.
LEMMA FrameCross ==
  ASSUME CrossInv, NEW a \in Attempts, TablesOK', trades' = trades,
         att' \in [Attempts -> AttemptType],
         \A b \in Attempts \ {a} : att'[b] = att[b],
         AttemptOK(a)'
  PROVE  CrossInv'
<1>1. ASSUME NEW b \in Attempts PROVE AttemptOK(b)'
  BY DEF CrossInv, AttemptOK
<1> QED
  BY <1>1 DEF CrossInv, NoSelfTrade

\* Only the state of the attempt changes, or it drops candidates, or what is left.
LEMMA Narrower ==
  ASSUME CrossInv, NEW a \in Attempts, TablesOK', trades' = trades,
         NEW r \in AttemptType, att' = [att EXCEPT ![a] = r],
         r.remaining \in {0, att[a].remaining}, r.batch \subseteq att[a].batch,
         r.entry = att[a].entry,
         r.state \in {"match", "sync", "release"} => att[a].state \in {"match", "sync", "release"},
         r.state # "match"
  PROVE  CrossInv'
<1>1. att[a] \in AttemptType /\ AttemptOK(a)
  BY DEF CrossInv
<1>2. att'[a] = r /\ att' \in [Attempts -> AttemptType] /\ \A b \in Attempts \ {a} : att'[b] = att[b]
  BY DEF CrossInv
<1>3. r.remaining <= Order[TakerOf[a]].size
  BY <1>1, OrderFacts DEF AttemptOK, AttemptType
<1>4. AttemptOK(a)'
  BY <1>1, <1>2, <1>3 DEF AttemptOK
<1> QED
  BY <1>2, <1>4, FrameCross

\* A call begins with the size its order was placed with (engine.ts:84).
LEMMA StartCross ==
  ASSUME CrossInv, NEW a \in Attempts, Start(a)
  PROVE  CrossInv'
<1> DEFINE r == [NoAttempt EXCEPT !.state = "fetch", !.remaining = Order[TakerOf[a]].size]
<1>1. /\ r \in AttemptType /\ r.remaining = Order[TakerOf[a]].size /\ r.batch = {}
      /\ r.state = "fetch"
  BY OrderFacts DEF NoAttempt, NoEntry, AttemptType, AttemptStates, Entries, Profiles
<1>2. att' = [att EXCEPT ![a] = r] /\ UNCHANGED <<row, trades, member, snap, loaded>>
  BY DEF Start
<1> HIDE DEF r
<1>3. att'[a] = r /\ att' \in [Attempts -> AttemptType] /\ \A b \in Attempts \ {a} : att'[b] = att[b]
  BY <1>1, <1>2 DEF CrossInv
<1>4. AttemptOK(a)'
  BY <1>1, <1>3, OrderFacts DEF AttemptOK
<1>5. TablesOK'
  BY <1>2 DEF CrossInv, TablesOK
<1> QED
  BY <1>2, <1>3, <1>4, <1>5, FrameCross

\* The batch getBestOppositeOrders returns names resting orders only (engine.ts:97).
LEMMA FetchCross ==
  ASSUME CrossInv, NEW a \in Attempts, Fetch(a)
  PROVE  CrossInv'
<1> DEFINE hits == Hits(TakerOf[a])
           found == {m \in hits : snap[m] # NoKey}
           batch == {EntryOf(m) : m \in found}
           state == IF found = {} THEN "done" ELSE "scan"
<1>1. found \subseteq Makers
  BY DEF CrossInv, TablesOK, Hits, WithinLimit
<1>2. \A m \in found : EntryOf(m) \in Entries /\ EntryOf(m).maker \in Makers
  BY <1>1 DEF CrossInv, TablesOK, EntryOf, Entries, Snapshots
<1>3. batch \in SUBSET Entries /\ \A e \in batch : e.maker \in Makers
  BY <1>2
<1>4. /\ att' = [att EXCEPT ![a].batch = batch, ![a].progressed = FALSE, ![a].state = state]
      /\ member' = member \ (hits \ found)
      /\ UNCHANGED <<row, trades, snap, loaded>>
  BY DEF Fetch
<1>5. state \in AttemptStates /\ state \in {"done", "scan"}
  BY DEF AttemptStates
<1>6. att[a] \in AttemptType /\ AttemptOK(a)
  BY DEF CrossInv
<1> HIDE DEF batch, state, hits, found
<1>7. /\ att'[a] \in AttemptType /\ att'[a].state = state /\ att'[a].batch = batch
      /\ att'[a].remaining = att[a].remaining /\ \A b \in Attempts \ {a} : att'[b] = att[b]
  BY <1>3, <1>4, <1>5, <1>6 DEF CrossInv, AttemptType
<1>8. att' \in [Attempts -> AttemptType]
  BY <1>4, <1>7 DEF CrossInv
<1>9. AttemptOK(a)'
  BY <1>3, <1>5, <1>6, <1>7 DEF AttemptOK
<1>10. TablesOK'
  BY <1>4 DEF CrossInv, TablesOK
<1> QED
  BY <1>4, <1>7, <1>8, <1>9, <1>10, FrameCross

\* attemptCross between two candidates (engine.ts:110-132, 186-189).
LEMMA ScanCross ==
  ASSUME CrossInv, NEW a \in Attempts,
         \/ \E e \in att[a].batch : SelfTrade(a, e) \/ SkipIneligible(a, e)
         \/ BatchDone(a)
  PROVE  CrossInv'
<1>1. att[a] \in AttemptType /\ UNCHANGED <<row, trades, member, snap, loaded>>
  BY DEF CrossInv, SelfTrade, SkipIneligible, BatchDone
<1>2. TablesOK'
  BY <1>1 DEF CrossInv, TablesOK
<1>3. ASSUME NEW e \in att[a].batch, SelfTrade(a, e) PROVE CrossInv'
  <2> DEFINE r == [att[a] EXCEPT !.remaining = 0, !.batch = {}, !.state = "done"]
  <2>1. att' = [att EXCEPT ![a] = r]
    BY <1>3 DEF SelfTrade, CrossInv
  <2>2. /\ r \in AttemptType /\ r.remaining \in {0, att[a].remaining} /\ r.batch = {}
        /\ r.entry = att[a].entry /\ r.state = "done"
    BY <1>1 DEF AttemptType, AttemptStates
  <2> HIDE DEF r
  <2> QED
    BY <1>1, <1>2, <2>1, <2>2, Narrower
<1>4. ASSUME NEW e \in att[a].batch, SkipIneligible(a, e) PROVE CrossInv'
  <2> DEFINE r == [att[a] EXCEPT !.batch = @ \ {e}]
  <2>1. att' = [att EXCEPT ![a] = r] /\ att[a].state = "scan"
    BY <1>4 DEF SkipIneligible, IsNext, CrossInv
  <2>2. /\ r \in AttemptType /\ r.remaining \in {0, att[a].remaining} /\ r.batch \subseteq att[a].batch
        /\ r.entry = att[a].entry /\ r.state = "scan"
    BY <1>1, <2>1 DEF AttemptType, AttemptStates
  <2> HIDE DEF r
  <2> QED
    BY <1>1, <1>2, <2>1, <2>2, Narrower
<1>5. CASE BatchDone(a)
  <2> DEFINE state == IF att[a].progressed /\ att[a].remaining > 0 THEN "fetch" ELSE "done"
             r == [att[a] EXCEPT !.batch = {}, !.state = state]
  <2>1. att' = [att EXCEPT ![a] = r]
    BY <1>5 DEF BatchDone, CrossInv
  <2>2. state \in AttemptStates /\ state \in {"fetch", "done"}
    BY DEF AttemptStates
  <2> HIDE DEF state
  <2>3. /\ r \in AttemptType /\ r.remaining \in {0, att[a].remaining} /\ r.batch = {}
        /\ r.entry = att[a].entry /\ r.state = state
    BY <1>1, <2>2 DEF AttemptType
  <2> HIDE DEF r
  <2> QED
    BY <1>1, <1>2, <2>1, <2>2, <2>3, Narrower
<1> QED
  BY <1>3, <1>4, <1>5

\* The pair is locked for an order of somebody else (engine.ts:114-158).
LEMMA LockPairCross ==
  ASSUME CrossInv, NEW a \in Attempts, NEW e \in att[a].batch, LockPair(a, e)
  PROVE  CrossInv'
<1>1. att[a] \in AttemptType /\ AttemptOK(a) /\ UNCHANGED <<row, trades, member, snap, loaded>>
  BY DEF CrossInv, LockPair
<1>2. e \in Entries /\ e.maker \in Makers
  BY <1>1 DEF AttemptOK, AttemptType
<1>3. /\ att[a].remaining > 0
      /\ Order[e.maker].user # Order[TakerOf[a]].user
      /\ att' = [att EXCEPT ![a].batch = @ \ {e}, ![a].entry = e, ![a].state = "match"]
  BY DEF LockPair, IsNext
<1>4. /\ att'[a] \in AttemptType /\ att'[a].state = "match" /\ att'[a].batch \subseteq att[a].batch
      /\ att'[a].remaining = att[a].remaining /\ att'[a].entry = e
      /\ \A b \in Attempts \ {a} : att'[b] = att[b]
  BY <1>1, <1>2, <1>3 DEF CrossInv, AttemptType, AttemptStates
<1>5. att' \in [Attempts -> AttemptType]
  BY <1>3, <1>4 DEF CrossInv
<1>6. AttemptOK(a)'
  BY <1>1, <1>2, <1>3, <1>4 DEF AttemptOK
<1>7. TablesOK'
  BY <1>1 DEF CrossInv, TablesOK
<1> QED
  BY <1>1, <1>4, <1>5, <1>6, <1>7, FrameCross

\* A removal or an update of the book, complete or not, leaves snapshots behind.
LEMMA BookTypes ==
  ASSUME CrossInv, NEW m \in Makers, NEW n \in Nat, removeOrder(m) \/ updateRemaining(m, n)
  PROVE  member' \subseteq Makers /\ snap' \in [Makers -> Snapshots \cup {NoKey}]
<1>1. member \subseteq Makers /\ snap \in [Makers -> Snapshots \cup {NoKey}]
  BY DEF CrossInv, TablesOK
<1>2. CASE removeOrder(m)
  BY <1>1, <1>2 DEF removeOrder
<1>3. CASE updateRemaining(m, n)
  <2>1. member' = member
    BY <1>3 DEF updateRemaining
  <2>2. CASE snap[m] # NoKey /\ snap' = [snap EXCEPT ![m].remaining = n]
    <3>1. snap[m] \in Snapshots
      BY <1>1, <2>2
    <3>2. [snap[m] EXCEPT !.remaining = n] \in Snapshots
      BY <3>1 DEF Snapshots
    <3> QED
      BY <1>1, <2>1, <2>2, <3>2
  <2> QED
    BY <1>1, <1>3, <2>1, <2>2 DEF updateRemaining
<1> QED
  BY <1>2, <1>3

\* The steps after a match that trade nothing (engine.ts:159-183, 288-301, 326).
LEMMA SettleCross ==
  ASSUME CrossInv, NEW a \in Attempts,
         \/ LockRefused(a) \/ MakerGone(a) \/ TradeReplay(a) \/ SyncBook(a)
         \/ Released(a) \/ Throw(a)
  PROVE  CrossInv'
<1>1. att[a] \in AttemptType /\ AttemptOK(a) /\ UNCHANGED <<row, trades, loaded>>
  BY DEF CrossInv, LockRefused, MakerGone, TradeReplay, SyncBook, Released, Throw
<1>2. CASE LockRefused(a) \/ Released(a) \/ Throw(a)
  <2> DEFINE state == att'[a].state
             r == [att[a] EXCEPT !.state = state]
  <2>1. att' = [att EXCEPT ![a] = r] /\ state \in {"rejected", "scan"} /\ UNCHANGED <<member, snap>>
    BY <1>1, <1>2 DEF LockRefused, Released, Throw, CrossInv, AttemptType
  <2>2. state \in AttemptStates
    BY <2>1 DEF AttemptStates
  <2> HIDE DEF state
  <2>3. /\ r \in AttemptType /\ r.remaining = att[a].remaining /\ r.batch = att[a].batch
        /\ r.entry = att[a].entry /\ r.state = state
    BY <1>1, <2>2 DEF AttemptType
  <2>4. TablesOK'
    BY <1>1, <2>1 DEF CrossInv, TablesOK
  <2> HIDE DEF r
  <2> QED
    BY <1>1, <2>1, <2>3, <2>4, Narrower
<1>3. CASE MakerGone(a) \/ SyncBook(a)
  <2> DEFINE r == [att[a] EXCEPT !.state = "release"]
  <2>1. /\ att' = [att EXCEPT ![a] = r] /\ att[a].state \in {"match", "sync"}
    BY <1>1, <1>3 DEF MakerGone, SyncBook, Matching, CrossInv
  <2>2. Maker(a) \in Makers /\ att[a].newRemaining \in Nat
    BY <1>1, <2>1 DEF AttemptOK, Maker, AttemptType
  <2>3. removeOrder(Maker(a)) \/ updateRemaining(Maker(a), att[a].newRemaining)
    BY <1>3 DEF MakerGone, SyncBook
  <2>4. TablesOK'
    BY <1>1, <2>2, <2>3, BookTypes DEF CrossInv, TablesOK
  <2>5. /\ r \in AttemptType /\ r.remaining = att[a].remaining /\ r.batch = att[a].batch
        /\ r.entry = att[a].entry /\ r.state = "release"
    BY <1>1 DEF AttemptType, AttemptStates
  <2> HIDE DEF r
  <2> QED
    BY <1>1, <2>1, <2>4, <2>5, Narrower
<1>4. CASE TradeReplay(a)
  <2> DEFINE r == [att[a] EXCEPT !.state = "sync", !.newRemaining = row[Maker(a)]]
  <2>1. /\ att' = [att EXCEPT ![a] = r] /\ att[a].state = "match" /\ UNCHANGED <<member, snap>>
    BY <1>1, <1>4 DEF TradeReplay, Matching, CrossInv
  <2>2. row[Maker(a)] \in Nat
    BY <1>1, <2>1 DEF AttemptOK, Maker, CrossInv, TablesOK
  <2>3. TablesOK'
    BY <1>1, <2>1 DEF CrossInv, TablesOK
  <2>4. /\ r \in AttemptType /\ r.remaining = att[a].remaining /\ r.batch = att[a].batch
        /\ r.entry = att[a].entry /\ r.state = "sync"
    BY <1>1, <2>2 DEF AttemptType, AttemptStates
  <2> HIDE DEF r
  <2> QED
    BY <1>1, <2>1, <2>3, <2>4, Narrower
<1> QED
  BY <1>2, <1>3, <1>4

\* The rows a transaction writes, from a candidate that passed the checks of
\* attemptCross and a maker row that is open (engine.ts:288-305).
LEMMA WriteTradeCross ==
  ASSUME CrossInv, NEW a \in Attempts, Matching(a), WriteTrade(a)
  PROVE  /\ Maker(a) \in Makers
         /\ matchSize(a) \in 1..Order[TakerOf[a]].size
         /\ matchSize(a) <= att[a].remaining /\ matchSize(a) <= row[Maker(a)]
         /\ Ledger!Match(TakerOf[a], Maker(a), matchSize(a))
         /\ row' \in [Makers -> Nat] /\ trades' \in [Takers -> [Makers -> Nat]]
         /\ NoSelfTrade'
<1> DEFINE t == TakerOf[a]
           m == Maker(a)
           q == matchSize(a)
<1>1. /\ att[a] \in AttemptType /\ AttemptOK(a) /\ att[a].state = "match"
      /\ row \in [Makers -> Nat] /\ trades \in [Takers -> [Makers -> Nat]]
  BY DEF CrossInv, TablesOK, Matching
<1>2. /\ m \in Makers /\ t \in Takers /\ Order[m].user # Order[t].user
      /\ att[a].remaining \in Nat /\ att[a].remaining > 0 /\ row[m] \in Nat
      /\ att[a].remaining <= Order[t].size /\ Order[t].size \in Nat
  BY <1>1, OrderFacts DEF AttemptOK, AttemptType, Maker
<1>3. /\ row[m] # 0 /\ trades[t][m] = 0
      /\ trades' = [trades EXCEPT ![t][m] = q]
      /\ row' = [row EXCEPT ![m] = @ - q]
  BY DEF WriteTrade, Closed
<1>4. q = IF att[a].remaining <= row[m] THEN att[a].remaining ELSE row[m]
  BY DEF matchSize
<1> HIDE DEF t, m, q
<1>5. q \in 1..Order[t].size /\ q <= att[a].remaining /\ q <= row[m] /\ q \in Nat /\ row[m] - q \in Nat
  BY <1>2, <1>3, <1>4
<1>6. Ledger!Match(t, m, q)
  BY <1>3, <1>5 DEF Ledger!Match
<1>7. row' \in [Makers -> Nat]
  BY <1>1, <1>3, <1>5
<1>8. trades' \in [Takers -> [Makers -> Nat]]
  BY <1>1, <1>2, <1>3, <1>5
<1>9. NoSelfTrade'
  BY <1>1, <1>2, <1>3 DEF NoSelfTrade, CrossInv
<1> QED
  BY <1>2, <1>5, <1>6, <1>7, <1>8, <1>9 DEF t, m, q

\* COMMIT, acknowledged or not, or no COMMIT at all (engine.ts:285-336, 173-183).
LEMMA CommitCross ==
  ASSUME CrossInv, NEW a \in Attempts, Commit(a) \/ TransactionError(a)
  PROVE  CrossInv'
<1> DEFINE m == Maker(a)
           q == matchSize(a)
<1>1. /\ att[a] \in AttemptType /\ AttemptOK(a) /\ Matching(a) /\ att[a].state = "match"
      /\ UNCHANGED <<member, snap, loaded>>
  BY DEF CrossInv, Commit, TransactionError, Matching
<1>2. WriteTrade(a) \/ UNCHANGED <<row, trades>>
  BY DEF Commit, TransactionError
<1>3. row' \in [Makers -> Nat] /\ trades' \in [Takers -> [Makers -> Nat]] /\ NoSelfTrade'
  BY <1>1, <1>2, WriteTradeCross DEF CrossInv, TablesOK, NoSelfTrade
<1>4. TablesOK'
  BY <1>1, <1>3 DEF CrossInv, TablesOK
<1>5. /\ att'[a] \in AttemptType /\ att'[a].state \in {"sync", "release"}
      /\ att'[a].remaining <= att[a].remaining /\ att'[a].batch = att[a].batch
      /\ att'[a].entry = att[a].entry /\ \A b \in Attempts \ {a} : att'[b] = att[b]
      /\ att' \in [Attempts -> AttemptType]
  <2>1. CASE Commit(a)
    <3>1. WriteTrade(a)
      BY <2>1 DEF Commit
    <3>2. /\ att[a].remaining - q \in Nat /\ att[a].remaining - q <= att[a].remaining
          /\ att[a].filled + q \in Nat
      BY <1>1, <3>1, WriteTradeCross, OrderFacts DEF AttemptType
    <3>3. row'[m] \in Nat
      BY <1>1, <1>3 DEF AttemptOK, Maker
    <3>4. att' = [att EXCEPT ![a].state = "sync", ![a].newRemaining = row'[m],
                             ![a].remaining = @ - q, ![a].filled = @ + q,
                             ![a].progressed = TRUE]
      BY <2>1 DEF Commit
    <3> HIDE DEF m, q
    <3>5. /\ att'[a] \in AttemptType /\ att'[a].state = "sync"
          /\ att'[a].remaining = att[a].remaining - q /\ att'[a].batch = att[a].batch
          /\ att'[a].entry = att[a].entry /\ \A b \in Attempts \ {a} : att'[b] = att[b]
      BY <1>1, <3>2, <3>3, <3>4 DEF CrossInv, AttemptType, AttemptStates
    <3> QED
      BY <3>2, <3>4, <3>5 DEF CrossInv
  <2>2. CASE TransactionError(a)
    <3>1. att' = [att EXCEPT ![a].state = "release", ![a].error = TRUE]
      BY <2>2 DEF TransactionError
    <3>2. /\ att'[a] \in AttemptType /\ att'[a].state = "release"
          /\ att'[a].remaining = att[a].remaining /\ att'[a].batch = att[a].batch
          /\ att'[a].entry = att[a].entry /\ \A b \in Attempts \ {a} : att'[b] = att[b]
      BY <1>1, <3>1 DEF CrossInv, AttemptType, AttemptStates
    <3>3. att[a].remaining <= att[a].remaining
      BY <1>1 DEF AttemptType
    <3> QED
      BY <3>1, <3>2, <3>3 DEF CrossInv
  <2> QED
    BY <2>1, <2>2 DEF Commit, TransactionError
<1>6. att'[a].remaining <= Order[TakerOf[a]].size
  BY <1>1, <1>5, OrderFacts DEF AttemptOK, AttemptType
<1>7. AttemptOK(a)'
  BY <1>1, <1>5, <1>6 DEF AttemptOK
<1>8. ASSUME NEW b \in Attempts PROVE AttemptOK(b)'
  BY <1>5, <1>7 DEF CrossInv, AttemptOK
<1> QED
  BY <1>3, <1>4, <1>5, <1>8 DEF CrossInv

\* The locker's commands, expiry and the rebuild script touch no attempt.
LEMMA EnvironmentCross ==
  ASSUME CrossInv,
         \/ \E a \in Attempts : Locker(a)
         \/ \E k \in Orders : LockExpires(k)
         \/ \E m \in Makers : BookKeyExpires(m) \/ RebuildOrder(m)
         \/ RebuildLoad
         \/ UNCHANGED vars
  PROVE  CrossInv' /\ UNCHANGED <<row, trades>>
<1>1. UNCHANGED <<row, trades, att>>
  BY DEF Locker, LockExpires, crossVars, BookKeyExpires, RebuildOrder, RebuildLoad, vars
<1>2. TablesOK'
  <2>1. TablesOK
    BY DEF CrossInv
  <2>2. CASE UNCHANGED <<member, snap, loaded>>
    BY <1>1, <2>1, <2>2 DEF TablesOK
  <2>3. ASSUME NEW m \in Makers, BookKeyExpires(m) PROVE TablesOK'
    BY <1>1, <2>1, <2>3 DEF TablesOK, BookKeyExpires
  <2>4. ASSUME NEW m \in Makers, RebuildOrder(m) PROVE TablesOK'
    <3>1. [remaining |-> loaded[m], profile |-> NoProfile] \in Snapshots
      BY <2>1 DEF TablesOK, Snapshots, Profiles
    <3> QED
      BY <1>1, <2>1, <2>4, <3>1 DEF TablesOK, RebuildOrder
  <2>5. CASE RebuildLoad
    BY <1>1, <2>1, <2>5 DEF TablesOK, RebuildLoad
  <2> QED
    BY <2>2, <2>3, <2>4, <2>5 DEF Locker, LockExpires, crossVars, vars
<1> QED
  BY <1>1, <1>2 DEF CrossInv, AttemptOK, NoSelfTrade

\* Every step keeps the invariant.
LEMMA NextCross == CrossInv /\ [Next]_vars => CrossInv'
<1> SUFFICES ASSUME CrossInv, [Next]_vars PROVE CrossInv'
  OBVIOUS
<1>1. ASSUME NEW a \in Attempts, Start(a) \/ AttemptStep(a) \/ Throw(a) PROVE CrossInv'
  BY <1>1, StartCross, FetchCross, ScanCross, LockPairCross, SettleCross, CommitCross,
     EnvironmentCross DEF AttemptStep
<1> QED
  BY <1>1, EnvironmentCross DEF Next

\* The inductive invariant holds for ever.
THEOREM CrossInvariant == Spec => []CrossInv
<1> QED
  BY InitCross, NextCross, PTL DEF Spec

\* engine.ts:114-122: no two orders of one user ever trade, whatever the book
\* says, whichever lock expires and wherever attempts stop.
THEOREM NobodyTradesWithThemselves == Spec => []NoSelfTrade
<1>1. CrossInv => NoSelfTrade
  BY DEF CrossInv
<1> QED
  BY <1>1, CrossInvariant, PTL

----------------------------------------------------------------------------
(* The tables only ever change as CrossLedger allows.                      *)

\* Only a match transaction writes internal_orders and trades.
LEMMA LedgerStep ==
  ASSUME CrossInv, [Next]_vars
  PROVE  [Ledger!Next]_<<row, trades>>
<1>1. ASSUME NEW a \in Attempts, Matching(a), WriteTrade(a) PROVE Ledger!Next
  <2> DEFINE SizeOf == [o \in Orders |-> Order[o].size]
  <2>1. /\ TakerOf[a] \in Takers /\ Maker(a) \in Makers
        /\ matchSize(a) \in 1..SizeOf[TakerOf[a]]
        /\ Ledger!Match(TakerOf[a], Maker(a), matchSize(a))
    BY <1>1, WriteTradeCross, OrderFacts
  <2> QED
    BY <2>1 DEF Ledger!Next
<1>2. ASSUME NEW a \in Attempts, Start(a) \/ AttemptStep(a) \/ Throw(a)
      PROVE  UNCHANGED <<row, trades>> \/ (Matching(a) /\ WriteTrade(a))
  BY <1>2 DEF AttemptStep, Start, Fetch, SelfTrade, SkipIneligible, LockPair, LockRefused,
       BatchDone, MakerGone, TradeReplay, Commit, TransactionError, SyncBook, Released,
       Locker, crossVars, Throw
<1> QED
  BY <1>1, <1>2, EnvironmentCross DEF Next

\* engine.ts:268-336: attemptCross implements CrossLedger. A resting order is
\* consumed by whole trades of pairs that have not traded before and never below
\* zero, and no trade exceeds the incoming order, with locks that expire under
\* their owner, a stale book, lost acknowledgements and dying attempts.
THEOREM CrossImplementsLedger == Spec => ImplementsLedger
<1>1. Init => Ledger!Init
  <2> SUFFICES ASSUME Init PROVE Ledger!Init
    OBVIOUS
  <2> QED
    BY OrderFacts DEF Init, Ledger!Init
<1>2. CrossInv /\ [Next]_vars => [Ledger!Next]_<<row, trades>>
  BY LedgerStep
<1> QED
  BY <1>1, <1>2, CrossInvariant, PTL DEF Spec, ImplementsLedger, Ledger!Spec

----------------------------------------------------------------------------
(* attemptCross uses the locker as the locker's own specification expects. *)

\* A step of the engine is a step of the locker or leaves it alone (engine.ts:150-183).
LEMMA LockerUse == CrossInv /\ [Next]_vars => [LockerNext]_lockerVars
<1> SUFFICES ASSUME CrossInv, [Next]_vars PROVE [LockerNext]_lockerVars
  OBVIOUS
<1>1. ASSUME NEW a \in Attempts, NEW e \in att[a].batch, LockPair(a, e) PROVE LockerNext
  <2>1. e.maker \in Orders /\ TakerOf[a] \in Orders
    BY OrderFacts DEF CrossInv, AttemptOK
  <2>2. acquireDualOrderLocks(a, TakerOf[a], e.maker)
    BY <1>1 DEF LockPair
  <2> QED
    BY <2>1, <2>2 DEF LockerNext, Attempts
<1>2. ASSUME NEW a \in Attempts,
             LockRefused(a) \/ MakerGone(a) \/ TransactionError(a) \/ SyncBook(a) \/ Locker(a) \/ Throw(a)
      PROVE  LockerNext \/ UNCHANGED lockerVars
  BY <1>2 DEF LockRefused, MakerGone, TransactionError, SyncBook, Locker, Throw, LockerNext, Attempts
<1>3. ASSUME NEW a \in Attempts,
             \/ Start(a) \/ Fetch(a) \/ BatchDone(a) \/ TradeReplay(a) \/ Commit(a) \/ Released(a)
             \/ \E e \in att[a].batch : SelfTrade(a, e) \/ SkipIneligible(a, e)
      PROVE  UNCHANGED lockerVars
  BY <1>3 DEF Start, Fetch, BatchDone, TradeReplay, Commit, Released, SelfTrade, SkipIneligible
<1>4. ASSUME NEW k \in Orders, LockExpires(k) PROVE LockerNext
  BY <1>4 DEF LockExpires, LockerNext
<1>5. ASSUME NEW m \in Makers, BookKeyExpires(m) \/ RebuildOrder(m) PROVE UNCHANGED lockerVars
  BY <1>5 DEF BookKeyExpires, RebuildOrder
<1>6. RebuildLoad \/ UNCHANGED vars => UNCHANGED lockerVars
  BY DEF RebuildLoad, vars
<1> QED
  BY <1>1, <1>2, <1>3, <1>4, <1>5, <1>6 DEF Next, AttemptStep

\* Whatever the engine does to its orders, its locks stay those of the locker's
\* invariant, and its tables, book and attempts keep their shape (types.ts:29-58).
THEOREM CrossTypeCorrect == Spec => []TypeOK
<1>1. Init => IInv
  BY InitIInv DEF Init
<1>2. CrossInv /\ IInv /\ [Next]_vars => IInv'
  BY LockerUse, NextIInv
<1>3. CrossInv /\ IInv => TypeOK
  <2> SUFFICES ASSUME CrossInv, IInv PROVE TypeOK
    OBVIOUS
  <2>1. ASSUME NEW m \in Makers, snap[m] # NoKey
        PROVE  [snap[m] EXCEPT !.remaining = 0] \in [remaining : {0}, profile : Profiles]
    BY <2>1 DEF CrossInv, TablesOK, Snapshots
  <2>2. \A a \in Attempts :
          /\ att[a].state \in AttemptStates /\ att[a].remaining \in Nat /\ att[a].filled \in Nat
          /\ att[a].entry.maker \in Makers \cup {0}
          /\ \A e \in att[a].batch : e.maker \in Makers
    BY DEF CrossInv, AttemptType, AttemptOK, Entries
  <2>3. LockerTypeOK /\ TablesOK
    BY DEF CrossInv, IInv
  <2> QED
    BY <2>1, <2>2, <2>3 DEF TypeOK, TablesOK, Profiles
<1> QED
  BY <1>1, <1>2, <1>3, CrossInvariant, PTL DEF Spec

\* What is proved of the locker by itself holds under the engine as well: whatever
\* its attempts do to orders, no key of an owner that lives is forgotten and no
\* circle of attempts refuse each other (engine.ts:150-183, locker.ts:43-104).
THEOREM CrossLocksAreSound == Spec => [](NoLeakedLocks /\ NoWaitCycle)
<1>1. Init => IInv
  BY InitIInv DEF Init
<1>2. CrossInv /\ IInv /\ [Next]_vars => IInv'
  BY LockerUse, NextIInv
<1>3. IInv => NoLeakedLocks /\ NoWaitCycle
  BY NoCircle DEF IInv
<1> QED
  BY <1>1, <1>2, <1>3, CrossInvariant, PTL DEF Spec

\* And as long as no key expires in use, an attempt of the engine that holds a pair
\* of orders holds it alone (locker.ts:43-84), whoever died or was refused before.
THEOREM CrossImplementsGrants ==
  ASSUME ~TtlMayExpire
  PROVE  Spec => ImplementsGrants
<1>1. Init => IInv /\ WindowsOwned /\ Grants!Init
  BY InitIInv DEF Init, LockerInit, WindowsOwned, Holds, Grants!Init, grant
<1>2. CrossInv /\ IInv /\ WindowsOwned /\ [Next]_vars => IInv' /\ WindowsOwned'
  BY LockerUse, NextIInv, NextWindows
<1>3. /\ CrossInv /\ IInv /\ WindowsOwned /\ IInv' /\ WindowsOwned' /\ [Next]_vars
      => [Grants!Next]_grant
  BY LockerUse, GrantsNext
<1> QED
  BY <1>1, <1>2, <1>3, CrossInvariant, PTL DEF Spec, ImplementsGrants, Grants!Spec

----------------------------------------------------------------------------
(* Sizes add up, on both sides of a trade.                                 *)

LEMMA SidesAreFinite == IsFiniteSet(Makers) /\ IsFiniteSet(Takers)
BY OrderIdsAssumption, OrdersAssumption, FS_Subset

\* What was filled of an incoming order is the sum of its trades.
LEMMA FilledIsSum ==
  ASSUME TablesOK, NEW t \in Takers
  PROVE  Filled(t) = SumFunctionOnSet(trades[t], Makers) /\ Filled(t) \in Nat
<1>1. trades[t] \in [Makers -> Nat]
  BY DEF TablesOK
<1>2. Filled(t) = SumFunctionOnSet(trades[t], Makers)
  BY <1>1, SumIsOverDomain DEF Filled
<1> QED
  BY <1>1, <1>2, SidesAreFinite, SumOfNaturals

\* A trade adds its size to what the incoming order has filled, and to nothing else.
LEMMA TradeFills ==
  ASSUME CrossInv, NEW a \in Attempts, Matching(a), WriteTrade(a)
  PROVE  /\ Filled(TakerOf[a])' = Filled(TakerOf[a]) + matchSize(a)
         /\ \A t \in Takers \ {TakerOf[a]} : Filled(t)' = Filled(t)
<1> DEFINE t == TakerOf[a]
           m == Maker(a)
           q == matchSize(a)
<1>1. /\ m \in Makers /\ t \in Takers /\ q \in Nat /\ TablesOK
      /\ row' \in [Makers -> Nat] /\ trades' \in [Takers -> [Makers -> Nat]]
  BY WriteTradeCross, OrderFacts DEF CrossInv
<1>2. trades[t][m] = 0 /\ trades' = [trades EXCEPT ![t][m] = q] /\ trades \in [Takers -> [Makers -> Nat]]
  BY <1>1 DEF WriteTrade, TablesOK
<1>3. Filled(t) = SumFunctionOnSet(trades[t], Makers)
  BY <1>1, FilledIsSum
<1>4. Filled(t)' = SumFunctionOnSet(trades'[t], Makers)
  BY <1>1, SumIsOverDomain DEF Filled
<1> HIDE DEF t, m, q
<1>5. /\ trades'[t][m] = q /\ \A n \in Makers \ {m} : trades'[t][n] = trades[t][n]
      /\ \A u \in Takers \ {t} : trades'[u] = trades[u]
      /\ \A n \in Makers : trades[t][n] \in Int /\ trades'[t][n] \in Int
  BY <1>1, <1>2
<1>6. SumFunctionOnSet(trades'[t], Makers) = SumFunctionOnSet(trades[t], Makers) - trades[t][m] + trades'[t][m]
  BY <1>1, <1>5, SidesAreFinite, SumAfterChange
<1>7. Filled(t)' = Filled(t) + q
  BY <1>1, <1>2, <1>3, <1>4, <1>5, <1>6, FilledIsSum
<1>8. \A u \in Takers \ {t} : Filled(u)' = Filled(u)
  BY <1>5 DEF Filled
<1> QED
  BY <1>7, <1>8 DEF t, q

\* The trades of a resting order and what is left of it are its size.
TradedOf(m) == [t \in Takers |-> trades[t][m]]

LEMMA LedgersSum == \A f : Ledger!SumFunction(f) = SumFunctionOnSet(f, DOMAIN f)
BY DEF Ledger!SumFunction, Ledger!SumFunctionOnSet, Ledger!FoldFunctionOnSet, Ledger!MapThenFoldSet,
  SumFunctionOnSet, FoldFunctionOnSet, MapThenFoldSet

LEMMA ConservedIsSum ==
  /\ Ledger!Conserved <=> \A m \in Makers : row[m] + SumFunctionOnSet(TradedOf(m), Takers) = Order[m].size
  /\ Ledger!Conserved' <=> \A m \in Makers : row'[m] + SumFunctionOnSet(TradedOf(m)', Takers) = Order[m].size
<1>1. \A m \in Makers : /\ Ledger!SumFunction([t \in Takers |-> trades[t][m]]) = SumFunctionOnSet(TradedOf(m), Takers)
                        /\ Ledger!SumFunction([t \in Takers |-> trades'[t][m]]) = SumFunctionOnSet(TradedOf(m)', Takers)
  <2> SUFFICES ASSUME NEW m \in Makers
               PROVE  /\ Ledger!SumFunction([t \in Takers |-> trades[t][m]]) = SumFunctionOnSet(TradedOf(m), Takers)
                      /\ Ledger!SumFunction([t \in Takers |-> trades'[t][m]]) = SumFunctionOnSet(TradedOf(m)', Takers)
    OBVIOUS
  <2>1. DOMAIN TradedOf(m) = Takers /\ DOMAIN TradedOf(m)' = Takers
    BY DEF TradedOf
  <2> QED
    BY <2>1, LedgersSum DEF TradedOf
<1>2. \A m \in Makers : [o \in Orders |-> Order[o].size][m] = Order[m].size
  BY OrderFacts
<1> QED
  BY <1>1, <1>2 DEF Ledger!Conserved

LEMMA TradeConserves ==
  ASSUME CrossInv, Ledger!Conserved, NEW a \in Attempts, Matching(a), WriteTrade(a)
  PROVE  Ledger!Conserved'
<1> DEFINE t == TakerOf[a]
           m == Maker(a)
           q == matchSize(a)
<1>1. /\ m \in Makers /\ t \in Takers /\ q \in Nat /\ q <= row[m] /\ TablesOK
      /\ row' \in [Makers -> Nat] /\ trades' \in [Takers -> [Makers -> Nat]]
  BY WriteTradeCross, OrderFacts DEF CrossInv
<1>2. /\ trades[t][m] = 0 /\ trades' = [trades EXCEPT ![t][m] = q] /\ row' = [row EXCEPT ![m] = @ - q]
      /\ row \in [Makers -> Nat] /\ trades \in [Takers -> [Makers -> Nat]]
  BY <1>1 DEF WriteTrade, TablesOK
<1> HIDE DEF t, m, q
<1>3. ASSUME NEW n \in Makers
      PROVE  row'[n] + SumFunctionOnSet(TradedOf(n)', Takers) = Order[n].size
  <2>1. \A u \in Takers : TradedOf(n)[u] = trades[u][n] /\ TradedOf(n)'[u] = trades'[u][n]
    BY DEF TradedOf
  <2>2. row[n] + SumFunctionOnSet(TradedOf(n), Takers) = Order[n].size
    BY ConservedIsSum
  <2>3. CASE n = m
    <3>1. /\ \A u \in Takers : TradedOf(n)[u] \in Int /\ TradedOf(n)'[u] \in Int
          /\ \A u \in Takers \ {t} : TradedOf(n)'[u] = TradedOf(n)[u]
          /\ TradedOf(n)[t] = 0 /\ TradedOf(n)'[t] = q
      BY <1>1, <1>2, <2>1, <2>3
    <3> DEFINE f == TradedOf(n)
               g == TradedOf(n)'
    <3>2. SumFunctionOnSet(g, Takers) = SumFunctionOnSet(f, Takers) - f[t] + g[t]
      <4> HIDE DEF f, g
      <4>1. \A u \in Takers : f[u] \in Int /\ g[u] \in Int
        BY <3>1 DEF f, g
      <4>2. \A u \in Takers \ {t} : g[u] = f[u]
        BY <3>1 DEF f, g
      <4> QED
        BY <1>1, <4>1, <4>2, SidesAreFinite, SumAfterChange
    <3>3. SumFunctionOnSet(TradedOf(n), Takers) \in Int
      BY <3>1, SidesAreFinite, SumIsInteger
    <3>4. row'[n] = row[n] - q /\ row[n] \in Nat
      BY <1>1, <1>2, <2>3
    <3> QED
      BY <1>1, <2>2, <3>1, <3>2, <3>3, <3>4
  <2>4. CASE n # m
    <3>1. TradedOf(n)' = TradedOf(n) /\ row'[n] = row[n]
      BY <1>1, <1>2, <2>4 DEF TradedOf
    <3> QED
      BY <2>2, <3>1
  <2> QED
    BY <2>3, <2>4
<1> QED
  BY <1>3, ConservedIsSum

\* Only a match transaction that is under way writes the tables.
LEMMA OnlyMatchesWrite ==
  ASSUME CrossInv, [Next]_vars
  PROVE  UNCHANGED <<row, trades>> \/ \E a \in Attempts : Matching(a) /\ WriteTrade(a)
<1>1. ASSUME NEW a \in Attempts, Start(a) \/ AttemptStep(a) \/ Throw(a)
      PROVE  UNCHANGED <<row, trades>> \/ (Matching(a) /\ WriteTrade(a))
  BY <1>1 DEF AttemptStep, Start, Fetch, SelfTrade, SkipIneligible, LockPair, LockRefused,
       BatchDone, MakerGone, TradeReplay, Commit, TransactionError, SyncBook, Released,
       Locker, crossVars, Throw
<1> QED
  BY <1>1, EnvironmentCross DEF Next

\* engine.ts:288-304: no unit of a resting order is lost or made up between its
\* row and its trades, whatever expires, dies or is answered too late.
THEOREM MakersAreConserved == Spec => []MakerConserved
<1>1. Init => Ledger!Conserved
  <2> SUFFICES ASSUME Init, NEW m \in Makers
               PROVE  row[m] + SumFunctionOnSet(TradedOf(m), Takers) = Order[m].size
    BY ConservedIsSum
  <2>1. \A t \in Takers : TradedOf(m)[t] = 0
    BY DEF Init, TradedOf
  <2>2. SumFunctionOnSet(TradedOf(m), Takers) = 0
    BY <2>1, SidesAreFinite, SumOfZeros
  <2> QED
    BY <2>2, OrderFacts DEF Init
<1>2. CrossInv /\ Ledger!Conserved /\ [Next]_vars => Ledger!Conserved'
  <2> SUFFICES ASSUME CrossInv, Ledger!Conserved, [Next]_vars PROVE Ledger!Conserved'
    OBVIOUS
  <2>1. CASE UNCHANGED <<row, trades>>
    <3>1. \A m \in Makers : TradedOf(m)' = TradedOf(m) /\ row'[m] = row[m]
      BY <2>1 DEF TradedOf
    <3> QED
      BY <3>1, ConservedIsSum
  <2> QED
    BY <2>1, OnlyMatchesWrite, TradeConserves
<1> QED
  BY <1>1, <1>2, CrossInvariant, PTL DEF Spec, MakerConserved

----------------------------------------------------------------------------
(* What a call fills and reports, when no other call has its order.        *)

OneCallPerOrder == \A a, b \in Attempts : TakerOf[a] = TakerOf[b] => a = b

SelfTraded(a) == \E m \in Makers : Order[m].user = Order[TakerOf[a]].user

\* What a call has counted is what it has traded, until an error it rethrows;
\* the two parts of its order add up, or it has met an order of its own user.
TallyOK(a) ==
  LET r == att[a]
      n == Filled(TakerOf[a])
  IN  /\ n <= Order[TakerOf[a]].size
      /\ r.state = "idle" => n = 0
      /\ r.error => r.state \in {"release", "rejected"}
      /\ r.state \notin {"idle", "rejected"} /\ ~r.error =>
           /\ r.filled = n
           /\ n + r.remaining = Order[TakerOf[a]].size \/ (r.state = "done" /\ r.remaining = 0 /\ SelfTraded(a))

\* Orders no call was made with have filled nothing.
Tallied ==
  /\ \A a \in Attempts : TallyOK(a)
  /\ \A t \in Takers : (\A a \in Attempts : TakerOf[a] # t) => Filled(t) = 0

LEMMA InitTallied == Init => Tallied
<1> SUFFICES ASSUME Init PROVE Tallied
  OBVIOUS
<1>1. ASSUME NEW t \in Takers
      PROVE  Filled(t) = 0
  <2>1. TablesOK /\ \A m \in Makers : trades[t][m] = 0
    BY InitCross DEF Init, CrossInv
  <2> QED
    BY <2>1, FilledIsSum, SidesAreFinite, SumOfZeros
<1>2. \A a \in Attempts : att[a].state = "idle" /\ ~att[a].error
  BY DEF Init, NoAttempt
<1> QED
  BY <1>1, <1>2, OrderFacts DEF Tallied, TallyOK

\* A step without a trade, of one call, that keeps that call's count.
LEMMA TallyStands ==
  ASSUME Tallied, trades' = trades, NEW a \in Attempts,
         \A b \in Attempts \ {a} : att'[b] = att[b],
         TallyOK(a)'
  PROVE  Tallied'
<1>1. \A t \in Takers : Filled(t)' = Filled(t)
  BY DEF Filled
<1>2. ASSUME NEW b \in Attempts PROVE TallyOK(b)'
  <2>1. CASE b # a
    <3>1. TallyOK(b) /\ att'[b] = att[b] /\ Filled(TakerOf[b])' = Filled(TakerOf[b])
      BY <1>1, <2>1, OrderFacts DEF Tallied
    <3> QED
      BY <3>1 DEF TallyOK, SelfTraded
  <2> QED
    BY <2>1
<1> QED
  BY <1>1, <1>2 DEF Tallied

\* The call moves on, and counts what it had counted.
LEMMA CountStands ==
  ASSUME CrossInv, Tallied, trades' = trades, NEW a \in Attempts,
         \A b \in Attempts \ {a} : att'[b] = att[b],
         att[a].state \notin {"idle", "done", "rejected"},
         att'[a].state # "idle",
         att'[a].filled = att[a].filled, att'[a].remaining = att[a].remaining, att'[a].error = att[a].error,
         att[a].error => att'[a].state = "rejected"
  PROVE  Tallied'
<1>1. TallyOK(a) /\ Filled(TakerOf[a])' = Filled(TakerOf[a])
  BY DEF Tallied, Filled
<1>2. TallyOK(a)'
  BY <1>1 DEF TallyOK, SelfTraded
<1> QED
  BY <1>2, TallyStands

\* A trade is counted before anything else is done, or its error ends the call.
LEMMA CommitTallied ==
  ASSUME OneCallPerOrder, CrossInv, Tallied, NEW a \in Attempts, Commit(a) \/ TransactionError(a)
  PROVE  Tallied'
<1> DEFINE t == TakerOf[a]
           q == matchSize(a)
<1>1. /\ att[a] \in AttemptType /\ TallyOK(a) /\ Matching(a) /\ att[a].state = "match" /\ t \in Takers
      /\ ~att[a].error /\ Filled(t) \in Nat /\ Order[t].size \in Nat
  <2>1. att[a].state = "match" /\ Matching(a)
    BY DEF Commit, TransactionError, Matching
  <2> QED
    BY <2>1, OrderFacts, FilledIsSum DEF CrossInv, Tallied, TallyOK, AttemptType
<1>2. att[a].filled = Filled(t) /\ Filled(t) + att[a].remaining = Order[t].size /\ att[a].remaining \in Nat
  BY <1>1 DEF TallyOK, AttemptType
<1>3. ASSUME WriteTrade(a)
      PROVE  /\ Filled(t)' = Filled(t) + q /\ q \in Nat /\ q <= att[a].remaining
             /\ \A u \in Takers \ {t} : Filled(u)' = Filled(u)
  BY <1>1, <1>3, WriteTradeCross, TradeFills, OrderFacts
<1>4. ASSUME UNCHANGED <<row, trades>>
      PROVE  \A u \in Takers : Filled(u)' = Filled(u)
  BY <1>4 DEF Filled
<1>5. \A b \in Attempts \ {a} : att'[b] = att[b]
  BY DEF Commit, TransactionError, CrossInv
<1>6. TallyOK(a)'
  <2>1. CASE Commit(a)
    <3>1. WriteTrade(a)
      BY <2>1 DEF Commit
    <3>2. att'[a].state = "sync" /\ att'[a].filled = att[a].filled + q /\ att'[a].remaining = att[a].remaining - q
          /\ att'[a].error = att[a].error
      BY <1>1, <2>1 DEF Commit, CrossInv, AttemptType
    <3> HIDE DEF q
    <3>3. att'[a].filled = Filled(t)' /\ Filled(t)' + att'[a].remaining = Order[t].size /\ Filled(t)' <= Order[t].size
      BY <1>1, <1>2, <1>3, <3>1, <3>2
    <3> QED
      BY <1>1, <3>2, <3>3 DEF TallyOK
  <2>2. CASE TransactionError(a)
    <3>1. att'[a].state = "release" /\ att'[a].error
      BY <1>1, <2>2 DEF TransactionError, CrossInv, AttemptType
    <3>2. Filled(t)' <= Order[t].size
      <4> HIDE DEF q
      <4>1. CASE WriteTrade(a)
        BY <1>1, <1>2, <1>3, <4>1
      <4>2. CASE UNCHANGED <<row, trades>>
        BY <1>1, <1>2, <1>4, <4>2
      <4> QED
        BY <2>2, <4>1, <4>2 DEF TransactionError
    <3> QED
      BY <3>1, <3>2 DEF TallyOK
  <2> QED
    BY <2>1, <2>2
<1>7. \A u \in Takers \ {t} : Filled(u)' = Filled(u)
  BY <1>3, <1>4 DEF Commit, TransactionError
<1>8. ASSUME NEW b \in Attempts \ {a} PROVE TallyOK(b)'
  <2>1. TakerOf[b] \in Takers \ {t} /\ att'[b] = att[b] /\ TallyOK(b)
    BY <1>5, OrderFacts DEF OneCallPerOrder, Tallied
  <2> QED
    BY <1>7, <2>1 DEF TallyOK, SelfTraded
<1> QED
  BY <1>6, <1>7, <1>8 DEF Tallied

LEMMA AttemptTallied ==
  ASSUME OneCallPerOrder, CrossInv, Tallied, NEW a \in Attempts, Start(a) \/ AttemptStep(a) \/ Throw(a)
  PROVE  Tallied'
<1>1. att[a] \in AttemptType /\ AttemptOK(a) /\ TallyOK(a) /\ Filled(TakerOf[a]) \in Nat /\ Order[TakerOf[a]].size \in Nat
  BY OrderFacts, FilledIsSum DEF CrossInv, Tallied
<1>2. CASE Start(a)
  <2>1. /\ trades' = trades /\ Filled(TakerOf[a]) = 0 /\ \A b \in Attempts \ {a} : att'[b] = att[b]
        /\ att'[a].state = "fetch" /\ att'[a].filled = 0 /\ att'[a].remaining = Order[TakerOf[a]].size /\ ~att'[a].error
    BY <1>1, <1>2 DEF Start, TallyOK, CrossInv, NoAttempt
  <2>2. Filled(TakerOf[a])' = 0
    BY <2>1 DEF Filled
  <2>3. TallyOK(a)'
    BY <1>1, <2>1, <2>2 DEF TallyOK
  <2> QED
    BY <2>1, <2>3, TallyStands
<1>3. ASSUME NEW e \in att[a].batch, SelfTrade(a, e)
      PROVE  Tallied'
  <2>1. /\ trades' = trades /\ (\A b \in Attempts \ {a} : att'[b] = att[b]) /\ att[a].state = "scan"
        /\ att'[a].state = "done" /\ att'[a].filled = att[a].filled /\ att'[a].remaining = 0 /\ att'[a].error = att[a].error
    BY <1>1, <1>3 DEF SelfTrade, IsNext, CrossInv, AttemptType
  <2>2. SelfTraded(a)
    BY <1>1, <1>3 DEF SelfTrade, AttemptOK, SelfTraded
  <2>3. Filled(TakerOf[a])' = Filled(TakerOf[a])
    BY <2>1 DEF Filled
  <2>4. TallyOK(a)'
    BY <1>1, <2>1, <2>2, <2>3 DEF TallyOK, SelfTraded
  <2> QED
    BY <2>1, <2>4, TallyStands
<1>4. ASSUME \/ Fetch(a) \/ LockRefused(a) \/ BatchDone(a) \/ MakerGone(a) \/ TradeReplay(a) \/ SyncBook(a) \/ Released(a)
             \/ Throw(a) \/ \E e \in att[a].batch : SkipIneligible(a, e) \/ LockPair(a, e)
      PROVE  Tallied'
  <2>1. trades' = trades
    BY <1>4 DEF Fetch, LockRefused, BatchDone, MakerGone, TradeReplay, SyncBook, Released, Throw, SkipIneligible, LockPair
  <2>2. \A b \in Attempts \ {a} : att'[b] = att[b]
    BY <1>4 DEF Fetch, LockRefused, BatchDone, MakerGone, TradeReplay, SyncBook, Released, Throw, SkipIneligible,
      LockPair, CrossInv
  <2>3. att[a].state \in {"fetch", "scan", "match", "sync", "release"}
    BY <1>4 DEF Fetch, LockRefused, BatchDone, MakerGone, TradeReplay, SyncBook, Released, Throw, SkipIneligible,
      LockPair, IsNext, Matching
  <2> DEFINE Same == /\ att'[a].filled = att[a].filled /\ att'[a].remaining = att[a].remaining
                     /\ att'[a].error = att[a].error /\ att'[a].state # "idle"
  <2>4. ASSUME Fetch(a) PROVE Same
    BY <1>1, <2>4 DEF Fetch, CrossInv, AttemptType
  <2>5. ASSUME LockRefused(a) \/ MakerGone(a) \/ TradeReplay(a) \/ SyncBook(a) \/ Throw(a) PROVE Same
    BY <1>1, <2>5 DEF LockRefused, MakerGone, TradeReplay, SyncBook, Throw, CrossInv, AttemptType
  <2>6. ASSUME BatchDone(a) PROVE Same
    BY <1>1, <2>6 DEF BatchDone, CrossInv, AttemptType
  <2>7. ASSUME Released(a) PROVE Same
    BY <1>1, <2>7 DEF Released, CrossInv, AttemptType
  <2>8. ASSUME NEW e \in att[a].batch, SkipIneligible(a, e) \/ LockPair(a, e) PROVE Same
    BY <1>1, <2>3, <2>8 DEF SkipIneligible, LockPair, CrossInv, AttemptType
  <2>9. Same
    BY <1>4, <2>4, <2>5, <2>6, <2>7, <2>8
  <2>10. att[a].error => att'[a].state = "rejected"
    <3>1. att[a].error => att[a].state = "release"
      BY <1>1, <2>3 DEF TallyOK
    <3>2. att[a].state = "release" => Released(a) \/ Throw(a)
      BY <1>4 DEF Fetch, LockRefused, BatchDone, MakerGone, TradeReplay, SyncBook, SkipIneligible, LockPair, IsNext, Matching
    <3>3. Released(a) \/ Throw(a) => (att[a].error => att'[a].state = "rejected")
      BY <1>1 DEF Released, Throw, CrossInv, AttemptType
    <3> QED
      BY <3>1, <3>2, <3>3
  <2> QED
    BY <2>1, <2>2, <2>3, <2>9, <2>10, CountStands
<1>5. CASE Locker(a)
  BY <1>1, <1>5, TallyStands DEF Locker, crossVars, Tallied, TallyOK, SelfTraded, Filled
<1> QED
  BY <1>2, <1>3, <1>4, <1>5, CommitTallied DEF AttemptStep

LEMMA NextTallied == OneCallPerOrder /\ CrossInv /\ Tallied /\ [Next]_vars => Tallied'
<1> SUFFICES ASSUME OneCallPerOrder, CrossInv, Tallied, [Next]_vars PROVE Tallied'
  OBVIOUS
<1>1. ASSUME \/ \E k \in Orders : LockExpires(k)
             \/ \E m \in Makers : BookKeyExpires(m) \/ RebuildOrder(m)
             \/ RebuildLoad
             \/ UNCHANGED vars
      PROVE  Tallied'
  <2>1. trades' = trades /\ att' = att
    BY <1>1 DEF LockExpires, crossVars, BookKeyExpires, RebuildOrder, RebuildLoad, vars
  <2> QED
    BY <2>1 DEF Tallied, TallyOK, SelfTraded, Filled
<1> QED
  BY <1>1, AttemptTallied DEF Next

\* engine.ts:84-85: an incoming order, which has no row of its own, is never
\* filled beyond its size, even by a call that dies half-way.
THEOREM TakersAreNotOverfilled ==
  ASSUME OneCallPerOrder
  PROVE  Spec => []TakerNotOverfilled
<1>1. Tallied => TakerNotOverfilled
  <2> SUFFICES ASSUME Tallied, NEW t \in Takers PROVE Filled(t) <= Order[t].size
    BY DEF TakerNotOverfilled
  <2>1. CASE \E a \in Attempts : TakerOf[a] = t
    BY <2>1 DEF Tallied, TallyOK
  <2>2. CASE \A a \in Attempts : TakerOf[a] # t
    <3>1. Order[t].size \in Nat
      BY OrderIdsAssumption, SizesAssumption
    <3> QED
      BY <2>2, <3>1 DEF Tallied
  <2> QED
    BY <2>1, <2>2
<1>2. Tallied /\ CrossInv /\ [Next]_vars => Tallied'
  BY NextTallied
<1> QED
  BY <1>1, <1>2, InitTallied, CrossInvariant, PTL DEF Spec

\* engine.ts:192-196: what a finished call reports is what it has traded.
THEOREM ReportsAreTrue ==
  ASSUME OneCallPerOrder
  PROVE  Spec => []ReportIsTrue
<1>1. Tallied /\ TypeOK => ReportIsTrue
  <2> SUFFICES ASSUME Tallied, TypeOK, NEW a \in Attempts, att[a].state = "done"
               PROVE  /\ att[a].filled = Filled(TakerOf[a])
                      /\ \/ att[a].filled + att[a].remaining = Order[TakerOf[a]].size
                         \/ att[a].remaining = 0 /\ \E m \in Makers : Order[m].user = Order[TakerOf[a]].user
    BY DEF ReportIsTrue
  <2>1. TallyOK(a)
    BY DEF Tallied
  <2> QED
    BY <2>1 DEF TallyOK, SelfTraded
<1>2. Tallied /\ CrossInv /\ [Next]_vars => Tallied'
  BY NextTallied
<1> QED
  BY <1>1, <1>2, InitTallied, CrossInvariant, CrossTypeCorrect, PTL DEF Spec

----------------------------------------------------------------------------
(* The money that pays for the orders (Funding).                           *)

LegRow == [quote : Nat, status : LegStatuses, sent : BOOLEAN, dest : BOOLEAN,
           checked : BOOLEAN, ready : BOOLEAN]
LegRows == [Legs -> LegRow]
LegStates == [Legs -> LegStatuses]

WalletPlaces == {"idle", "replace", "quoted", "hash", "direct", "sent"}
RefreshPlaces == {"leg", "provider", "verify", "apply", "record", "write", "intent", "verified"}
Judging == {"record", "write", "intent"}
PlacesOf(t) ==
  CASE t = "wallet" -> WalletPlaces
    [] t = "cleanup" -> {"idle", "cancel"}
    [] t \in {"user", "watcher"} -> {"idle", "total"} \cup RefreshPlaces

ClientRow ==
  [at : WalletPlaces \cup RefreshPlaces \cup {"total", "cancel"}, l : Nat,
   view : LegRows \cup {<<>>}, states : LegStates \cup {<<>>}, seen : LegStates \cup {<<>>},
   answer : {"-", "DONE", "PENDING", "FAILED"}, received : BOOLEAN, ready : BOOLEAN]

\* What is in the hands of a task where it is.
ClientFits(t, j) ==
  /\ j \in ClientRow /\ j.at \in PlacesOf(t)
  /\ j.at # "idle" => t \in scene.clients
  /\ j.at \in RefreshPlaces \cup {"hash", "direct", "sent"} => j.l \in Legs /\ j.view \in LegRows
  /\ j.at \in RefreshPlaces \cup {"total"} => j.states \in LegStates
  /\ j.at \in Judging => j.seen \in LegStates
  /\ j.at = "provider" => j.answer # "-"

\* What a task has read is older than the rows L, what it knows to be ready has
\* been recorded as ready, and nothing is ready before something was paid.
Known(j, L, P) ==
  /\ j.ready => P # {}
  /\ j.at \in RefreshPlaces \cup {"hash", "direct", "sent"} =>
       \A k \in Legs : j.view[k].quote <= L[k].quote
  /\ j.at = "write" /\ j.ready /\ L[j.l].quote = j.view[j.l].quote => L[j.l].ready
  /\ ~scene.requotes =>
       /\ j.at \in {"write", "intent"} /\ j.ready => L[j.l].ready
       /\ j.at \in RefreshPlaces => \A k \in Legs : j.view[k].status = "READY" => L[k].ready
       /\ j.at \in RefreshPlaces \cup {"total"} =>
            \A k \in Legs : j.states[k] = "READY" => L[k].ready
       /\ j.at \in Judging => \A k \in Legs : j.seen[k] = "READY" => L[k].ready

MoneyFits ==
  /\ scene \in Scenes
  /\ intent \in IntentStatuses /\ old \in BOOLEAN /\ expired \in BOOLEAN
  /\ paid \subseteq Legs \X (1..scene.quotes)
  /\ bridged \subseteq paid /\ credited \subseteq paid
  /\ faults \in 0..MaxFaults

\* The legs are quoted together.
LegsFit ==
  /\ leg \in LegRows
  /\ \A k \in Legs : leg[k].quote \in 0..scene.quotes
  /\ \A k, m \in Legs : leg[k].quote = leg[m].quote
  /\ \A k \in Legs : leg[k].status = "READY" => leg[k].ready
  /\ \A k \in Legs : leg[k].ready => paid # {}

\* An intent that is quoted once is only quoted again before anything is paid.
MayReplace ==
  /\ \A k \in Legs : leg[k].quote < scene.quotes
  /\ ~scene.requotes => paid = {}

AllReady == \A k \in Legs : leg[k].ready
IntentFits == intent = "READY_TO_TRADE" /\ ~scene.requotes => AllReady

ClientsFit ==
  /\ task = [t \in Clients |-> task[t]]
  /\ \A t \in Clients : ClientFits(t, task[t]) /\ Known(task[t], leg, paid)

MoneyInv ==
  /\ MoneyFits /\ LegsFit /\ IntentFits /\ ClientsFit
  /\ task["wallet"].at = "replace" => MayReplace

LEMMA MoneyInvIsEvidence == MoneyInv => ReadyIsEvidenced
BY DEF MoneyInv, MoneyFits, LegsFit, LegRows, LegRow, IntentFits, AllReady,
       ReadyIsEvidenced, FundingTypeOK

LEMMA LegsAreNumbered ==
  ASSUME MoneyFits
  PROVE  /\ Last \in Nat \ {0} /\ Legs = 1..Last
         /\ scene.quotes \in Nat /\ scene.requotes \in BOOLEAN
BY ConstantsAssumption DEF ConstantsFit, MoneyFits, Last, Legs

LEMMA InitMoney == ASSUME FundingInit PROVE MoneyInv
<1>1. MoneyFits
  <2>1. faults \in 0..MaxFaults
    BY ConstantsAssumption DEF FundingInit, ConstantsFit
  <2>2. paid = {} /\ bridged = {} /\ credited = {}
    BY DEF FundingInit
  <2>3. scene \in Scenes /\ old \in BOOLEAN /\ expired \in BOOLEAN /\ intent \in IntentStatuses
    BY DEF FundingInit, IntentStatuses
  <2> QED
    BY <2>1, <2>2, <2>3 DEF MoneyFits
<1>2. scene.quotes \in Nat
  BY <1>1, LegsAreNumbered
<1>3. LegsFit
  <2>1. NoLeg \in LegRow /\ NoLeg.quote = 0 /\ NoLeg.status = "-" /\ ~NoLeg.ready
    BY DEF NoLeg, LegRow, LegStatuses
  <2>2. leg = [l \in Legs |-> NoLeg]
    BY DEF FundingInit
  <2> QED
    BY <1>2, <2>1, <2>2 DEF LegsFit, LegRows
<1>4. \A t \in Clients : task[t] = Idle
  BY DEF FundingInit
<1>5. ClientsFit
  <2>1. Idle \in ClientRow
    BY DEF Idle, ClientRow, WalletPlaces
  <2>2. \A t \in Clients : "idle" \in PlacesOf(t)
    BY DEF Clients, PlacesOf, WalletPlaces
  <2>3. Idle.at = "idle" /\ ~Idle.ready
    BY DEF Idle
  <2>4. \A t \in Clients : ClientFits(t, Idle) /\ Known(Idle, leg, paid)
    BY <2>1, <2>2, <2>3 DEF ClientFits, Known, RefreshPlaces, Judging
  <2> QED
    BY <1>4, <2>4 DEF ClientsFit, FundingInit
<1>6. IntentFits
  BY DEF IntentFits, FundingInit
<1>7. task["wallet"].at = "idle"
  BY <1>4 DEF Clients, Idle
<1> QED
  BY <1>1, <1>3, <1>5, <1>6, <1>7 DEF MoneyInv

\* A step in which the legs stay those they are.
LegsStay ==
  /\ \A k \in Legs : leg'[k].quote = leg[k].quote /\ (leg[k].ready => leg'[k].ready)
  /\ paid \subseteq paid' /\ UNCHANGED scene

LEMMA KnownStays ==
  ASSUME MoneyInv, LegsStay, NEW t \in Clients
  PROVE  Known(task[t], leg', paid')
<1>1. ClientFits(t, task[t]) /\ Known(task[t], leg, paid)
  BY DEF MoneyInv, ClientsFit
<1>2. task[t].at \in {"write", "intent"} => task[t].l \in Legs
  BY <1>1 DEF ClientFits, RefreshPlaces
<1>3. \A k \in Legs : leg'[k].quote = leg[k].quote /\ (leg[k].ready => leg'[k].ready)
  BY DEF LegsStay
<1>4. paid # {} => paid' # {}
  BY DEF LegsStay
<1> QED
  BY <1>1, <1>2, <1>3, <1>4 DEF Known

\* One task moves to j, or none if j is where it was.
ClientMoves(t, j) ==
  /\ task' = [task EXCEPT ![t] = j]
  /\ ClientFits(t, j) /\ Known(j, leg', paid')
  /\ t = "wallet" /\ j.at = "replace" => MayReplace'

LEMMA ClientStepKeeps ==
  ASSUME MoneyInv, NEW t \in Clients, NEW j, ClientMoves(t, j), LegsStay,
         MoneyFits', LegsFit', IntentFits',
         task["wallet"].at = "replace" => paid' = paid
  PROVE  MoneyInv'
<1>1. task'[t] = j /\ \A b \in Clients \ {t} : task'[b] = task[b]
  BY DEF MoneyInv, ClientsFit, ClientMoves
<1>2. task' = [b \in Clients |-> task'[b]]
  BY DEF MoneyInv, ClientsFit, ClientMoves
<1>3. ASSUME NEW b \in Clients PROVE (ClientFits(b, task[b]) /\ Known(task[b], leg, paid))'
  <2>1. ClientFits(b, task'[b]) /\ Known(task'[b], leg', paid')
    <3>1. CASE b = t
      BY <1>1, <3>1 DEF ClientMoves
    <3>2. CASE b # t
      BY <1>1, <3>2, KnownStays DEF MoneyInv, ClientsFit
    <3> QED
      BY <3>1, <3>2
  <2>2. scene' = scene
    BY DEF LegsStay
  <2> QED
    BY <2>1, <2>2 DEF ClientFits, Known, ClientRow, LegRows, LegStates, Legs
<1>4. task'["wallet"].at = "replace" => MayReplace'
  <2>1. "wallet" \in Clients
    BY DEF Clients
  <2>2. CASE t = "wallet"
    BY <1>1, <2>2 DEF ClientMoves
  <2>3. CASE t # "wallet"
    <3>1. task'["wallet"] = task["wallet"]
      BY <1>1, <2>1, <2>3
    <3>2. task["wallet"].at = "replace" => MayReplace /\ paid' = paid
      BY DEF MoneyInv
    <3> QED
      BY <3>1, <3>2 DEF MayReplace, LegsStay, Legs
  <2> QED
    BY <2>2, <2>3
<1> QED
  BY <1>2, <1>3, <1>4 DEF MoneyInv, ClientsFit

\* What a client has in its hands.
LEMMA AtHand ==
  ASSUME MoneyInv, NEW t \in Clients
  PROVE  ClientFits(t, task[t]) /\ Known(task[t], leg, paid) /\ task[t] \in ClientRow
BY DEF MoneyInv, ClientsFit, ClientFits

\* An intent is ready when all its legs are, and that alone is what it is computed
\* from; it is never computed that an intent is gone.
LEMMA aggregateIsAStatus ==
  ASSUME MoneyFits, NEW s
  PROVE  /\ aggregateFundingStatus(s) \in IntentStatuses \ {"CANCELLED", "DELETED"}
         /\ aggregateFundingStatus(s) = "READY_TO_TRADE" => \A k \in Legs : s[k] = "READY"
BY DEF aggregateFundingStatus, All, IntentStatuses

\* The rows of the legs may change in a step in which they stay those they are.
LegsChange ==
  /\ leg' \in LegRows /\ LegsStay
  /\ \A k \in Legs : leg'[k].status = "READY" => leg'[k].ready
  /\ \A k \in Legs : leg'[k].ready => paid' # {}

LEMMA LegsDoFit == ASSUME MoneyInv, LegsChange PROVE LegsFit'
<1>1. LegsFit /\ UNCHANGED scene /\ UNCHANGED <<scene.quotes, Legs>>
  BY DEF MoneyInv, LegsChange, LegsStay, Legs
<1>2. LegRows' = LegRows
  BY <1>1 DEF LegRows, LegRow
<1>3. \A k \in Legs : leg'[k].quote = leg[k].quote
  BY DEF LegsChange, LegsStay
<1> QED
  BY <1>1, <1>2, <1>3 DEF LegsFit, LegsChange

LEMMA SameLegsChange ==
  ASSUME MoneyInv, leg' = leg, UNCHANGED scene, paid \subseteq paid'
  PROVE  LegsChange
BY DEF MoneyInv, LegsFit, LegsChange, LegsStay

\* The intent is left alone, or given a status that it may have.
IntentMay(s) ==
  \/ UNCHANGED <<intent, old>>
  \/ /\ updateIntentStatus(s) /\ s \in IntentStatuses
     /\ s = "READY_TO_TRADE" /\ ~scene.requotes => AllReady

LEMMA IntentDoesFit ==
  ASSUME MoneyInv, LegsStay, NEW s, IntentMay(s)
  PROVE  IntentFits' /\ intent' \in IntentStatuses /\ old' \in BOOLEAN
<1>1. AllReady => AllReady'
  BY DEF LegsStay, AllReady, Legs
<1>2. UNCHANGED scene /\ IntentFits /\ intent \in IntentStatuses /\ old \in BOOLEAN
  BY DEF MoneyInv, MoneyFits, LegsStay
<1>3. CASE UNCHANGED <<intent, old>>
  BY <1>1, <1>2, <1>3 DEF IntentFits
<1>4. CASE updateIntentStatus(s) /\ s \in IntentStatuses /\ (s = "READY_TO_TRADE" /\ ~scene.requotes => AllReady)
  BY <1>1, <1>2, <1>4 DEF IntentFits, updateIntentStatus
<1> QED
  BY <1>3, <1>4 DEF IntentMay

\* A step of a client's: it moves, the rows of the legs and the intent may change.
LEMMA ClientKeeps ==
  ASSUME MoneyInv, NEW t \in Clients, NEW j, NEW s,
         Become(t, j), ClientFits(t, j), Known(j, leg', paid),
         t = "wallet" /\ j.at = "replace" => MayReplace /\ leg' = leg,
         LegsChange, IntentMay(s), UNCHANGED world,
         expired' \in BOOLEAN, faults' \in 0..MaxFaults
  PROVE  MoneyInv'
<1>1. LegsStay /\ UNCHANGED <<scene, paid, bridged, credited>>
  BY DEF LegsChange, LegsStay, world
<1>2. LegsFit' /\ IntentFits' /\ intent' \in IntentStatuses /\ old' \in BOOLEAN
  BY <1>1, LegsDoFit, IntentDoesFit
<1>3. MoneyFits'
  BY <1>1, <1>2 DEF MoneyInv, MoneyFits, Legs, IntentStatuses
<1>4. t = "wallet" /\ j.at = "replace" => MayReplace'
  BY <1>1 DEF MayReplace, Legs
<1>5. ClientMoves(t, j)
  BY <1>1, <1>4 DEF ClientMoves, Become
<1> QED
  BY <1>1, <1>2, <1>3, <1>5, ClientStepKeeps

\* A step in which nothing but a client moves.
LEMMA MoveKeeps ==
  ASSUME MoneyInv, NEW t \in Clients, NEW j,
         Become(t, j), ClientFits(t, j), Known(j, leg, paid),
         t = "wallet" /\ j.at = "replace" => MayReplace,
         UNCHANGED <<scene, rows, world>>, faults' \in 0..MaxFaults
  PROVE  MoneyInv'
<1>1. leg' = leg /\ paid' = paid /\ UNCHANGED <<scene, intent, old, expired>>
  BY DEF rows, world
<1>2. LegsChange /\ IntentMay(intent) /\ expired' \in BOOLEAN
  BY <1>1, SameLegsChange DEF IntentMay, MoneyInv, MoneyFits
<1> QED
  BY <1>1, <1>2, ClientKeeps

LEMMA FaultsStay == ASSUME MoneyInv, Fault \/ NoFault PROVE faults' \in 0..MaxFaults
<1>1. faults \in 0..MaxFaults /\ MaxFaults \in Nat
  BY ConstantsAssumption DEF MoneyInv, MoneyFits, ConstantsFit
<1> QED
  BY <1>1 DEF Fault, NoFault

\* A client that is done has nothing.
LEMMA IdleFits == ASSUME NEW t \in Clients PROVE ClientFits(t, Idle) /\ \A L, P : Known(Idle, L, P)
<1>1. Idle \in ClientRow
  BY DEF Idle, ClientRow, WalletPlaces
<1>2. "idle" \in PlacesOf(t)
  BY DEF Clients, PlacesOf, WalletPlaces
<1>3. Idle.at = "idle" /\ ~Idle.ready
  BY DEF Idle
<1> QED
  BY <1>1, <1>2, <1>3 DEF ClientFits, Known, RefreshPlaces, Judging

(* The wallet. *)

LEMMA WalletIsClient == "wallet" \in Clients /\ "user" \in Clients /\ "watcher" \in Clients /\ "cleanup" \in Clients
BY DEF Clients

LEMMA QuoteIntentKeeps == ASSUME MoneyInv, QuoteIntent PROVE MoneyInv'
<1> DEFINE j == [task["wallet"] EXCEPT !.at = "replace"]
<1>1. task["wallet"] \in ClientRow /\ ClientFits("wallet", task["wallet"]) /\ Known(task["wallet"], leg, paid)
  BY AtHand, WalletIsClient
<1>2. Become("wallet", j) /\ UNCHANGED <<scene, rows, world, faults>> /\ At("wallet", "idle")
  BY DEF QuoteIntent, Proceed
<1>3. j \in ClientRow /\ j.at = "replace" /\ j.ready = task["wallet"].ready
  BY <1>1 DEF ClientRow, WalletPlaces
<1>4. MayReplace
  BY DEF QuoteIntent, Quotes, MoneyInv, LegsFit, MayReplace
<1> HIDE DEF j
<1>5. ClientFits("wallet", j) /\ Known(j, leg, paid)
  BY <1>1, <1>2, <1>3 DEF ClientFits, Known, At, RefreshPlaces, Judging, PlacesOf, WalletPlaces
<1>6. faults' \in 0..MaxFaults
  BY <1>2 DEF MoneyInv, MoneyFits
<1> QED
  BY <1>2, <1>4, <1>5, <1>6, MoveKeeps, WalletIsClient

\* With a new quote the rows are new ones: nothing that is known of the old ones
\* holds of them, and of an intent that is quoted once nothing is known yet.
LEMMA QuoteReplaces ==
  ASSUME MoneyInv, MayReplace, UNCHANGED <<scene, paid>>, NEW t \in Clients,
         leg' = [l \in Legs |-> NewLeg(leg[l].quote + 1)]
  PROVE  Known(task[t], leg', paid)
<1>1. ClientFits(t, task[t]) /\ Known(task[t], leg, paid)
  BY AtHand
<1>2. \A k \in Legs : leg'[k].quote = leg[k].quote + 1 /\ leg[k].quote \in Nat
  BY DEF NewLeg, NoLeg, MoneyInv, LegsFit, LegRows, LegRow
<1>3. ~scene.requotes => paid = {} /\ \A k \in Legs : ~leg[k].ready
  BY DEF MayReplace, MoneyInv, LegsFit
<1>4. task[t].at \in RefreshPlaces \cup {"hash", "direct", "sent"} =>
        task[t].l \in Legs /\ \A k \in Legs : task[t].view[k].quote \in Nat /\ task[t].view[k].quote <= leg[k].quote
  BY <1>1 DEF ClientFits, Known, LegRows, LegRow
<1>5. task[t].at \in RefreshPlaces \cup {"hash", "direct", "sent"} =>
        \A k \in Legs : task[t].view[k].quote <= leg'[k].quote /\ leg'[k].quote # task[t].view[k].quote
  BY <1>2, <1>4
<1>6. "write" \in RefreshPlaces
  BY DEF RefreshPlaces
<1> HIDE DEF RefreshPlaces
<1>7. ~scene.requotes => ~task[t].ready
  BY <1>1, <1>3 DEF Known
<1>8. ~scene.requotes =>
        /\ task[t].at \in RefreshPlaces => \A k \in Legs : task[t].view[k].status # "READY"
        /\ task[t].at \in RefreshPlaces \cup {"total"} => \A k \in Legs : task[t].states[k] # "READY"
        /\ task[t].at \in Judging => \A k \in Legs : task[t].seen[k] # "READY"
  BY <1>1, <1>3 DEF Known
<1>9. task[t].ready => paid # {}
  BY <1>1 DEF Known
<1> QED
  BY <1>4, <1>5, <1>6, <1>7, <1>8, <1>9 DEF Known

LEMMA replaceRouteLegsKeeps == ASSUME MoneyInv, replaceRouteLegs PROVE MoneyInv'
<1>1. At("wallet", "replace") /\ UNCHANGED <<scene, intent, old, world, faults>> /\ MayReplace
  BY DEF replaceRouteLegs, At, MoneyInv
<1>2. faults' \in 0..MaxFaults /\ expired \in BOOLEAN
  BY <1>1 DEF MoneyInv, MoneyFits
<1>3. CASE intent = "DELETED"
  <2>1. Become("wallet", Idle) /\ UNCHANGED <<leg, expired>>
    BY <1>3 DEF replaceRouteLegs, End
  <2>2. Idle.at # "replace"
    BY DEF Idle
  <2> QED
    BY <1>1, <1>2, <2>1, <2>2, MoveKeeps, IdleFits, WalletIsClient DEF rows
<1>4. CASE intent # "DELETED"
  <2> DEFINE j == [task["wallet"] EXCEPT !.at = "quoted"]
  <2>1. /\ leg' = [l \in Legs |-> NewLeg(leg[l].quote + 1)]
        /\ expired' = FALSE /\ task' = [task EXCEPT !["wallet"] = j]
    BY <1>4 DEF replaceRouteLegs, Proceed, Become
  <2>2. UNCHANGED <<scene, paid, bridged, credited, Legs>>
    BY <1>1 DEF world, Legs
  <2>3. LegsFit'
    <3>1. \A k \in Legs : leg[k].quote \in Nat /\ leg[k].quote + 1 \in Nat /\ leg[k].quote + 1 \in 0..scene.quotes
      BY <1>1, LegsAreNumbered DEF MayReplace, MoneyInv, LegsFit, LegRows, LegRow
    <3>2. ASSUME NEW q \in Nat
          PROVE  NewLeg(q) \in LegRow /\ NewLeg(q).quote = q /\ NewLeg(q).status # "READY" /\ ~NewLeg(q).ready
      BY DEF NewLeg, NoLeg, LegRow, LegStatuses
    <3>3. leg' \in LegRows /\ \A k \in Legs : /\ leg'[k].quote = leg[k].quote + 1
                                              /\ leg'[k].status # "READY" /\ ~leg'[k].ready
      BY <2>1, <3>1, <3>2 DEF LegRows
    <3>4. \A k, m \in Legs : leg[k].quote = leg[m].quote
      BY DEF MoneyInv, LegsFit
    <3>5. LegRows' = LegRows
      BY <2>2 DEF LegRows, LegRow
    <3> QED
      BY <2>2, <3>1, <3>3, <3>4, <3>5 DEF LegsFit
  <2>4. IntentFits'
    <3>1. ~scene.requotes => ~AllReady
      BY <1>1, LegsAreNumbered DEF MayReplace, MoneyInv, LegsFit, AllReady
    <3> QED
      BY <1>1, <3>1 DEF MoneyInv, IntentFits
  <2>5. MoneyFits'
    BY <1>1, <1>2, <2>1, <2>2 DEF MoneyInv, MoneyFits, IntentStatuses
  <2>6. task["wallet"] \in ClientRow /\ ClientFits("wallet", task["wallet"]) /\ Known(task["wallet"], leg', paid)
    BY <1>1, <2>1, <2>2, AtHand, QuoteReplaces, WalletIsClient
  <2>7. j \in ClientRow /\ j.at = "quoted" /\ j.ready = task["wallet"].ready
    BY <2>6 DEF ClientRow, WalletPlaces
  <2> HIDE DEF j
  <2>8. ClientFits("wallet", j) /\ Known(j, leg', paid)
    BY <1>1, <2>6, <2>7 DEF ClientFits, Known, At, RefreshPlaces, Judging, PlacesOf, WalletPlaces
  <2>9. ClientsFit'
    <3>1. ASSUME NEW b \in Clients PROVE ClientFits(b, task'[b]) /\ Known(task'[b], leg', paid')
      <4>1. CASE b = "wallet"
        BY <2>1, <2>2, <2>8, <4>1 DEF MoneyInv, ClientsFit
      <4>2. CASE b # "wallet"
        <5>1. task'[b] = task[b]
          BY <2>1, <4>2 DEF MoneyInv, ClientsFit
        <5> QED
          BY <1>1, <2>1, <2>2, <5>1, AtHand, QuoteReplaces
      <4> QED
        BY <4>1, <4>2
    <3>2. task' = [b \in Clients |-> task'[b]]
      BY <2>1 DEF MoneyInv, ClientsFit
    <3> QED
      BY <1>1, <2>2, <3>1, <3>2 DEF ClientsFit, ClientFits, Known, ClientRow, LegRows, LegStates
  <2>10. task'["wallet"].at # "replace"
    BY <2>1, <2>7, WalletIsClient DEF MoneyInv, ClientsFit
  <2> QED
    BY <2>3, <2>4, <2>5, <2>9, <2>10 DEF MoneyInv
<1> QED
  BY <1>3, <1>4

LEMMA QuoteEndsKeeps == ASSUME MoneyInv, QuoteEnds PROVE MoneyInv'
<1>1. Become("wallet", Idle) /\ UNCHANGED <<scene, expired, leg, world, faults>>
  BY DEF QuoteEnds, End
<1>2. LegsChange
  BY <1>1, SameLegsChange DEF world
<1>3. IntentMay("USER_SIGNATURE_REQUIRED")
  BY DEF QuoteEnds, IntentMay, IntentStatuses
<1>4. expired' \in BOOLEAN /\ faults' \in 0..MaxFaults
  BY <1>1 DEF MoneyInv, MoneyFits
<1>5. ClientFits("wallet", Idle) /\ Known(Idle, leg', paid) /\ Idle.at # "replace"
  BY IdleFits, WalletIsClient DEF Idle
<1> QED
  BY <1>1, <1>2, <1>3, <1>4, <1>5, ClientKeeps, WalletIsClient

LEMMA SubmitRouteLegKeeps ==
  ASSUME MoneyInv, NEW l \in Legs, SubmitRouteLeg(l) PROVE MoneyInv'
<1> DEFINE j == [Idle EXCEPT !.at = "hash", !.l = l, !.view = leg]
<1>1. Become("wallet", j) /\ UNCHANGED <<scene, rows, world, faults>> /\ At("wallet", "idle")
  BY DEF SubmitRouteLeg
<1>2. l \in Nat /\ leg \in LegRows
  BY LegsAreNumbered DEF MoneyInv, LegsFit
<1>3. j \in ClientRow /\ j.at = "hash" /\ j.l = l /\ j.view = leg /\ ~j.ready
  BY <1>2 DEF ClientRow, WalletPlaces, Idle
<1> HIDE DEF j
<1>4. \A k \in Legs : leg[k].quote <= leg[k].quote
  BY <1>2 DEF LegRows, LegRow
<1>5. ClientFits("wallet", j) /\ Known(j, leg, paid)
  BY <1>1, <1>2, <1>3, <1>4 DEF ClientFits, Known, At, RefreshPlaces, Judging, PlacesOf, WalletPlaces
<1>6. faults' \in 0..MaxFaults
  BY <1>1 DEF MoneyInv, MoneyFits
<1> QED
  BY <1>1, <1>3, <1>5, <1>6, MoveKeeps, WalletIsClient

LEMMA SubmittedIsPending == ASSUME NEW l PROVE Submitted(l) \in LegStatuses \ {"READY"}
BY DEF Submitted, LegStatuses

\* A leg that this client may write gets a status other than READY.
LEMMA PendingLegChanges ==
  ASSUME MoneyInv, UNCHANGED scene, paid \subseteq paid', NEW l \in Legs, NEW r \in LegRow,
         r.quote = leg[l].quote, r.status # "READY", r.ready = leg[l].ready,
         leg' = [leg EXCEPT ![l] = r]
  PROVE  LegsChange
<1>1. leg \in LegRows /\ leg' \in LegRows
  BY DEF MoneyInv, LegsFit, LegRows
<1>2. \A k \in Legs : leg'[k] = IF k = l THEN r ELSE leg[k]
  BY <1>1 DEF LegRows
<1> QED
  BY <1>1, <1>2 DEF LegsChange, LegsStay, MoneyInv, LegsFit

LEMMA WalletGoesOn ==
  ASSUME MoneyInv, NEW place \in {"direct", "sent"}, NEW from \in {"hash", "direct"}, At("wallet", from),
         Proceed("wallet", place), UNCHANGED <<scene, intent, old, expired, world, faults>>, LegsChange
  PROVE  MoneyInv'
<1> DEFINE r == task["wallet"]
           j == [r EXCEPT !.at = place]
<1>1. r \in ClientRow /\ ClientFits("wallet", r) /\ Known(r, leg', paid) /\ r.at = from
  BY AtHand, WalletIsClient, KnownStays DEF At, LegsChange, world
<1> HIDE DEF r
<1>2. /\ j \in ClientRow /\ j.at = place /\ j.l = r.l /\ j.view = r.view /\ j.states = r.states
      /\ j.seen = r.seen /\ j.ready = r.ready
  BY <1>1 DEF ClientRow, WalletPlaces
<1>3. Become("wallet", j)
  BY DEF Proceed, r
<1> HIDE DEF j
<1>4. ClientFits("wallet", j) /\ Known(j, leg', paid)
  BY <1>1, <1>2 DEF ClientFits, Known, RefreshPlaces, Judging, PlacesOf, WalletPlaces
<1>5. faults' \in 0..MaxFaults /\ expired' \in BOOLEAN /\ IntentMay(intent)
  BY DEF MoneyInv, MoneyFits, IntentMay
<1> QED
  BY <1>2, <1>3, <1>4, <1>5, ClientKeeps, WalletIsClient

LEMMA updateRouteLegSubmissionKeeps == ASSUME MoneyInv, updateRouteLegSubmission PROVE MoneyInv'
<1> DEFINE l == task["wallet"].l
<1>1. At("wallet", "hash") /\ UNCHANGED <<scene, intent, old, expired, world, faults>>
  BY DEF updateRouteLegSubmission
<1>2. l \in Legs
  BY <1>1, AtHand, WalletIsClient DEF At, ClientFits
<1>3. leg[l] \in LegRow
  BY <1>2 DEF MoneyInv, LegsFit, LegRows
<1>4. LegsChange
  <2>1. CASE ~Exists("wallet")
    BY <1>1, <2>1, SameLegsChange DEF updateRouteLegSubmission, world
  <2>2. CASE Exists("wallet")
    <3> DEFINE r == [leg[l] EXCEPT !.sent = TRUE, !.status = Submitted(l)]
    <3>1. leg' = [leg EXCEPT ![l] = r]
      BY <1>2, <2>2 DEF updateRouteLegSubmission, MoneyInv, LegsFit, LegRows
    <3>2. r \in LegRow /\ r.quote = leg[l].quote /\ r.status # "READY" /\ r.ready = leg[l].ready
      BY <1>3, SubmittedIsPending DEF LegRow
    <3> HIDE DEF r
    <3> QED
      BY <1>1, <1>2, <3>1, <3>2, PendingLegChanges DEF world
  <2> QED
    BY <2>1, <2>2
<1>5. \E place \in {"direct", "sent"} : Proceed("wallet", place)
  BY DEF updateRouteLegSubmission
<1> QED
  BY <1>1, <1>4, <1>5, WalletGoesOn

LEMMA SubmitDirectKeeps == ASSUME MoneyInv, SubmitDirect PROVE MoneyInv'
<1> DEFINE l == task["wallet"].l
<1>1. At("wallet", "direct") /\ UNCHANGED <<scene, intent, old, expired, world, faults>>
  BY DEF SubmitDirect
<1>2. l \in Legs
  BY <1>1, AtHand, WalletIsClient DEF At, ClientFits
<1>3. leg[l] \in LegRow
  BY <1>2 DEF MoneyInv, LegsFit, LegRows
<1>4. LegsChange
  <2>1. CASE ~Exists("wallet")
    BY <1>1, <2>1, SameLegsChange DEF SubmitDirect, world
  <2>2. CASE Exists("wallet")
    <3> DEFINE r == [leg[l] EXCEPT !.status = "CREDIT_PENDING"]
    <3>1. leg' = [leg EXCEPT ![l] = r]
      BY <1>2, <2>2 DEF SubmitDirect, MoneyInv, LegsFit, LegRows
    <3>2. r \in LegRow /\ r.quote = leg[l].quote /\ r.status # "READY" /\ r.ready = leg[l].ready
      BY <1>3 DEF LegRow, LegStatuses
    <3> HIDE DEF r
    <3> QED
      BY <1>1, <1>2, <3>1, <3>2, PendingLegChanges DEF world
  <2> QED
    BY <2>1, <2>2
<1> QED
  BY <1>1, <1>4, WalletGoesOn DEF SubmitDirect

LEMMA SubmitEndsKeeps == ASSUME MoneyInv, SubmitEnds PROVE MoneyInv'
<1> DEFINE l == task["wallet"].l
           s == [Statuses(task["wallet"].view) EXCEPT ![l] = Submitted(l)]
<1>1. Become("wallet", Idle) /\ UNCHANGED <<scene, expired, leg, world, faults>> /\ At("wallet", "sent")
  BY DEF SubmitEnds, End
<1>2. l \in Legs
  BY <1>1, AtHand, WalletIsClient DEF At, ClientFits
<1>3. s[l] # "READY"
  BY <1>2, SubmittedIsPending DEF Statuses
<1>4. updateIntentStatus(aggregateFundingStatus(s))
  BY DEF SubmitEnds
<1> HIDE DEF s
<1>5. IntentMay(aggregateFundingStatus(s))
  BY <1>2, <1>3, <1>4, aggregateIsAStatus DEF IntentMay, MoneyInv
<1>6. LegsChange
  BY <1>1, SameLegsChange DEF world
<1>7. expired' \in BOOLEAN /\ faults' \in 0..MaxFaults
  BY <1>1 DEF MoneyInv, MoneyFits
<1>8. ClientFits("wallet", Idle) /\ Known(Idle, leg', paid) /\ Idle.at # "replace"
  BY IdleFits, WalletIsClient DEF Idle
<1> QED
  BY <1>1, <1>5, <1>6, <1>7, <1>8, ClientKeeps, WalletIsClient

(* A refresh, asked for by the user or by the watcher. *)
Askers == {"user", "watcher"}

LEMMA AskersAreClients ==
  ASSUME NEW t \in Askers
  PROVE  t \in Clients /\ t # "wallet" /\ PlacesOf(t) = {"idle", "total"} \cup RefreshPlaces
BY DEF Askers, Clients, PlacesOf

LEMMA StartsToRefresh == ASSUME MoneyInv, NEW t \in Askers, RefreshIntentStatus(t) PROVE MoneyInv'
<1> DEFINE j == [Idle EXCEPT !.at = "leg", !.l = 1, !.view = leg, !.states = Statuses(leg)]
<1>1. Become(t, j) /\ UNCHANGED <<scene, rows, world, faults>> /\ At(t, "idle")
  BY DEF RefreshIntentStatus
<1>2. 1 \in Legs /\ leg \in LegRows
  BY LegsAreNumbered DEF MoneyInv, LegsFit
<1>3. Statuses(leg) \in LegStates /\ \A k \in Legs : Statuses(leg)[k] = leg[k].status
  BY <1>2 DEF Statuses, LegStates, LegRows, LegRow
<1>4. /\ j \in ClientRow /\ j.at = "leg" /\ j.l = 1 /\ j.view = leg /\ j.states = Statuses(leg) /\ ~j.ready
  BY <1>2, <1>3 DEF ClientRow, RefreshPlaces, Idle
<1> HIDE DEF j
<1>5. \A k \in Legs : leg[k].quote <= leg[k].quote /\ (leg[k].status = "READY" => leg[k].ready)
  BY <1>2 DEF LegRows, LegRow, MoneyInv, LegsFit
<1>6. ClientFits(t, j)
  BY <1>1, <1>2, <1>3, <1>4, AskersAreClients DEF ClientFits, At, RefreshPlaces, Judging
<1>7. Known(j, leg, paid)
  BY <1>3, <1>4, <1>5 DEF Known, RefreshPlaces, Judging
<1>8. faults' \in 0..MaxFaults
  BY <1>1 DEF MoneyInv, MoneyFits
<1> QED
  BY <1>1, <1>6, <1>7, <1>8, MoveKeeps, AskersAreClients

\* A refresh stays with its leg and goes on to another place.
GoesOnTo(t, j, place) ==
  /\ j \in ClientRow /\ j.at = place /\ place \in RefreshPlaces
  /\ j.l = task[t].l /\ j.view = task[t].view /\ j.states = task[t].states

LEMMA GoesOn ==
  ASSUME MoneyInv, NEW t \in Askers, task[t].at \in RefreshPlaces, LegsChange, NEW place, NEW j,
         Become(t, j), GoesOnTo(t, j, place),
         UNCHANGED <<scene, intent, old, expired, world>>, faults' \in 0..MaxFaults,
         place = "provider" => j.answer # "-",
         j.ready => paid # {},
         place \in Judging =>
           j.seen \in LegStates /\ (~scene.requotes => \A k \in Legs : j.seen[k] = "READY" => leg'[k].ready),
         place = "write" /\ j.ready => leg'[j.l].ready,
         ~scene.requotes /\ place = "intent" /\ j.ready => leg'[j.l].ready
  PROVE  MoneyInv'
<1> DEFINE r == task[t]
<1>1. /\ r.at \in RefreshPlaces /\ r \in ClientRow /\ ClientFits(t, r) /\ Known(r, leg', paid')
      /\ t \in Clients /\ t # "wallet" /\ paid' = paid
  BY AtHand, KnownStays, AskersAreClients DEF LegsChange, world
<1>2. j \in ClientRow /\ j.at = place /\ place \in RefreshPlaces /\ j.l = r.l /\ j.view = r.view /\ j.states = r.states
  BY DEF GoesOnTo
<1> HIDE DEF r
<1>3. "idle" \notin RefreshPlaces
  BY DEF RefreshPlaces
<1>4. ClientFits(t, j)
  <2>1. t \in scene.clients /\ j.l \in Legs /\ j.view \in LegRows /\ j.states \in LegStates
    BY <1>1, <1>2, <1>3 DEF ClientFits
  <2> QED
    BY <1>2, <2>1, AskersAreClients DEF ClientFits
<1>5. Known(j, leg', paid)
  <2>1. \A k \in Legs : j.view[k].quote <= leg'[k].quote
    BY <1>1, <1>2 DEF Known
  <2>2. ~scene.requotes => \A k \in Legs : (j.view[k].status = "READY" => leg'[k].ready)
                                           /\ (j.states[k] = "READY" => leg'[k].ready)
    BY <1>1, <1>2 DEF Known
  <2> QED
    BY <1>2, <2>1, <2>2 DEF Known
<1>6. IntentMay(intent) /\ expired' \in BOOLEAN
  BY DEF IntentMay, MoneyInv, MoneyFits
<1> QED
  BY <1>1, <1>4, <1>5, <1>6, ClientKeeps

LEMMA NextLegKeeps ==
  ASSUME MoneyInv, NEW t \in Askers, task[t].at \in RefreshPlaces, LegsChange,
         NEW s \in LegStatuses, NextLeg(t, s),
         UNCHANGED <<scene, intent, old, expired, world>>, faults' \in 0..MaxFaults,
         ~scene.requotes /\ s = "READY" => leg'[task[t].l].ready
  PROVE  MoneyInv'
<1> DEFINE r == task[t]
           j == [r EXCEPT !.states[r.l] = s, !.l = @ + 1, !.seen = <<>>, !.answer = "-", !.received = FALSE,
                          !.ready = FALSE, !.at = IF r.l = Last THEN "total" ELSE "leg"]
<1>1. /\ r.at \in RefreshPlaces /\ r \in ClientRow /\ ClientFits(t, r) /\ Known(r, leg', paid')
      /\ t \in Clients /\ t # "wallet" /\ paid' = paid
  BY AtHand, KnownStays, AskersAreClients DEF LegsChange, world
<1>2. Become(t, j)
  BY DEF NextLeg
<1>3. ~scene.requotes /\ s = "READY" => leg'[r.l].ready
  OBVIOUS
<1> HIDE DEF r
<1>4. "idle" \notin RefreshPlaces /\ "total" \notin RefreshPlaces /\ "leg" \in RefreshPlaces /\ "provider" # "leg"
  BY DEF RefreshPlaces
<1>5. t \in scene.clients /\ r.l \in Legs /\ r.view \in LegRows /\ r.states \in LegStates
  BY <1>1, <1>4 DEF ClientFits
<1>6. r.l + 1 \in Nat /\ (r.l # Last => r.l + 1 \in Legs)
  BY <1>5, LegsAreNumbered DEF MoneyInv
<1>7. [r.states EXCEPT ![r.l] = s] \in LegStates
  BY <1>5 DEF LegStates
<1>8. /\ j \in ClientRow /\ j.at = (IF r.l = Last THEN "total" ELSE "leg") /\ j.l = r.l + 1
      /\ j.view = r.view /\ j.states = [r.states EXCEPT ![r.l] = s] /\ ~j.ready
  BY <1>1, <1>4, <1>6, <1>7 DEF ClientRow
<1> HIDE DEF j
<1>9. ClientFits(t, j)
  BY <1>4, <1>5, <1>6, <1>7, <1>8, AskersAreClients DEF ClientFits, Judging
<1>10. Known(j, leg', paid)
  <2>1. \A k \in Legs : r.view[k].quote <= leg'[k].quote
    BY <1>1 DEF Known
  <2>2. ~scene.requotes => \A k \in Legs : (r.view[k].status = "READY" => leg'[k].ready)
                                           /\ (r.states[k] = "READY" => leg'[k].ready)
    BY <1>1 DEF Known
  <2>3. \A k \in Legs : j.states[k] = IF k = r.l THEN s ELSE r.states[k]
    BY <1>5, <1>8 DEF LegStates
  <2> QED
    BY <1>3, <1>8, <2>1, <2>2, <2>3 DEF Known, Judging
<1>11. IntentMay(intent) /\ expired' \in BOOLEAN
  BY DEF IntentMay, MoneyInv, MoneyFits
<1> QED
  BY <1>1, <1>2, <1>9, <1>10, <1>11, ClientKeeps

\* A refresh that fails or is done.
LEMMA RefreshStops ==
  ASSUME MoneyInv, NEW t \in Askers, End(t), LegsChange, NEW s, IntentMay(s),
         UNCHANGED <<scene, expired, world>>, faults' \in 0..MaxFaults
  PROVE  MoneyInv'
<1>1. Become(t, Idle) /\ expired' \in BOOLEAN
  BY DEF End, MoneyInv, MoneyFits
<1>2. t \in Clients /\ t # "wallet"
  BY AskersAreClients
<1>3. ClientFits(t, Idle) /\ Known(Idle, leg', paid)
  BY <1>2, IdleFits
<1> QED
  BY <1>1, <1>2, <1>3, ClientKeeps

\* Where a refresh is at a leg.
LEMMA AtLeg ==
  ASSUME MoneyInv, NEW t \in Askers, task[t].at \in RefreshPlaces
  PROVE  /\ task[t] \in ClientRow /\ Known(task[t], leg, paid) /\ ClientFits(t, task[t])
         /\ task[t].l \in Legs /\ task[t].view \in LegRows /\ Mine(t) \in LegRow
         /\ task[t].states \in LegStates /\ leg[task[t].l] \in LegRow /\ leg \in LegRows
<1>1. task[t] \in ClientRow /\ Known(task[t], leg, paid) /\ ClientFits(t, task[t])
  BY AtHand, AskersAreClients
<1>2. task[t].l \in Legs /\ task[t].view \in LegRows /\ task[t].states \in LegStates
  BY <1>1 DEF ClientFits
<1> QED
  BY <1>1, <1>2 DEF Mine, LegRows, MoneyInv, LegsFit

LEMMA RefreshLegKeeps == ASSUME MoneyInv, NEW t \in Askers, RefreshLeg(t) PROVE MoneyInv'
<1> DEFINE r == task[t]
           v == Mine(t)
<1>1. r.at = "leg" /\ r.at \in RefreshPlaces /\ UNCHANGED <<scene, rows, world>>
  BY DEF RefreshLeg, At, RefreshPlaces
<1>2. UNCHANGED <<scene, intent, old, expired, world>> /\ leg' = leg /\ paid' = paid
  BY <1>1 DEF rows, world
<1>3. LegsChange
  BY <1>2, SameLegsChange
<1>4. r \in ClientRow /\ Known(r, leg, paid) /\ r.l \in Legs /\ v \in LegRow /\ v = r.view[r.l]
  BY <1>1, AtLeg DEF Mine
<1>5. Fault \/ NoFault
  BY DEF RefreshLeg
<1>6. faults' \in 0..MaxFaults
  BY <1>5, FaultsStay
<1>7. CASE NextLeg(t, v.status)
  <2>1. ~scene.requotes /\ v.status = "READY" => leg'[r.l].ready
    BY <1>1, <1>2, <1>4 DEF Known
  <2>2. v.status \in LegStatuses
    BY <1>4 DEF LegRow
  <2> QED
    BY <1>1, <1>2, <1>3, <1>6, <1>7, <2>1, <2>2, NextLegKeeps
<1>8. CASE Proceed(t, "verify")
  <2> DEFINE j == [r EXCEPT !.at = "verify"]
  <2>1. Become(t, j)
    BY <1>8 DEF Proceed
  <2>2. GoesOnTo(t, j, "verify") /\ j.ready = r.ready
    BY <1>4 DEF GoesOnTo, RefreshPlaces, ClientRow
  <2>3. j.ready => paid # {}
    BY <1>4, <2>2 DEF Known
  <2> HIDE DEF j
  <2> QED
    BY <1>1, <1>2, <1>3, <1>6, <2>1, <2>2, <2>3, GoesOn DEF Judging
<1>9. ASSUME NEW answer \in {"DONE", "PENDING", "FAILED"},
             Become(t, [r EXCEPT !.at = "provider", !.answer = answer])
      PROVE  MoneyInv'
  <2> DEFINE j == [r EXCEPT !.at = "provider", !.answer = answer]
  <2>1. Become(t, j)
    BY <1>9
  <2>2. GoesOnTo(t, j, "provider") /\ j.ready = r.ready /\ j.answer # "-"
    BY <1>4 DEF GoesOnTo, RefreshPlaces, ClientRow
  <2>3. j.ready => paid # {}
    BY <1>4, <2>2 DEF Known
  <2> HIDE DEF j
  <2> QED
    BY <1>1, <1>2, <1>3, <1>6, <2>1, <2>2, <2>3, GoesOn DEF Judging
<1>10. CASE End(t)
  BY <1>2, <1>3, <1>6, <1>10, RefreshStops DEF IntentMay
<1>11. \/ NextLeg(t, v.status) \/ Proceed(t, "verify") \/ End(t)
       \/ \E answer \in {"DONE", "PENDING", "FAILED"} : Become(t, [r EXCEPT !.at = "provider", !.answer = answer])
  BY DEF RefreshLeg
<1> QED
  BY <1>7, <1>8, <1>9, <1>10, <1>11

LEMMA RefreshProviderKeeps == ASSUME MoneyInv, NEW t \in Askers, RefreshProvider(t) PROVE MoneyInv'
<1> DEFINE r == task[t]
           l == r.l
           status == mapLifiStatusToFundingLeg(r.answer)
<1>1. r.at = "provider" /\ r.at \in RefreshPlaces /\ UNCHANGED <<scene, intent, old, expired, world, faults>>
  BY DEF RefreshProvider, At, RefreshPlaces
<1>2. r \in ClientRow /\ ClientFits(t, r) /\ Known(r, leg, paid) /\ l \in Legs /\ leg[l] \in LegRow
  BY <1>1, AtLeg
<1>3. r.answer \in {"DONE", "PENDING", "FAILED"}
  BY <1>1, <1>2 DEF ClientFits, ClientRow
<1>4. status \in LegStatuses \ {"READY"}
  BY <1>3 DEF mapLifiStatusToFundingLeg, LegStatuses
<1>5. LegsChange
  <2>1. CASE ~Exists(t)
    BY <1>1, <2>1, SameLegsChange DEF RefreshProvider, world
  <2>2. CASE Exists(t)
    <3> DEFINE written == [leg[l] EXCEPT !.status = status, !.dest = (r.answer = "DONE")]
    <3> HIDE DEF status
    <3>1. leg' = [leg EXCEPT ![l] = written]
      BY <1>2, <2>2 DEF RefreshProvider, MoneyInv, LegsFit, LegRows, status
    <3>2. written \in LegRow /\ written.quote = leg[l].quote /\ written.status # "READY" /\ written.ready = leg[l].ready
      BY <1>2, <1>4 DEF LegRow
    <3> HIDE DEF written
    <3> QED
      BY <1>1, <1>2, <3>1, <3>2, PendingLegChanges DEF world
  <2> QED
    BY <2>1, <2>2
<1>6. faults' \in 0..MaxFaults
  BY <1>1 DEF MoneyInv, MoneyFits
<1>7. CASE NextLeg(t, status)
  <2> HIDE DEF status
  <2> QED
    BY <1>1, <1>4, <1>5, <1>6, <1>7, NextLegKeeps
<1>8. CASE Proceed(t, "verify")
  <2> DEFINE j == [r EXCEPT !.at = "verify"]
  <2>1. Become(t, j)
    BY <1>8 DEF Proceed
  <2>2. GoesOnTo(t, j, "verify") /\ j.ready = r.ready
    BY <1>2 DEF GoesOnTo, RefreshPlaces, ClientRow
  <2>3. j.ready => paid # {}
    BY <1>2, <2>2 DEF Known
  <2> HIDE DEF j
  <2> QED
    BY <1>1, <1>5, <1>6, <2>1, <2>2, <2>3, GoesOn DEF Judging
<1>9. CASE End(t)
  BY <1>1, <1>5, <1>6, <1>9, RefreshStops DEF IntentMay
<1> QED
  BY <1>7, <1>8, <1>9 DEF RefreshProvider

LEMMA VerifyVenueReadinessKeeps == ASSUME MoneyInv, NEW t \in Askers, VerifyVenueReadiness(t) PROVE MoneyInv'
<1> DEFINE r == task[t]
<1>1. r.at = "verify" /\ r.at \in RefreshPlaces /\ UNCHANGED <<scene, rows, world>>
  BY DEF VerifyVenueReadiness, At, RefreshPlaces
<1>2. UNCHANGED <<scene, intent, old, expired, world>> /\ leg' = leg /\ paid' = paid
  BY <1>1 DEF rows, world
<1>3. LegsChange
  BY <1>2, SameLegsChange
<1>4. r \in ClientRow /\ leg[r.l] \in LegRow
  BY <1>1, AtLeg
<1>5. Fault \/ NoFault
  BY DEF VerifyVenueReadiness
<1>6. faults' \in 0..MaxFaults
  BY <1>5, FaultsStay
<1>7. CASE End(t)
  BY <1>2, <1>3, <1>6, <1>7, RefreshStops DEF IntentMay
<1>8. ASSUME NEW received \in BOOLEAN, NEW ready \in BOOLEAN, ready => credited # {},
             Become(t, [r EXCEPT !.at = "apply", !.received = received, !.ready = ready])
      PROVE  MoneyInv'
  <2> DEFINE j == [r EXCEPT !.at = "apply", !.received = received, !.ready = ready]
  <2>1. Become(t, j)
    BY <1>8
  <2>2. GoesOnTo(t, j, "apply") /\ j.ready = ready
    BY <1>4 DEF GoesOnTo, RefreshPlaces, ClientRow
  <2>3. j.ready => paid # {}
    BY <1>8, <2>2 DEF MoneyInv, MoneyFits
  <2> HIDE DEF j
  <2> QED
    BY <1>1, <1>2, <1>3, <1>6, <2>1, <2>2, <2>3, GoesOn DEF Judging
<1>9. CASE Exists(t)
  <2> DEFINE received == leg[r.l].dest \/ leg[r.l].status \in {"CREDIT_PENDING", "READY"}
             ready == received /\ \E q \in Quotes : <<r.l, q>> \in credited
  <2>1. received \in BOOLEAN /\ ready \in BOOLEAN
    BY <1>4 DEF LegRow
  <2>2. ready => credited # {}
    OBVIOUS
  <2>3. \/ Become(t, [r EXCEPT !.at = "apply", !.received = received, !.ready = ready])
        \/ Become(t, [r EXCEPT !.at = "apply", !.received = received, !.ready = FALSE])
    BY <1>9 DEF VerifyVenueReadiness
  <2> HIDE DEF received, ready
  <2> QED
    BY <1>8, <2>1, <2>2, <2>3
<1> QED
  BY <1>7, <1>9 DEF VerifyVenueReadiness

LEMMA ApplyReadinessKeeps == ASSUME MoneyInv, NEW t \in Askers, ApplyReadiness(t) PROVE MoneyInv'
<1> DEFINE r == task[t]
           j == [r EXCEPT !.at = "record", !.seen = Statuses(leg)]
<1>1. r.at = "apply" /\ r.at \in RefreshPlaces /\ UNCHANGED <<scene, rows, world, faults>> /\ Become(t, j)
  BY DEF ApplyReadiness, At, RefreshPlaces
<1>2. UNCHANGED <<scene, intent, old, expired, world>> /\ leg' = leg /\ paid' = paid
  BY <1>1 DEF rows, world
<1>3. LegsChange
  BY <1>2, SameLegsChange
<1>4. r \in ClientRow /\ Known(r, leg, paid) /\ leg \in LegRows
  BY <1>1, AtLeg
<1>5. Statuses(leg) \in LegStates /\ \A k \in Legs : Statuses(leg)[k] = leg[k].status
  BY <1>4 DEF Statuses, LegStates, LegRows, LegRow
<1>6. GoesOnTo(t, j, "record") /\ j.ready = r.ready /\ j.seen = Statuses(leg)
  BY <1>4, <1>5 DEF GoesOnTo, RefreshPlaces, ClientRow
<1>7. j.ready => paid # {}
  BY <1>4, <1>6 DEF Known
<1>8. \A k \in Legs : j.seen[k] = "READY" => leg'[k].ready
  BY <1>2, <1>5, <1>6 DEF MoneyInv, LegsFit
<1>9. faults' \in 0..MaxFaults
  BY <1>1 DEF MoneyInv, MoneyFits
<1> HIDE DEF j
<1> QED
  BY <1>1, <1>2, <1>3, <1>5, <1>6, <1>7, <1>8, <1>9, GoesOn

LEMMA createReconciliationRecordKeeps ==
  ASSUME MoneyInv, NEW t \in Askers, createReconciliationRecord(t) PROVE MoneyInv'
<1> DEFINE r == task[t]
           l == r.l
<1>1. r.at = "record" /\ r.at \in RefreshPlaces /\ UNCHANGED <<scene, intent, old, expired, world, faults>>
  BY DEF createReconciliationRecord, At, RefreshPlaces
<1>2. /\ r \in ClientRow /\ ClientFits(t, r) /\ Known(r, leg, paid) /\ l \in Legs
      /\ leg[l] \in LegRow /\ leg \in LegRows
  BY <1>1, AtLeg
<1>3. faults' \in 0..MaxFaults
  BY <1>1 DEF MoneyInv, MoneyFits
<1>4. CASE End(t) /\ leg' = leg
  BY <1>1, <1>3, <1>4, RefreshStops, SameLegsChange DEF IntentMay, world
<1>5. CASE Exists(t)
  <2> DEFINE written == [leg[l] EXCEPT !.checked = TRUE, !.ready = leg[l].ready \/ r.ready]
             j == [r EXCEPT !.at = "write"]
  <2>1. leg' = [leg EXCEPT ![l] = written] /\ Become(t, j)
    BY <1>2, <1>5 DEF createReconciliationRecord, LegRows, Proceed
  <2>2. r.ready \in BOOLEAN /\ leg[l].ready \in BOOLEAN
    BY <1>2 DEF ClientRow, LegRow
  <2>3. /\ written \in LegRow /\ written.quote = leg[l].quote /\ written.status = leg[l].status
        /\ written.ready = (leg[l].ready \/ r.ready)
    BY <1>2, <2>2 DEF LegRow
  <2> HIDE DEF written
  <2>4. leg' \in LegRows /\ \A k \in Legs : leg'[k] = IF k = l THEN written ELSE leg[k]
    BY <1>2, <2>1, <2>3 DEF LegRows
  <2>5. r.ready => paid # {}
    BY <1>2 DEF Known
  <2>6. LegsChange
    BY <1>1, <2>3, <2>4, <2>5 DEF LegsChange, LegsStay, MoneyInv, LegsFit, world
  <2>7. GoesOnTo(t, j, "write") /\ j.ready = r.ready /\ j.seen = r.seen
    BY <1>2 DEF GoesOnTo, RefreshPlaces, ClientRow
  <2>8. r.seen \in LegStates /\ (~scene.requotes => \A k \in Legs : r.seen[k] = "READY" => leg[k].ready)
    BY <1>1, <1>2 DEF ClientFits, Known, Judging
  <2>9. \A k \in Legs : leg[k].ready => leg'[k].ready
    BY <2>3, <2>4
  <2>10. r.ready => leg'[l].ready
    BY <1>2, <2>3, <2>4
  <2>11. j.l = l
    BY <2>7 DEF GoesOnTo
  <2> HIDE DEF j
  <2> QED
    BY <1>1, <1>3, <2>1, <2>5, <2>6, <2>7, <2>8, <2>9, <2>10, <2>11, GoesOn
<1> QED
  BY <1>1, <1>4, <1>5 DEF createReconciliationRecord

LEMMA VerifiedIsAStatus == ASSUME NEW t PROVE Verified(t) \in LegStatuses /\ (Verified(t) = "READY" <=> task[t].ready)
BY DEF Verified, LegStatuses

LEMMA WriteLegKeeps == ASSUME MoneyInv, NEW t \in Askers, WriteLeg(t) PROVE MoneyInv'
<1> DEFINE r == task[t]
           l == r.l
<1>1. r.at = "write" /\ r.at \in RefreshPlaces /\ UNCHANGED <<scene, intent, old, expired, world, faults>>
  BY DEF WriteLeg, At, RefreshPlaces
<1>2. /\ r \in ClientRow /\ ClientFits(t, r) /\ Known(r, leg, paid) /\ l \in Legs
      /\ leg[l] \in LegRow /\ leg \in LegRows
  BY <1>1, AtLeg
<1>3. faults' \in 0..MaxFaults
  BY <1>1 DEF MoneyInv, MoneyFits
<1>4. LegsChange /\ \A k \in Legs : leg[k].ready => leg'[k].ready
  <2>1. CASE ~Exists(t)
    BY <1>1, <2>1, SameLegsChange DEF WriteLeg, world
  <2>2. CASE Exists(t)
    <3> DEFINE written == [leg[l] EXCEPT !.status = Verified(t), !.dest = r.received]
    <3>1. leg' = [leg EXCEPT ![l] = written]
      BY <1>2, <2>2 DEF WriteLeg, LegRows
    <3>2. r.received \in BOOLEAN
      BY <1>2 DEF ClientRow, LegRow
    <3>3. written \in LegRow /\ written.quote = leg[l].quote /\ written.status = Verified(t) /\ written.ready = leg[l].ready
      BY <1>2, <3>2, VerifiedIsAStatus DEF LegRow
    <3> HIDE DEF written
    <3>4. leg' \in LegRows /\ \A k \in Legs : leg'[k] = IF k = l THEN written ELSE leg[k]
      BY <1>2, <3>1, <3>3 DEF LegRows
    <3>5. Verified(t) = "READY" => leg[l].ready
      BY <1>1, <1>2, <2>2, VerifiedIsAStatus DEF Known, Exists, Mine
    <3> QED
      BY <1>1, <3>3, <3>4, <3>5 DEF LegsChange, LegsStay, MoneyInv, LegsFit, world
  <2> QED
    BY <2>1, <2>2
<1> DEFINE j == [r EXCEPT !.at = "intent"]
<1>5. Become(t, j)
  BY DEF WriteLeg, Proceed
<1>6. GoesOnTo(t, j, "intent") /\ j.ready = r.ready /\ j.seen = r.seen
  BY <1>2 DEF GoesOnTo, RefreshPlaces, ClientRow
<1>7. r.seen \in LegStates /\ (~scene.requotes => \A k \in Legs : r.seen[k] = "READY" => leg[k].ready)
  BY <1>1, <1>2 DEF ClientFits, Known, Judging
<1>8. (r.ready => paid # {}) /\ (~scene.requotes /\ r.ready => leg[l].ready)
  BY <1>1, <1>2 DEF Known
<1>9. j.l = l
  BY <1>6 DEF GoesOnTo
<1> HIDE DEF j
<1> QED
  BY <1>1, <1>2, <1>3, <1>4, <1>5, <1>6, <1>7, <1>8, <1>9, GoesOn

LEMMA WriteIntentKeeps == ASSUME MoneyInv, NEW t \in Askers, WriteIntent(t) PROVE MoneyInv'
<1> DEFINE r == task[t]
           l == r.l
           s == [r.seen EXCEPT ![l] = Verified(t)]
           j == [r EXCEPT !.at = "verified"]
<1>1. /\ r.at = "intent" /\ r.at \in RefreshPlaces /\ UNCHANGED <<scene, expired, leg, world, faults>>
      /\ updateIntentStatus(aggregateFundingStatus(s)) /\ Become(t, j)
  BY DEF WriteIntent, At, RefreshPlaces, Proceed
<1>2. r \in ClientRow /\ ClientFits(t, r) /\ Known(r, leg, paid) /\ l \in Legs /\ t \in Clients /\ t # "wallet"
  BY <1>1, AtLeg, AskersAreClients
<1>3. r.seen \in LegStates /\ (~scene.requotes => \A k \in Legs : r.seen[k] = "READY" => leg[k].ready)
  BY <1>1, <1>2 DEF ClientFits, Known, Judging
<1>4. ~scene.requotes /\ r.ready => leg[l].ready
  BY <1>1, <1>2 DEF Known
<1>5. \A k \in Legs : s[k] = IF k = l THEN Verified(t) ELSE r.seen[k]
  BY <1>3 DEF LegStates
<1>6. ~scene.requotes /\ (\A k \in Legs : s[k] = "READY") => AllReady
  <2> SUFFICES ASSUME ~scene.requotes, \A k \in Legs : s[k] = "READY", NEW k \in Legs PROVE leg[k].ready
    BY DEF AllReady
  <2>1. CASE k = l
    BY <1>2, <1>4, <1>5, <2>1, VerifiedIsAStatus
  <2>2. CASE k # l
    BY <1>3, <1>5, <2>2
  <2> QED
    BY <2>1, <2>2
<1> HIDE DEF s
<1>7. IntentMay(aggregateFundingStatus(s))
  BY <1>1, <1>6, aggregateIsAStatus DEF IntentMay, MoneyInv
<1>8. LegsChange /\ leg' = leg
  BY <1>1, SameLegsChange DEF world
<1>9. /\ j \in ClientRow /\ j.at = "verified" /\ j.l = l /\ j.view = r.view /\ j.states = r.states
      /\ j.ready = r.ready
  BY <1>2 DEF RefreshPlaces, ClientRow
<1> HIDE DEF j, r
<1>10. ClientFits(t, j)
  BY <1>1, <1>2, <1>9, AskersAreClients DEF ClientFits, RefreshPlaces, Judging
<1>11. Known(j, leg', paid)
  BY <1>1, <1>2, <1>8, <1>9 DEF Known, RefreshPlaces, Judging
<1>12. expired' \in BOOLEAN /\ faults' \in 0..MaxFaults
  BY <1>1 DEF MoneyInv, MoneyFits
<1> QED
  BY <1>1, <1>2, <1>7, <1>8, <1>10, <1>11, <1>12, ClientKeeps

LEMMA ReadBackKeeps == ASSUME MoneyInv, NEW t \in Askers, ReadBack(t) PROVE MoneyInv'
<1> DEFINE r == task[t]
<1>1. r.at = "verified" /\ r.at \in RefreshPlaces /\ UNCHANGED <<scene, rows, world, faults>>
  BY DEF ReadBack, At, RefreshPlaces
<1>2. UNCHANGED <<scene, intent, old, expired, world>> /\ leg' = leg
  BY <1>1 DEF rows, world
<1>3. LegsChange
  BY <1>2, SameLegsChange DEF world
<1>4. r.l \in Legs /\ leg[r.l].status \in LegStatuses
  BY <1>1, AtLeg DEF LegRow
<1>5. leg[r.l].status = "READY" => leg'[r.l].ready
  BY <1>2, <1>4 DEF MoneyInv, LegsFit
<1>6. faults' \in 0..MaxFaults
  BY <1>1 DEF MoneyInv, MoneyFits
<1>7. CASE NextLeg(t, leg[r.l].status)
  BY <1>1, <1>2, <1>3, <1>4, <1>5, <1>6, <1>7, NextLegKeeps
<1>8. CASE End(t)
  BY <1>2, <1>3, <1>6, <1>8, RefreshStops DEF IntentMay
<1> QED
  BY <1>7, <1>8 DEF ReadBack

LEMMA RefreshEndsKeeps == ASSUME MoneyInv, NEW t \in Askers, RefreshEnds(t) PROVE MoneyInv'
<1> DEFINE s == task[t].states
<1>1. /\ task[t].at = "total" /\ UNCHANGED <<scene, expired, leg, world, faults>> /\ End(t)
      /\ updateIntentStatus(aggregateFundingStatus(s))
  BY DEF RefreshEnds, At
<1>2. ~scene.requotes => \A k \in Legs : s[k] = "READY" => leg[k].ready
  BY <1>1, AtHand, AskersAreClients DEF Known
<1> HIDE DEF s
<1>3. IntentMay(aggregateFundingStatus(s))
  BY <1>1, <1>2, aggregateIsAStatus DEF IntentMay, MoneyInv, AllReady
<1>4. LegsChange
  BY <1>1, SameLegsChange DEF world
<1>5. faults' \in 0..MaxFaults
  BY <1>1 DEF MoneyInv, MoneyFits
<1> QED
  BY <1>1, <1>3, <1>4, <1>5, RefreshStops

(* The cleanup, time and the chains. *)

LEMMA SelectKeeps == ASSUME MoneyInv, SelectCancelCandidates PROVE MoneyInv'
<1> DEFINE r == task["cleanup"]
           j == [r EXCEPT !.at = "cancel"]
<1>1. Become("cleanup", j) /\ UNCHANGED <<scene, rows, world, faults>> /\ At("cleanup", "idle")
  BY DEF SelectCancelCandidates, Proceed
<1>2. r \in ClientRow /\ Known(r, leg, paid)
  BY AtHand, WalletIsClient
<1>3. j \in ClientRow /\ j.at = "cancel" /\ j.ready = r.ready
  BY <1>2 DEF ClientRow
<1>4. faults' \in 0..MaxFaults
  BY <1>1 DEF MoneyInv, MoneyFits
<1> HIDE DEF j
<1>5. ClientFits("cleanup", j) /\ Known(j, leg, paid)
  BY <1>1, <1>2, <1>3 DEF ClientFits, Known, At, RefreshPlaces, Judging, PlacesOf
<1> QED
  BY <1>1, <1>4, <1>5, MoveKeeps, WalletIsClient

LEMMA cancelFundingIntentsKeeps == ASSUME MoneyInv, cancelFundingIntents PROVE MoneyInv'
<1>1. /\ Become("cleanup", Idle) /\ UNCHANGED <<scene, expired, world, faults>>
      /\ updateIntentStatus("CANCELLED")
  BY DEF cancelFundingIntents, End
<1>2. leg \in LegRows
  BY DEF MoneyInv, LegsFit
<1>3. \A k \in Legs : leg'[k] \in LegRow /\ leg'[k].quote = leg[k].quote /\ leg'[k].ready = leg[k].ready
                      /\ (leg'[k].status = "READY" => leg[k].status = "READY")
  BY <1>2 DEF cancelFundingIntents, LegRows, LegRow, LegStatuses
<1>4. leg' \in LegRows
  BY <1>3 DEF cancelFundingIntents, LegRows
<1>5. LegsChange
  BY <1>1, <1>3, <1>4 DEF LegsChange, LegsStay, MoneyInv, LegsFit, world
<1>6. IntentMay("CANCELLED")
  BY <1>1 DEF IntentMay, IntentStatuses
<1>7. expired' \in BOOLEAN /\ faults' \in 0..MaxFaults
  BY <1>1 DEF MoneyInv, MoneyFits
<1>8. ClientFits("cleanup", Idle) /\ Known(Idle, leg', paid)
  BY IdleFits, WalletIsClient
<1> QED
  BY <1>1, <1>5, <1>6, <1>7, <1>8, ClientKeeps, WalletIsClient

\* A step of nobody's: the legs and the clients stay as they are.
LEMMA NobodyKeeps ==
  ASSUME MoneyInv, UNCHANGED <<scene, leg, task, faults>>, MoneyFits', IntentFits', paid \subseteq paid',
         task["wallet"].at = "replace" => paid' = paid
  PROVE  MoneyInv'
<1>1. LegsChange /\ LegsStay
  BY SameLegsChange DEF LegsChange
<1>2. LegsFit'
  BY <1>1, LegsDoFit
<1>3. ClientsFit'
  <2>1. ASSUME NEW t \in Clients PROVE ClientFits(t, task[t]) /\ Known(task[t], leg', paid')
    BY <1>1, AtHand, KnownStays
  <2>2. task = [t \in Clients |-> task[t]]
    BY DEF MoneyInv, ClientsFit
  <2> QED
    BY <2>1, <2>2 DEF ClientsFit, ClientFits, Known, ClientRow, LegRows, LegStates, Legs
<1>4. task'["wallet"].at = "replace" => MayReplace'
  BY DEF MoneyInv, MayReplace, Legs
<1> QED
  BY <1>2, <1>3, <1>4 DEF MoneyInv

LEMMA DeleteUnusedKeeps == ASSUME MoneyInv, DeleteUnused PROVE MoneyInv'
<1>1. UNCHANGED <<scene, old, expired, leg, paid, bridged, credited, task, faults>> /\ intent' = "DELETED"
  BY DEF DeleteUnused, world
<1>2. MoneyFits'
  BY <1>1 DEF MoneyInv, MoneyFits, IntentStatuses, Legs
<1>3. IntentFits'
  BY <1>1 DEF IntentFits
<1> QED
  BY <1>1, <1>2, <1>3, NobodyKeeps

LEMMA TimeKeeps == ASSUME MoneyInv, QuotesExpire \/ GrowsOld PROVE MoneyInv'
<1>1. UNCHANGED <<scene, intent, leg, paid, bridged, credited, task, faults>>
  BY DEF QuotesExpire, GrowsOld, world
<1>2. old' \in BOOLEAN /\ expired' \in BOOLEAN
  BY DEF QuotesExpire, GrowsOld, MoneyInv, MoneyFits
<1>3. MoneyFits'
  BY <1>1, <1>2 DEF MoneyInv, MoneyFits, IntentStatuses, Legs
<1>4. IntentFits'
  BY <1>1 DEF MoneyInv, IntentFits, AllReady, Legs
<1> QED
  BY <1>1, <1>3, <1>4, NobodyKeeps

LEMMA PayKeeps == ASSUME MoneyInv, NEW l \in Legs, Pay(l) PROVE MoneyInv'
<1>1. UNCHANGED <<scene, intent, old, expired, leg, bridged, credited, task, faults>>
      /\ paid' = paid \cup {<<l, leg[l].quote>>}
  BY DEF Pay, rows
<1>2. leg[l].quote \in 1..scene.quotes
  BY LegsAreNumbered DEF Pay, MoneyInv, LegsFit
<1>3. MoneyFits'
  BY <1>1, <1>2 DEF MoneyInv, MoneyFits, IntentStatuses, Legs
<1>4. IntentFits'
  BY <1>1 DEF MoneyInv, IntentFits, AllReady, Legs
<1>5. task["wallet"].at # "replace"
  BY DEF Pay, At
<1> QED
  BY <1>1, <1>3, <1>4, <1>5, NobodyKeeps

LEMMA ChainKeeps == ASSUME MoneyInv, NEW p \in paid, Arrives(p) \/ IsCredited(p) PROVE MoneyInv'
<1>1. UNCHANGED <<scene, intent, old, expired, leg, paid, task, faults>>
  BY DEF Arrives, IsCredited, rows
<1>2. bridged' \subseteq paid /\ credited' \subseteq paid
  BY DEF Arrives, IsCredited, MoneyInv, MoneyFits
<1>3. MoneyFits'
  BY <1>1, <1>2 DEF MoneyInv, MoneyFits, IntentStatuses, Legs
<1>4. IntentFits'
  BY <1>1 DEF MoneyInv, IntentFits, AllReady, Legs
<1> QED
  BY <1>1, <1>3, <1>4, NobodyKeeps

LEMMA NextMoney == MoneyInv /\ [FundingNext]_fundingVars => MoneyInv'
<1> SUFFICES ASSUME MoneyInv, [FundingNext]_fundingVars PROVE MoneyInv'
  OBVIOUS
<1>1. CASE UNCHANGED fundingVars
  <2>1. UNCHANGED <<scene, leg, task, faults, intent, old, expired, paid, bridged, credited>>
    BY <1>1 DEF fundingVars
  <2>2. MoneyFits' /\ IntentFits'
    BY <2>1 DEF MoneyInv, MoneyFits, IntentStatuses, Legs, IntentFits, AllReady
  <2> QED
    BY <2>1, <2>2, NobodyKeeps
<1>2. CASE QuoteIntent \/ WalletStep
  BY <1>2, QuoteIntentKeeps, replaceRouteLegsKeeps, QuoteEndsKeeps, updateRouteLegSubmissionKeeps,
     SubmitDirectKeeps, SubmitEndsKeeps DEF WalletStep
<1>3. CASE \E l \in Legs : Pay(l) \/ SubmitRouteLeg(l)
  BY <1>3, PayKeeps, SubmitRouteLegKeeps
<1>4. ASSUME NEW t \in Askers, RefreshIntentStatus(t) \/ RefreshStep(t) PROVE MoneyInv'
  BY <1>4, StartsToRefresh, RefreshLegKeeps, RefreshProviderKeeps, VerifyVenueReadinessKeeps,
     ApplyReadinessKeeps, createReconciliationRecordKeeps, WriteLegKeeps, WriteIntentKeeps,
     ReadBackKeeps, RefreshEndsKeeps DEF RefreshStep
<1>5. CASE SelectCancelCandidates \/ cancelFundingIntents \/ DeleteUnused \/ QuotesExpire \/ GrowsOld
  BY <1>5, SelectKeeps, cancelFundingIntentsKeeps, DeleteUnusedKeeps, TimeKeeps
<1>6. CASE \E p \in paid : Arrives(p) \/ IsCredited(p)
  BY <1>6, ChainKeeps
<1> QED
  BY <1>1, <1>2, <1>3, <1>4, <1>5, <1>6 DEF FundingNext, Askers

LEMMA MoneyIsKept == FundingSpec => []MoneyInv
<1>1. FundingInit => MoneyInv
  BY InitMoney
<1> QED
  BY <1>1, NextMoney, PTL DEF FundingSpec

\* ReadyIsEvidenced: a leg that says READY has a record of its own that says so, and
\* so has every leg of an intent that says READY_TO_TRADE and was not quoted again,
\* whoever refreshes it and however late (funding-service.ts:620-657).
THEOREM ReadyIsAlwaysEvidenced == FundingSpec => []ReadyIsEvidenced
BY MoneyIsKept, MoneyInvIsEvidence, PTL

(* The cleanup and the submissions. *)
Submitting == {"hash", "direct", "sent"}

\* An intent is old when its quotes have expired; none that is being submitted is
\* old; while an intent is being cancelled nothing of it is or will be submitted;
\* and what is submitted of a cancelled intent is not done yet.
CancelInv ==
  /\ intent # "DELETED" /\ old => expired \/ task["wallet"].at = "quoted"
  /\ intent # "DELETED" /\ task["wallet"].at \in Submitting => ~old
  /\ intent # "DELETED" /\ task["cleanup"].at = "cancel" =>
       task["wallet"].at \notin Submitting /\ \A k \in Legs : ~leg[k].sent
  /\ intent = "CANCELLED" /\ (\E k \in Legs : leg[k].sent) => task["wallet"].at \in {"direct", "sent"}

LEMMA CancelInvIsEnough == MoneyInv /\ CancelInv => SubmittedIsNotCancelled
<1> SUFFICES ASSUME MoneyInv, CancelInv, intent = "CANCELLED", \E l \in Legs : leg[l].sent
             PROVE  At("wallet", "direct") \/ At("wallet", "sent")
  BY DEF SubmittedIsNotCancelled
<1>1. task["wallet"].at \in {"direct", "sent"}
  BY DEF CancelInv
<1>2. "wallet" \in scene.clients
  BY <1>1, AtHand, WalletIsClient DEF ClientFits
<1> QED
  BY <1>1, <1>2 DEF At

LEMMA InitCancel == ASSUME FundingInit PROVE CancelInv
BY WalletIsClient DEF FundingInit, CancelInv, Idle, Submitting, NoLeg

LEMMA OneMoves ==
  ASSUME MoneyInv, NEW t \in Clients, NEW j, Become(t, j)
  PROVE  task'[t] = j /\ \A b \in Clients \ {t} : task'[b] = task[b]
BY DEF Become, MoneyInv, ClientsFit

\* A new status is neither CANCELLED nor DELETED, and makes the intent young.
Renewed == intent # "DELETED" /\ intent' \notin {"CANCELLED", "DELETED"} /\ old' = FALSE

LEMMA AggregateRenews ==
  ASSUME MoneyInv, NEW s, updateIntentStatus(aggregateFundingStatus(s))
  PROVE  Renewed \/ UNCHANGED <<intent, old>>
BY aggregateIsAStatus DEF Renewed, updateIntentStatus, MoneyInv

\* What a refresh does concerns neither the wallet nor the cleanup nor a hash.
Refreshes ==
  /\ task'["wallet"] = task["wallet"] /\ task'["cleanup"] = task["cleanup"]
  /\ UNCHANGED <<scene, expired>> /\ (Renewed \/ UNCHANGED <<intent, old>>)
  /\ \A k \in Legs : leg'[k].sent = leg[k].sent

LEMMA RefreshesKeeps == ASSUME CancelInv, Refreshes PROVE CancelInv'
BY DEF CancelInv, Refreshes, Renewed, Legs, Submitting

LEMMA RefreshRefreshes ==
  ASSUME MoneyInv, NEW t \in Askers, RefreshIntentStatus(t) \/ RefreshStep(t)
  PROVE  Refreshes
<1>1. \E j : Become(t, j)
  BY DEF RefreshIntentStatus, RefreshStep, RefreshLeg, RefreshProvider, VerifyVenueReadiness, ApplyReadiness,
         createReconciliationRecord, WriteLeg, WriteIntent, ReadBack, RefreshEnds, NextLeg, Proceed, End
<1>2. task'["wallet"] = task["wallet"] /\ task'["cleanup"] = task["cleanup"]
  BY <1>1, OneMoves, WalletIsClient DEF Askers
<1>3. UNCHANGED <<scene, expired>>
  BY DEF RefreshIntentStatus, RefreshStep, RefreshLeg, RefreshProvider, VerifyVenueReadiness, ApplyReadiness,
         createReconciliationRecord, WriteLeg, WriteIntent, ReadBack, RefreshEnds, rows
<1>4. Renewed \/ UNCHANGED <<intent, old>>
  <2>1. CASE WriteIntent(t) \/ RefreshEnds(t)
    BY <2>1, AggregateRenews DEF WriteIntent, RefreshEnds
  <2>2. CASE ~(WriteIntent(t) \/ RefreshEnds(t))
    BY <2>2 DEF RefreshIntentStatus, RefreshStep, RefreshLeg, RefreshProvider, VerifyVenueReadiness,
         ApplyReadiness, createReconciliationRecord, WriteLeg, ReadBack, rows
  <2> QED
    BY <2>1, <2>2
<1>5. \A k \in Legs : leg'[k].sent = leg[k].sent
  <2> DEFINE l == task[t].l
  <2>1. CASE RefreshProvider(t) \/ createReconciliationRecord(t) \/ WriteLeg(t)
    <3>1. task[t].at \in RefreshPlaces
      BY <2>1 DEF RefreshProvider, createReconciliationRecord, WriteLeg, At, RefreshPlaces
    <3>2. leg \in LegRows /\ l \in Legs /\ leg[l] \in LegRow
      BY <3>1, AtLeg
    <3>3. leg' = leg \/ \E written : leg' = [leg EXCEPT ![l] = written] /\ written.sent = leg[l].sent
      <4>1. CASE RefreshProvider(t)
        <5> DEFINE status == mapLifiStatusToFundingLeg(task[t].answer)
                   written == [leg[l] EXCEPT !.status = status, !.dest = (task[t].answer = "DONE")]
        <5>1. leg' = leg \/ leg' = [leg EXCEPT ![l] = written]
          BY <3>2, <4>1 DEF RefreshProvider, LegRows
        <5>2. written.sent = leg[l].sent
          BY <3>2 DEF LegRow
        <5> QED
          BY <5>1, <5>2
      <4>2. CASE createReconciliationRecord(t)
        <5> DEFINE written == [leg[l] EXCEPT !.checked = TRUE, !.ready = leg[l].ready \/ task[t].ready]
        <5>1. leg' = leg \/ leg' = [leg EXCEPT ![l] = written]
          BY <3>2, <4>2 DEF createReconciliationRecord, LegRows
        <5>2. written.sent = leg[l].sent
          BY <3>2 DEF LegRow
        <5> QED
          BY <5>1, <5>2
      <4>3. CASE WriteLeg(t)
        <5> DEFINE written == [leg[l] EXCEPT !.status = Verified(t), !.dest = task[t].received]
        <5>1. leg' = leg \/ leg' = [leg EXCEPT ![l] = written]
          BY <3>2, <4>3 DEF WriteLeg, LegRows
        <5>2. written.sent = leg[l].sent
          BY <3>2 DEF LegRow
        <5> QED
          BY <5>1, <5>2
      <4> QED
        BY <2>1, <4>1, <4>2, <4>3
    <3> QED
      BY <3>2, <3>3 DEF LegRows
  <2>2. CASE ~(RefreshProvider(t) \/ createReconciliationRecord(t) \/ WriteLeg(t))
    <3>1. leg' = leg
      BY <2>2 DEF RefreshIntentStatus, RefreshStep, RefreshLeg, VerifyVenueReadiness,
         ApplyReadiness, WriteIntent, ReadBack, RefreshEnds, rows
    <3> QED
      BY <3>1
  <2> QED
    BY <2>1, <2>2
<1> QED
  BY <1>2, <1>3, <1>4, <1>5 DEF Refreshes

LEMMA WalletSubmits ==
  ASSUME ~SlowRequests, MoneyInv, CancelInv, NEW l \in Legs, SubmitRouteLeg(l)
  PROVE  CancelInv'
<1>1. At("wallet", "idle") /\ ~expired /\ ~At("cleanup", "cancel") /\ UNCHANGED <<scene, intent, old, expired, leg>>
  BY DEF SubmitRouteLeg, rows
<1> DEFINE j == [Idle EXCEPT !.at = "hash", !.l = l, !.view = leg]
<1>2. Become("wallet", j) /\ j.at = "hash"
  BY DEF SubmitRouteLeg, Idle
<1> HIDE DEF j
<1>3. task'["wallet"].at = "hash" /\ task'["cleanup"] = task["cleanup"]
  <2>1. task'["wallet"] = j /\ \A b \in Clients \ {"wallet"} : task'[b] = task[b]
    BY <1>2, OneMoves, WalletIsClient
  <2> QED
    BY <1>2, <2>1, WalletIsClient
<1>4. task["cleanup"].at # "cancel"
  BY <1>1, AtHand, WalletIsClient DEF At, ClientFits
<1>5. task["wallet"].at = "idle"
  BY <1>1 DEF At
<1> QED
  BY <1>1, <1>3, <1>4, <1>5 DEF CancelInv, Submitting, Legs

LEMMA WalletStepKeepsCancel == ASSUME MoneyInv, CancelInv, QuoteIntent \/ WalletStep PROVE CancelInv'
<1>1. ASSUME NEW j, Become("wallet", j) PROVE task'["wallet"] = j /\ task'["cleanup"] = task["cleanup"]
  BY <1>1, OneMoves, WalletIsClient
<1>2. task["wallet"] \in ClientRow
  BY AtHand, WalletIsClient
<1>3. ASSUME NEW place \in WalletPlaces, Proceed("wallet", place)
      PROVE  task'["wallet"].at = place /\ task'["cleanup"] = task["cleanup"]
  <2>1. Become("wallet", [task["wallet"] EXCEPT !.at = place])
    BY <1>3 DEF Proceed
  <2> QED
    BY <1>1, <1>2, <2>1 DEF ClientRow
<1>4. ASSUME End("wallet") PROVE task'["wallet"].at = "idle" /\ task'["cleanup"] = task["cleanup"]
  BY <1>1, <1>4 DEF End, Idle
<1>5. CASE QuoteIntent
  <2>1. Proceed("wallet", "replace") /\ UNCHANGED <<scene, intent, old, expired, leg>> /\ task["wallet"].at = "idle"
    BY <1>5 DEF QuoteIntent, rows, At
  <2>2. task'["wallet"].at = "replace" /\ task'["cleanup"] = task["cleanup"]
    BY <1>3, <2>1 DEF WalletPlaces
  <2> QED
    BY <2>1, <2>2 DEF CancelInv, Submitting, Legs
<1>6. CASE replaceRouteLegs
  <2>1. UNCHANGED <<scene, intent, old>> /\ task["wallet"].at = "replace"
    BY <1>6 DEF replaceRouteLegs, At
  <2>2. CASE intent = "DELETED"
    BY <2>1, <2>2 DEF CancelInv
  <2>3. CASE intent # "DELETED"
    <3>1. Proceed("wallet", "quoted") /\ leg' = [l \in Legs |-> NewLeg(leg[l].quote + 1)]
      BY <1>6, <2>3 DEF replaceRouteLegs
    <3>2. task'["wallet"].at = "quoted" /\ task'["cleanup"] = task["cleanup"]
      BY <1>3, <3>1 DEF WalletPlaces
    <3>3. \A k \in Legs : ~leg'[k].sent
      BY <3>1 DEF NewLeg, NoLeg
    <3> QED
      BY <2>1, <3>2, <3>3 DEF CancelInv, Submitting, Legs
  <2> QED
    BY <2>2, <2>3
<1>7. CASE QuoteEnds
  <2>1. /\ updateIntentStatus("USER_SIGNATURE_REQUIRED") /\ End("wallet") /\ UNCHANGED <<scene, expired, leg>>
        /\ task["wallet"].at = "quoted"
    BY <1>7 DEF QuoteEnds, At
  <2>2. intent = "DELETED" => intent' = "DELETED"
    BY <2>1 DEF updateIntentStatus
  <2>3. intent # "DELETED" => intent' = "USER_SIGNATURE_REQUIRED" /\ old' = FALSE
    BY <2>1 DEF updateIntentStatus
  <2> QED
    BY <1>4, <2>1, <2>2, <2>3 DEF CancelInv, Submitting, Legs
<1>8. CASE updateRouteLegSubmission
  <2>1. UNCHANGED <<scene, intent, old, expired>> /\ task["wallet"].at = "hash"
    BY <1>8 DEF updateRouteLegSubmission, At
  <2>2. \E place \in {"direct", "sent"} : Proceed("wallet", place)
    BY <1>8 DEF updateRouteLegSubmission
  <2>3. task'["wallet"].at \in {"direct", "sent"} /\ task'["cleanup"] = task["cleanup"]
    BY <1>3, <2>2 DEF WalletPlaces
  <2> QED
    BY <2>1, <2>3 DEF CancelInv, Submitting, Legs
<1>9. CASE SubmitDirect
  <2>1. UNCHANGED <<scene, intent, old, expired>> /\ task["wallet"].at = "direct" /\ Proceed("wallet", "sent")
    BY <1>9 DEF SubmitDirect, At
  <2>2. task'["wallet"].at = "sent" /\ task'["cleanup"] = task["cleanup"]
    BY <1>3, <2>1 DEF WalletPlaces
  <2> QED
    BY <2>1, <2>2 DEF CancelInv, Submitting, Legs
<1>10. CASE SubmitEnds
  <2>1. End("wallet") /\ UNCHANGED <<scene, expired, leg>> /\ task["wallet"].at = "sent"
    BY <1>10 DEF SubmitEnds, At
  <2>2. Renewed \/ UNCHANGED <<intent, old>>
    BY <1>10, AggregateRenews DEF SubmitEnds
  <2>3. intent # "DELETED" => Renewed
    BY <1>10, aggregateIsAStatus DEF SubmitEnds, Renewed, updateIntentStatus, MoneyInv
  <2> QED
    BY <1>4, <2>1, <2>2, <2>3 DEF CancelInv, Submitting, Legs, Renewed
<1> QED
  BY <1>5, <1>6, <1>7, <1>8, <1>9, <1>10 DEF WalletStep

LEMMA CleanupKeepsCancel ==
  ASSUME MoneyInv, CancelInv, SelectCancelCandidates \/ cancelFundingIntents \/ DeleteUnused
  PROVE  CancelInv'
<1>1. ASSUME NEW j, Become("cleanup", j) PROVE task'["cleanup"] = j /\ task'["wallet"] = task["wallet"]
  BY <1>1, OneMoves, WalletIsClient
<1>2. CASE SelectCancelCandidates
  <2>1. /\ intent = "USER_SIGNATURE_REQUIRED" /\ old /\ \A k \in Legs : ~leg[k].sent
        /\ Proceed("cleanup", "cancel") /\ UNCHANGED <<scene, intent, old, expired, leg>>
    BY <1>2 DEF SelectCancelCandidates, rows
  <2>2. task'["wallet"] = task["wallet"]
    BY <1>1, <2>1 DEF Proceed
  <2> QED
    BY <2>1, <2>2 DEF CancelInv, Submitting, Legs
<1>3. CASE cancelFundingIntents
  <2>1. /\ task["cleanup"].at = "cancel" /\ UNCHANGED <<scene, expired>> /\ updateIntentStatus("CANCELLED")
        /\ End("cleanup")
    BY <1>3 DEF cancelFundingIntents, At
  <2>2. task'["cleanup"].at = "idle" /\ task'["wallet"] = task["wallet"]
    BY <1>1, <2>1 DEF End, Idle
  <2>3. CASE intent = "DELETED"
    BY <2>1, <2>3 DEF updateIntentStatus, CancelInv
  <2>4. CASE intent # "DELETED"
    <3>1. intent' = "CANCELLED" /\ old' = FALSE /\ \A k \in Legs : ~leg[k].sent
      BY <2>1, <2>4 DEF updateIntentStatus, CancelInv
    <3>2. \A k \in Legs : leg[k] \in LegRow
      BY DEF MoneyInv, LegsFit, LegRows
    <3>3. \A k \in Legs : leg'[k].sent = leg[k].sent
      BY <1>3, <3>2 DEF cancelFundingIntents, LegRow
    <3> QED
      BY <2>1, <2>2, <3>1, <3>3 DEF CancelInv, Submitting, Legs
  <2> QED
    BY <2>3, <2>4
<1>4. CASE DeleteUnused
  BY <1>4 DEF DeleteUnused, CancelInv
<1> QED
  BY <1>2, <1>3, <1>4

LEMMA NextCancel ==
  ASSUME ~SlowRequests
  PROVE  MoneyInv /\ CancelInv /\ [FundingNext]_fundingVars => CancelInv'
<1> SUFFICES ASSUME MoneyInv, CancelInv, [FundingNext]_fundingVars PROVE CancelInv'
  OBVIOUS
<1>1. ASSUME UNCHANGED <<scene, intent, old, expired, leg, task>> PROVE CancelInv'
  BY <1>1 DEF CancelInv, Legs
<1>2. CASE UNCHANGED fundingVars
  BY <1>1, <1>2 DEF fundingVars
<1>3. CASE QuoteIntent \/ WalletStep
  BY <1>3, WalletStepKeepsCancel
<1>4. CASE \E l \in Legs : Pay(l) \/ SubmitRouteLeg(l)
  BY <1>1, <1>4, WalletSubmits DEF Pay, rows
<1>5. ASSUME NEW t \in Askers, RefreshIntentStatus(t) \/ RefreshStep(t) PROVE CancelInv'
  BY <1>5, RefreshRefreshes, RefreshesKeeps
<1>6. CASE SelectCancelCandidates \/ cancelFundingIntents \/ DeleteUnused
  BY <1>6, CleanupKeepsCancel
<1>7. CASE QuotesExpire
  BY <1>7 DEF QuotesExpire, CancelInv, Legs
<1>8. CASE GrowsOld
  BY <1>8 DEF GrowsOld, CancelInv, Legs, Submitting
<1>9. CASE \E p \in paid : Arrives(p) \/ IsCredited(p)
  BY <1>1, <1>9 DEF Arrives, IsCredited, rows
<1> QED
  BY <1>2, <1>3, <1>4, <1>5, <1>6, <1>7, <1>8, <1>9 DEF FundingNext, Askers

\* SubmittedIsNotCancelled: where a submission takes less time than a quote takes to
\* go stale and be cancelled, the cleanup cancels no intent with a submitted leg
\* for good (funding.repository.ts:288-309).
THEOREM SubmittedStaysUncancelled ==
  ASSUME ~SlowRequests
  PROVE  FundingSpec => []SubmittedIsNotCancelled
<1>1. FundingInit => CancelInv
  BY InitCancel
<1>2. MoneyInv /\ CancelInv /\ [FundingNext]_fundingVars => CancelInv'
  BY NextCancel
<1>3. MoneyInv /\ CancelInv => SubmittedIsNotCancelled
  BY CancelInvIsEnough
<1> QED
  BY <1>1, <1>2, <1>3, MoneyIsKept, PTL DEF FundingSpec
=============================================================================
