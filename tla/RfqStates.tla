----------------------------- MODULE RfqStates -----------------------------
(***************************************************************************)
(* The two state machines an accepted RFQ runs through: the RFQ's own      *)
(* (src/core/rfq-engine/rfq-state-machine.ts) and the execution record's   *)
(* (src/execution/execution-transition-guard.ts).                          *)
(***************************************************************************)
EXTENDS Integers, Sequences

RfqMoves == [CREATED           |-> {"BROADCAST", "FAILED", "EXPIRED"},
             BROADCAST         |-> {"COLLECTING_QUOTES", "FAILED", "EXPIRED"},
             COLLECTING_QUOTES |-> {"RANKING", "FAILED", "EXPIRED"},
             RANKING           |-> {"AWAITING_USER", "FAILED", "EXPIRED"},
             AWAITING_USER     |-> {"ACCEPTED", "FAILED", "EXPIRED"},
             ACCEPTED          |-> {"EXECUTING", "FAILED", "EXPIRED"},
             EXECUTING         |-> {"SETTLED", "FAILED"},
             SETTLED           |-> {},
             FAILED            |-> {},
             EXPIRED           |-> {}]

RecordMoves ==
  [CREATED           |-> {"CHECKED", "FAILED"},
   CHECKED           |-> {"QUOTED", "FAILED"},
   QUOTED            |-> {"AWAITING_APPROVAL", "APPROVED", "FAILED"},
   AWAITING_APPROVAL |-> {"APPROVED", "FAILED", "RECONCILING"},
   APPROVED          |-> {"EXECUTING", "FAILED"},
   EXECUTING         |-> {"PARTIALLY_FILLED", "FILLED", "FAILED", "SYNC_PENDING"},
   PARTIALLY_FILLED  |-> {"EXECUTING", "FILLED", "FAILED", "SYNC_PENDING",
                          "RECONCILING"},
   FILLED            |-> {"SYNC_PENDING", "SETTLED", "RECONCILING"},
   FAILED            |-> {"RECONCILING"},
   SYNC_PENDING      |-> {"FILLED", "SETTLED", "FAILED", "RECONCILING"},
   SETTLED           |-> {},
   RECONCILING       |-> {"EXECUTING", "FAILED", "SETTLED", "SYNC_PENDING"}]

RfqStatuses == DOMAIN RfqMoves
RecordStates == DOMAIN RecordMoves

\* canTransitionTo
RfqCanMove(from, to) == to \in RfqMoves[from]

\* transitionMany: every move of the path is looked up, or the call throws.
RecordCanMove(from, path) ==
  \A i \in 1 .. Len(path) :
    path[i] \in RecordMoves[IF i = 1 THEN from ELSE path[i - 1]]
=============================================================================
