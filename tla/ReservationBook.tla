-------------------------- MODULE ReservationBook --------------------------
(***************************************************************************)
(* What the risk engine promises to the rest of the service: a reservation *)
(* is granted to a call only while no other call holds one for the same    *)
(* RFQ, and it is given back by deleting the row that records it.          *)
(***************************************************************************)
CONSTANTS Accepts,   \* calls that ask for a reservation
          RfqOf      \* the RFQ each of them is about

VARIABLE journal     \* the calls whose 'pre-exec-reserve' row exists

HoldersOf(r) == {c \in journal : RfqOf[c] = r}

ReservationInit == journal = {}

Reserve(c) == HoldersOf(RfqOf[c]) = {} /\ journal' = journal \cup {c}

Release(c) == journal' = journal \ {c}

ReservationSpec ==
  ReservationInit /\ [][\E c \in Accepts : Reserve(c) \/ Release(c)]_journal

\* One reservation per RFQ: what a second acceptance of it is refused for.
OneReservation == \A c, d \in journal : RfqOf[c] = RfqOf[d] => c = d
=============================================================================
