--------------------------- MODULE MCOrderLocker ---------------------------
(***************************************************************************)
(* Bounds for OrderLocker: two workers over orders 1..3, so that pairs     *)
(* overlap in one key or two, and three tries, so that a retry meets what  *)
(* an earlier try left behind.                                             *)
(***************************************************************************)
EXTENDS OrderLocker

CONSTANTS w1, w2
=============================================================================
