---------------------------- MODULE MCAcceptRfq ----------------------------
(***************************************************************************)
(* Bounds for AcceptRfq: three acceptances of one RFQ.                     *)
(***************************************************************************)
EXTENDS AcceptRfq

CONSTANTS first, again, third

MCRfqOf == [c \in {first, again, third} |-> "r1"]
MCMarketOf == [r \in {"r1"} |-> "m"]
=============================================================================
