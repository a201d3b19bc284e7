----------------------------- MODULE MCFunding ------------------------------
(* Instances of Funding: leg 1 goes to POLYMARKET over a bridge, leg 2 is a  *)
(* direct transfer.                                                          *)
EXTENDS Funding

Watched  == [legs |-> {1, 2}, clients |-> {"wallet", "watcher"}, quotes |-> 1, requotes |-> FALSE]
Asked    == [legs |-> {1}, clients |-> {"wallet", "user", "watcher"}, quotes |-> 1, requotes |-> FALSE]
Cleaned  == [legs |-> {1}, clients |-> {"wallet", "watcher", "cleanup"}, quotes |-> 2, requotes |-> FALSE]
Requoted == [legs |-> {1}, clients |-> {"wallet", "user", "cleanup"}, quotes |-> 2, requotes |-> TRUE]
FourScenes == {Watched, Asked, Cleaned, Requoted}
=============================================================================
