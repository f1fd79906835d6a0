--------------------------- MODULE MCLeaseProtocol ---------------------------
(* Two workers and the clock 1..7, over two visits of one item. *)
EXTENDS LeaseProtocol

CONSTANTS w1, w2

TwoWorkers == {w1, w2}
Clock == 1..7
==============================================================================
