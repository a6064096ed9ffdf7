----------------------------- MODULE MCThreads ------------------------------
(* Nothing survives, or some blocks do, of which some have holes.          *)
EXTENDS Threads

MCSweeps == {[marked |-> {}, holes |-> {}],
             [marked |-> {1}, holes |-> {1}],
             [marked |-> {1, 2, 3}, holes |-> {1, 3}]}
=============================================================================
