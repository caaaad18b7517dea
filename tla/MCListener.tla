---------------------------- MODULE MCListener -----------------------------
(* Instances of Listener for TLC: which disturbances a run may meet. *)
EXTENDS Listener

Anything == [d \in Disturbances |-> 1]
=============================================================================
