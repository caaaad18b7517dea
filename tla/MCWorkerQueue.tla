--------------------------- MODULE MCWorkerQueue ---------------------------
(* Instances of WorkerQueue for TLC: which faults a run may meet, and how often. *)
EXTENDS WorkerQueue, TLC

SymWorkers == Permutations(Workers)

(* One fault of every kind. *)
AnyFault == [f \in Faults |-> 1]
(* All but the listener: its connection can always be made. *)
SteadyListener == [f \in Faults |-> IF f = "listener" THEN 0 ELSE 1]
=============================================================================
