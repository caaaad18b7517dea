-------------------------- MODULE MCWebhookIngest --------------------------
(* Instances of WebhookIngest for TLC: which faults a run may meet. *)
EXTENDS WebhookIngest

OneEach == [f \in Faults |-> 1]
=============================================================================
