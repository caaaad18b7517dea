-------------------------- MODULE MCSignalBridge ---------------------------
(* The instances of SignalBridge that TLC checks: their constants are plain *)
(* values, which the cfg files give.                                       *)
EXTENDS SignalBridge
=============================================================================
