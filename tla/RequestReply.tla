--------------------------- MODULE RequestReply ----------------------------
(***************************************************************************)
(* What the caller of a messenger's client is promised, whatever goes      *)
(* wrong between the two: a call is performed at most once, "ok" is only   *)
(* said of a call that has been performed, and an outcome is final.  A     *)
(* transient outcome says nothing: the call may have been performed        *)
(* before, or may be performed afterwards.  Of a client that cannot tell   *)
(* the replies apart the promise has an exception: what it says of a call  *)
(* in doubt may be another's outcome, and a call is in doubt only after    *)
(* another one has ended with a transient outcome.                         *)
(***************************************************************************)
CONSTANTS
  Calls,      \* the calls that may be made
  Outcomes    \* ok, transient and fatal

VARIABLES
  made,       \* calls made
  performed,  \* calls the messenger has performed
  outcome,    \* what each caller was told so far
  doubted     \* calls that may be told the outcome of another

absVars == <<made, performed, outcome, doubted>>

Init ==
  /\ made = {} /\ performed = {} /\ doubted = {}
  /\ outcome = [c \in Calls |-> "none"]

Make(c) ==
  /\ c \notin made
  /\ made' = made \cup {c}
  /\ UNCHANGED <<performed, outcome>>

Perform(c) ==
  /\ c \in made \ performed
  /\ performed' = performed \cup {c}
  /\ UNCHANGED <<made, outcome>>

(* A call may be turned down at once.                                      *)
Refuse(c) ==
  /\ c \notin made
  /\ made' = made \cup {c}
  /\ outcome' = [outcome EXCEPT ![c] = "transient"]
  /\ UNCHANGED performed

Tell(c) ==
  /\ c \in made /\ outcome[c] = "none"
  /\ \E o \in Outcomes :
       /\ o = "ok" => c \in performed \cup doubted
       /\ outcome' = [outcome EXCEPT ![c] = o]
  /\ UNCHANGED <<made, performed>>

(* Doubt comes with a step, and does not go.                               *)
Doubt ==
  /\ doubted \subseteq doubted' /\ doubted' \subseteq made'
  /\ \A c \in doubted' \ doubted : \E d \in Calls \ {c} : outcome'[d] = "transient"

Next ==
  /\ \E c \in Calls : Make(c) \/ Refuse(c) \/ Perform(c) \/ Tell(c)
  /\ Doubt

Spec == Init /\ [][Next]_absVars
=============================================================================
