------------------------- MODULE AtLeastOnceQueue --------------------------
(***************************************************************************)
(* What a gateway queue and its workers promise together, with no reads,   *)
(* timeouts, workers or retries in sight: a message that was put is        *)
(* acknowledged or dead-lettered at most once and never both, it is        *)
(* acknowledged only after some handler call completed for it, and it is   *)
(* dead-lettered only once giving it up is justified.  A message may be    *)
(* handled any number of times, even after it was settled.                 *)
(***************************************************************************)
CONSTANT Msgs
VARIABLES
  pending,       \* messages put and not settled
  acked,         \* messages acknowledged
  deadLettered,  \* messages given up
  done,          \* messages some handler call completed for
  hopeless       \* messages it is justified to give up

avars == <<pending, acked, deadLettered, done, hopeless>>

Known == pending \cup acked \cup deadLettered

AInit ==
  /\ pending = {} /\ acked = {} /\ deadLettered = {}
  /\ done = {} /\ hopeless = {}

Put(m) ==
  /\ m \notin Known
  /\ pending' = pending \cup {m}
  /\ UNCHANGED <<acked, deadLettered, done, hopeless>>

Attempt(m) ==
  /\ m \in Known
  /\ \/ done' = done \cup {m} /\ UNCHANGED hopeless
     \/ hopeless' = hopeless \cup {m} /\ UNCHANGED done
  /\ UNCHANGED <<pending, acked, deadLettered>>

(* Several messages may become hopeless in one step: a read returns a batch. *)
Despair(batch) ==
  /\ batch \subseteq Known
  /\ hopeless' = hopeless \cup batch
  /\ UNCHANGED <<pending, acked, deadLettered, done>>

Ack(m) ==
  /\ m \in pending /\ m \in done
  /\ pending' = pending \ {m}
  /\ acked' = acked \cup {m}
  /\ UNCHANGED <<deadLettered, done, hopeless>>

GiveUp(m) ==
  /\ m \in pending /\ m \in hopeless
  /\ pending' = pending \ {m}
  /\ deadLettered' = deadLettered \cup {m}
  /\ UNCHANGED <<acked, done, hopeless>>

ANext ==
  \/ \E m \in Msgs : Put(m) \/ Attempt(m) \/ Ack(m) \/ GiveUp(m)
  \/ \E batch \in SUBSET Msgs : Despair(batch)

ASpec == AInit /\ [][ANext]_avars
=============================================================================
