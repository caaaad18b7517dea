--------------------------- MODULE WebhookIngest ---------------------------
(***************************************************************************)
(* How a webhook becomes a row of a pgmq queue.  A source (a messenger or  *)
(* Chatwoot) posts an event and posts it again until it sees a 2xx answer; *)
(* each request is one handler, and several may work on the same event at  *)
(* once.  A handler checks the idempotency key, sends the envelope, marks  *)
(* the key, and confirms to the user where the channel does: each a        *)
(* transaction or call of its own, with Postgres errors, lost answers and  *)
(* crashes between any two.                                                *)
(*                                                                         *)
(* The payload, the envelope and the key are abstracted to the event.      *)
(***************************************************************************)
EXTENDS Integers, FiniteSets

CONSTANTS
  Events,      \* what the sources report
  Foreign,     \* those that are no message for the gateway (WrongUpdateTypeError)
  Unroutable,  \* those of an unknown connector (ConnectorNotFoundError)
  Confirmed,   \* those of a channel with enable_channel_delivery_confirmation
  Handlers,    \* requests that may be in progress at once, in all processes
  Budget,      \* how often each kind of fault may happen
  NoEvent      \* what an idle handler works on

Faults == {"db", "call", "answer", "crash"}

ASSUME WebhookIngestAssumption ==
  /\ Foreign \subseteq Events /\ Unroutable \subseteq Events /\ Confirmed \subseteq Events
  /\ Foreign \cap Unroutable = {}
  /\ NoEvent \notin Events
  /\ IsFiniteSet(Handlers)
  /\ Budget \in [Faults -> Nat]

VARIABLES
  due,      \* events that have happened
  acked,    \* events whose source has seen a 2xx answer
  copies,   \* rows that were sent to the queue for an event
  marked,   \* events whose key is in processed_keys
  handler,  \* what each request is at, and the answer it is about to give
  budget    \* the faults that may still happen

vars == <<due, acked, copies, marked, handler, budget>>

Messages == Events \ (Foreign \cup Unroutable)
Idle == [pc |-> "idle", ev |-> NoEvent, status |-> 0]
Statuses == {200, 204, 404, 500, 503}
Handler ==
  {Idle} \cup [pc : {"build", "check", "send", "mark", "confirm"}, ev : Events, status : {0}]
         \cup [pc : {"answer"}, ev : Events, status : Statuses]

At(h, pc) == handler[h].pc = pc
Spend(f) == budget[f] > 0 /\ budget' = [budget EXCEPT ![f] = @ - 1]

GoTo(h, pc) == handler' = [handler EXCEPT ![h].pc = pc]
Respond(h, status) ==
  handler' = [handler EXCEPT ![h] = [pc |-> "answer", ev |-> @.ev, status |-> status]]
(* _handle_exceptions: a TransientError is a 503 with Retry-After; what it *)
(* does not know is raised on and becomes a 500.                           *)
Fail(h) == \E status \in {500, 503} : Respond(h, status)

-----------------------------------------------------------------------------
(* The source.                                                             *)

Happen(e) ==
  /\ e \notin due
  /\ due' = due \cup {e}
  /\ UNCHANGED <<acked, copies, marked, handler, budget>>

(* The event is posted, for the first time or again: also while an earlier *)
(* request is still being worked on.                                       *)
Post(e) ==
  /\ e \in due \ acked
  /\ \E h \in Handlers :
       /\ At(h, "idle")
       /\ handler' = [handler EXCEPT ![h] = [pc |-> "build", ev |-> e, status |-> 0]]
  /\ UNCHANGED <<due, acked, copies, marked, budget>>

Hear(h) ==
  /\ At(h, "answer")
  /\ acked' = IF handler[h].status \in {200, 204} THEN acked \cup {handler[h].ev} ELSE acked
  /\ handler' = [handler EXCEPT ![h] = Idle]
  /\ UNCHANGED <<due, copies, marked, budget>>

LoseAnswer(h) ==
  /\ At(h, "answer")
  /\ Spend("answer")
  /\ handler' = [handler EXCEPT ![h] = Idle]
  /\ UNCHANGED <<due, acked, copies, marked>>

-----------------------------------------------------------------------------
(* The handler.                                                            *)

(* The registry and connector lookups, the parser, the attachments, the    *)
(* alias: no state of this model, but several ways out.                    *)
Build(h) ==
  /\ At(h, "build")
  /\ \/ handler[h].ev \in Messages /\ GoTo(h, "check")
     \/ handler[h].ev \in Foreign /\ Respond(h, 204)
     \/ handler[h].ev \in Unroutable /\ Respond(h, 404)
  /\ UNCHANGED <<due, acked, copies, marked, budget>>

BuildFault(h) ==
  /\ At(h, "build")
  /\ Spend("call")
  /\ Fail(h)
  /\ UNCHANGED <<due, acked, copies, marked>>

(* Mutants: the key is never looked up; a known key is an error.           *)
CheckRefuses(h) ==
  /\ At(h, "check")
  /\ IF handler[h].ev \in marked THEN Respond(h, 500) ELSE GoTo(h, "send")
  /\ UNCHANGED <<due, acked, copies, marked, budget>>

CheckNothing(h) ==
  /\ At(h, "check")
  /\ GoTo(h, "send")
  /\ UNCHANGED <<due, acked, copies, marked, budget>>

(* is_already_processed: a known key is answered 200.                      *)
Check(h) ==
  /\ At(h, "check")
  /\ IF handler[h].ev \in marked THEN Respond(h, 200) ELSE GoTo(h, "send")
  /\ UNCHANGED <<due, acked, copies, marked, budget>>

CheckFault(h) ==
  /\ At(h, "check")
  /\ Spend("db")
  /\ Fail(h)
  /\ UNCHANGED <<due, acked, copies, marked>>

AddCopy(e) == copies' = [copies EXCEPT ![e] = @ + 1]

Send(h) ==
  /\ At(h, "send")
  /\ AddCopy(handler[h].ev)
  /\ GoTo(h, "mark")
  /\ UNCHANGED <<due, acked, marked, budget>>

(* Mutant: the error of the send is swallowed and the key marked.          *)
SendFaultIgnored(h) ==
  /\ At(h, "send")
  /\ Spend("db")
  /\ AddCopy(handler[h].ev) \/ UNCHANGED copies
  /\ GoTo(h, "mark")
  /\ UNCHANGED <<due, acked, marked>>

(* The send raises, before or after Postgres committed it.                 *)
SendFault(h) ==
  /\ At(h, "send")
  /\ Spend("db")
  /\ AddCopy(handler[h].ev) \/ UNCHANGED copies
  /\ Fail(h)
  /\ UNCHANGED <<due, acked, marked>>

Finish(h) ==
  IF handler[h].ev \in Confirmed THEN GoTo(h, "confirm") ELSE Respond(h, 204)

(* mark_as_processed: INSERT ... ON CONFLICT DO NOTHING.                   *)
Mark(h) ==
  /\ At(h, "mark")
  /\ marked' = marked \cup {handler[h].ev}
  /\ Finish(h)
  /\ UNCHANGED <<due, acked, copies, budget>>

(* The mark raises, before or after its commit: the source will post an    *)
(* event that is already in the queue.                                     *)
MarkFault(h) ==
  /\ At(h, "mark")
  /\ Spend("db")
  /\ marked' = marked \cup {handler[h].ev} \/ UNCHANGED marked
  /\ Fail(h)
  /\ UNCHANGED <<due, acked, copies>>

Confirm(h) ==
  /\ At(h, "confirm")
  /\ Respond(h, 204)
  /\ UNCHANGED <<due, acked, copies, marked, budget>>

(* The confirmation raises: a 500 for a message that is in the queue.      *)
ConfirmFault(h) ==
  /\ At(h, "confirm")
  /\ Spend("call")
  /\ Fail(h)
  /\ UNCHANGED <<due, acked, copies, marked>>

(* A process dies with all the requests it was working on.                 *)
Crash ==
  /\ Spend("crash")
  /\ \E dead \in (SUBSET Handlers) \ {{}} :
       handler' = [h \in Handlers |-> IF h \in dead THEN Idle ELSE handler[h]]
  /\ UNCHANGED <<due, acked, copies, marked>>

-----------------------------------------------------------------------------
Init ==
  /\ due = {} /\ acked = {} /\ marked = {}
  /\ copies = [e \in Events |-> 0]
  /\ handler = [h \in Handlers |-> Idle]
  /\ budget = Budget

HandlerStep(h) == Build(h) \/ Check(h) \/ Send(h) \/ Mark(h) \/ Confirm(h) \/ Hear(h)

FaultStep(h) ==
  \/ BuildFault(h) \/ CheckFault(h) \/ SendFault(h) \/ MarkFault(h)
  \/ ConfirmFault(h) \/ LoseAnswer(h)

Next ==
  \/ \E e \in Events : Happen(e) \/ Post(e)
  \/ \E h \in Handlers : HandlerStep(h) \/ FaultStep(h)
  \/ Crash

Spec == Init /\ [][Next]_vars

(* The source does not give up while it has seen no 2xx; the server is     *)
(* never out of handlers for ever, which the bound of the model would      *)
(* otherwise allow: hence strong fairness of Post.                         *)
Fairness ==
  /\ \A e \in Events : SF_vars(Post(e))
  /\ \A h \in Handlers : WF_vars(HandlerStep(h))

FairSpec == Spec /\ Fairness

-----------------------------------------------------------------------------
TypeOK ==
  /\ due \subseteq Events /\ acked \subseteq Events /\ marked \subseteq Events
  /\ copies \in [Events -> Nat]
  /\ handler \in [Handlers -> Handler]
  /\ budget \in [Faults -> Nat]

(* A message is in the queue before anybody is told so: before its key is  *)
(* marked, before a handler is about to answer 2xx, and before its source  *)
(* stops posting it (tg_message_processor.py:66-106).                      *)
Answered == {handler[h].ev : h \in {g \in Handlers : handler[g].status \in {200, 204}}}
AcknowledgedIsQueued ==
  \A e \in Messages \cap (marked \cup acked \cup Answered) : copies[e] > 0

(* What is no message for the gateway never reaches the queue, and every    *)
(* row beyond the first has a cause: a request that overlaps another, a    *)
(* Postgres error, or a crash.  With one request at a time and no fault    *)
(* there is at most one row per event (tg_message_processor.py:66-106).    *)
Spent(f) == Budget[f] - budget[f]
CopiesAreExplained ==
  \A e \in Events :
    copies[e] <= IF e \in Messages
                 THEN Cardinality(Handlers) * (1 + Spent("crash")) + Spent("db")
                 ELSE 0

(* The source of a routable event gets to hear a 2xx and stops posting,    *)
(* whatever fails on the way; with AcknowledgedIsQueued, every message that*)
(* happens reaches the queue.                                              *)
PostingEnds == \A e \in Events \ Unroutable : e \in due ~> e \in acked

=============================================================================
