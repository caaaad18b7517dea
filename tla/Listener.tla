------------------------------ MODULE Listener -----------------------------
(***************************************************************************)
(* How the workers of one process wait for work: each reads its queue and, *)
(* finding it empty, waits in PGMessageQueue.wait_for_notification for the *)
(* asyncio.Event that all queues of the object share.  A NOTIFY of the     *)
(* queue's listener connection, the registration of a listener and close() *)
(* set the event; whoever wakes clears it.                                 *)
(*                                                                         *)
(* A read is two steps, its snapshot in Postgres and its answer at the     *)
(* worker; so is the registration.  Between two awaits the event loop runs *)
(* nothing else (CPython 3.12: neither waiting for an event that is set    *)
(* nor wait_for suspends).  Rows are counted, not told apart.              *)
(***************************************************************************)
EXTENDS Integers

CONSTANTS
  Queues,   \* the queues of the object, one worker each
  Limit,    \* message_limit, the rows of a read
  Inserts,  \* how many rows may be inserted in a queue
  Budget    \* how often each kind of disturbance may happen

Disturbances == {"lost", "mute", "vt", "fault", "refused", "stop"}

ASSUME ListenerAssumption ==
  /\ Limit \in Nat \ {0} /\ Inserts \in Nat
  /\ Budget \in [Disturbances -> Nat]

VARIABLES
  fresh,      \* rows inserted and not read yet
  again,      \* rows whose vt has run out: visible with no NOTIFY
  todo,       \* inserts that may still happen
  conn,       \* each queue's listener connection: none, open, or mute: open
              \* as far as the process knows, but nothing comes through it
  notes,      \* a NOTIFY is on its way to the process
  event,      \* the shared asyncio.Event
  worker,     \* where each worker is
  stopping,   \* stop() has been called
  budget,     \* the disturbances that may still happen
  misled      \* history: the workers whose last read failed, or whose event
              \* another has cleared between that read and the wait

listenerVars ==
  <<fresh, again, todo, conn, notes, event, worker, stopping, budget, misled>>

At(q, pc) == worker[q] = pc
Spend(d) == budget[d] > 0 /\ budget' = [budget EXCEPT ![d] = @ - 1]

(* Event.set resolves every future that is waiting at that moment.         *)
Woken(w) == [q \in Queues |-> IF w[q] = "waiting" THEN "woken" ELSE w[q]]

(* Event.clear by the worker of q, also for those on their way to the wait.*)
OnTheirWay == {p \in Queues : worker[p] \in {"failed", "empty", "registering"}}
Clear(q) ==
  /\ event' = FALSE
  /\ misled' = misled \cup (OnTheirWay \ {q})

-----------------------------------------------------------------------------
(* Postgres.                                                               *)

(* enable_notify_insert: the insert of a row notifies who listens.         *)
Insert(q) ==
  /\ todo[q] > 0
  /\ todo' = [todo EXCEPT ![q] = @ - 1]
  /\ fresh' = [fresh EXCEPT ![q] = @ + 1]
  /\ notes' = [notes EXCEPT ![q] = @ \/ conn[q] = "open"]
  /\ UNCHANGED <<again, conn, event, worker, stopping, budget, misled>>

(* A row that was read and not settled becomes visible again, silently.    *)
Reappear(q) ==
  /\ Spend("vt")
  /\ again' = [again EXCEPT ![q] = @ + 1]
  /\ UNCHANGED <<fresh, todo, conn, notes, event, worker, stopping, misled>>

(* The listener connection breaks, with what was on its way, and the       *)
(* process sees it closed, or goes on believing in it.                     *)
Disconnect(q, d, to) ==
  /\ conn[q] = "open"
  /\ Spend(d)
  /\ conn' = [conn EXCEPT ![q] = to]
  /\ notes' = [notes EXCEPT ![q] = FALSE]
  /\ UNCHANGED <<fresh, again, todo, event, worker, stopping, misled>>
LoseConnection(q) == Disconnect(q, "lost", "none")
MuteConnection(q) == Disconnect(q, "mute", "mute")

(* The callback set_event runs.                                            *)
Notified(q) ==
  /\ notes[q]
  /\ notes' = [notes EXCEPT ![q] = FALSE]
  /\ event' = TRUE
  /\ worker' = Woken(worker)
  /\ UNCHANGED <<fresh, again, todo, conn, stopping, budget, misled>>

-----------------------------------------------------------------------------
(* run() of the worker of queue q.                                         *)

StartRead(q) ==
  /\ At(q, "top")
  /\ worker' = [worker EXCEPT ![q] = IF stopping THEN "ended" ELSE "reading"]
  /\ UNCHANGED <<fresh, again, todo, conn, notes, event, stopping, budget>>
  /\ misled' = misled \ {q}

(* Up to Limit rows are hidden; what becomes of them is WorkerQueue's.     *)
TakeRows(q) ==
  \E f \in 0..fresh[q], a \in 0..again[q] :
    /\ f + a = IF fresh[q] + again[q] < Limit THEN fresh[q] + again[q] ELSE Limit
    /\ fresh' = [fresh EXCEPT ![q] = @ - f]
    /\ again' = [again EXCEPT ![q] = @ - a]

Snapshot(q) ==
  /\ At(q, "reading")
  /\ TakeRows(q)
  /\ worker' = [worker EXCEPT ![q] = IF fresh[q] + again[q] = 0 THEN "empty" ELSE "top"]
  /\ UNCHANGED <<todo, conn, notes, event, stopping, budget, misled>>

(* The read raises, before or after its commit, and the worker sleeps.     *)
ReadFault(q) ==
  /\ At(q, "reading")
  /\ Spend("fault")
  /\ TakeRows(q) \/ UNCHANGED <<fresh, again>>
  /\ misled' = misled \cup {q}
  /\ worker' = [worker EXCEPT ![q] = "failed"]
  /\ UNCHANGED <<todo, conn, notes, event, stopping>>

(* Having slept it reports no messages, as if the queue were empty.        *)
SleepOver(q) ==
  /\ At(q, "failed")
  /\ worker' = [worker EXCEPT ![q] = "empty"]
  /\ UNCHANGED <<fresh, again, todo, conn, notes, event, stopping, budget, misled>>

(* wait_for_notification with a listener in place.  If the event is set    *)
(* the wait returns at once, and clears it.                                *)
EnterWait(q) ==
  /\ At(q, "empty") /\ conn[q] # "none"
  /\ IF event
     THEN /\ worker' = [worker EXCEPT ![q] = "top"]
          /\ Clear(q)
     ELSE /\ worker' = [worker EXCEPT ![q] = "waiting"]
          /\ UNCHANGED <<event, misled>>
  /\ UNCHANGED <<fresh, again, todo, conn, notes, stopping, budget>>

(* No listener, or a closed one: a new connection, and LISTEN on it.       *)
Register(q) ==
  /\ At(q, "empty") /\ conn[q] = "none"
  /\ conn' = [conn EXCEPT ![q] = "open"]
  /\ worker' = [worker EXCEPT ![q] = "registering"]
  /\ UNCHANGED <<fresh, again, todo, notes, event, stopping, budget, misled>>

(* It cannot be set up: run() raises.                                      *)
RegisterFault(q) ==
  /\ At(q, "empty") /\ conn[q] = "none"
  /\ Spend("refused")
  /\ worker' = [worker EXCEPT ![q] = "ended"]
  /\ UNCHANGED <<fresh, again, todo, conn, notes, event, stopping, misled>>

(* Mutant: no re-check after the registration.                             *)
RegisteredQuietly(q) ==
  /\ At(q, "registering")
  /\ worker' = [worker EXCEPT ![q] = "waiting"]
  /\ UNCHANGED <<fresh, again, todo, conn, notes, event, stopping, budget, misled>>

(* add_listener has returned: the event is set for a forced re-check, the  *)
(* wait returns at once and clears it; the others that waited are woken.   *)
Registered(q) ==
  /\ At(q, "registering")
  /\ Clear(q)
  /\ worker' = [Woken(worker) EXCEPT ![q] = "top"]
  /\ UNCHANGED <<fresh, again, todo, conn, notes, stopping, budget>>

Wake(q) ==
  /\ At(q, "woken")
  /\ Clear(q)
  /\ worker' = [worker EXCEPT ![q] = "top"]
  /\ UNCHANGED <<fresh, again, todo, conn, notes, stopping, budget>>

(* Mutant: the wait has no timeout.                                        *)
WaitForever(q) ==
  /\ At(q, "woken")
  /\ worker' = [worker EXCEPT ![q] = "top"]
  /\ UNCHANGED <<fresh, again, todo, conn, notes, event, stopping, budget, misled>>

(* wait_for times out, also when it is too late to be woken: the event     *)
(* stays as it is.                                                         *)
Timeout(q) ==
  /\ At(q, "waiting") \/ At(q, "woken")
  /\ worker' = [worker EXCEPT ![q] = "top"]
  /\ UNCHANGED <<fresh, again, todo, conn, notes, event, stopping, budget, misled>>

(* Mutant: close() does not set the event.                                 *)
StopQuietly ==
  /\ ~stopping /\ Spend("stop")
  /\ stopping' = TRUE
  /\ conn' = [q \in Queues |-> "none"]
  /\ notes' = [q \in Queues |-> FALSE]
  /\ UNCHANGED <<fresh, again, todo, event, worker, misled>>

(* Both stop() calls of the shutdown, which the event loop runs together:  *)
(* the event is set and the listener connections begin to close.           *)
StopAll ==
  /\ ~stopping /\ Spend("stop")
  /\ stopping' = TRUE
  /\ event' = TRUE
  /\ worker' = Woken(worker)
  /\ conn' = [q \in Queues |-> "none"]
  /\ notes' = [q \in Queues |-> FALSE]
  /\ UNCHANGED <<fresh, again, todo, misled>>

-----------------------------------------------------------------------------
ListenerInit ==
  /\ fresh = [q \in Queues |-> 0]
  /\ again = [q \in Queues |-> 0]
  /\ todo = [q \in Queues |-> Inserts]
  /\ conn = [q \in Queues |-> "none"]
  /\ notes = [q \in Queues |-> FALSE]
  /\ event = FALSE
  /\ worker = [q \in Queues |-> "top"]
  /\ stopping = FALSE
  /\ budget = Budget
  /\ misled = {}

WorkerStep(q) ==
  \/ StartRead(q) \/ Snapshot(q) \/ SleepOver(q)
  \/ EnterWait(q) \/ Register(q) \/ Registered(q) \/ Wake(q)

ListenerNext ==
  \/ \E q \in Queues :
       \/ WorkerStep(q) \/ Timeout(q) \/ Notified(q)
       \/ Insert(q) \/ Reappear(q) \/ ReadFault(q) \/ RegisterFault(q)
       \/ LoseConnection(q) \/ MuteConnection(q)
  \/ StopAll

ListenerSpec == ListenerInit /\ [][ListenerNext]_listenerVars

(* The event loop and Postgres make progress; no wait needs its timeout.   *)
Progress ==
  \A q \in Queues : WF_listenerVars(WorkerStep(q)) /\ WF_listenerVars(Notified(q))
FairListenerSpec == ListenerSpec /\ Progress

-----------------------------------------------------------------------------
ListenerTypeOK ==
  /\ fresh \in [Queues -> Nat] /\ again \in [Queues -> Nat] /\ todo \in [Queues -> Nat]
  /\ conn \in [Queues -> {"none", "open", "mute"}] /\ notes \in [Queues -> BOOLEAN]
  /\ event \in BOOLEAN /\ stopping \in BOOLEAN
  /\ worker \in [Queues ->
       {"top", "reading", "failed", "empty", "registering", "waiting", "woken", "ended"}]
  /\ budget \in [Disturbances -> Nat]
  /\ misled \subseteq Queues

(* Two leaks, and no third: a worker that waits with a live listener while *)
(* an inserted row is unread and nothing is on its way comes from a read   *)
(* that failed, or has been robbed since its last read of the event that   *)
(* all queues share (base.py:89-97, pg_message_queue.py:287-313).          *)
WakeUpsAreExplained ==
  \A q \in Queues :
    At(q, "waiting") /\ conn[q] = "open" /\ fresh[q] > 0 => notes[q] \/ q \in misled

(* If every wait ends after 290 to 310 seconds at the latest, every row is *)
(* read in the end as long as the worker is not stopped: also rows that    *)
(* reappear with no NOTIFY, and those whose NOTIFY was lost with the       *)
(* connection or to the other worker (pg_message_queue.py:305-321).        *)
WaitsEnd == \A q \in Queues : WF_listenerVars(Timeout(q))
EveryRowIsRead ==
  WaitsEnd =>
    \A q \in Queues :
      fresh[q] + again[q] > 0 ~> fresh[q] + again[q] = 0 \/ stopping \/ At(q, "ended")

(* A shutdown never waits for a timeout: close() wakes those who wait, and *)
(* who comes to wait later finds its connection closed and is sent round   *)
(* by the registration of a new one (base.py:45-57,                        *)
(* pg_message_queue.py:271-297,361-366).                                   *)
ShutdownIsPrompt == stopping ~> \A q \in Queues : At(q, "ended")

=============================================================================
