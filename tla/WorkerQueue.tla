---------------------------- MODULE WorkerQueue ----------------------------
(***************************************************************************)
(* One pgmq queue (to_cw or from_cw) and the BaseWorker instances that     *)
(* consume it, one per gateway process: the read loop, the semaphore, the  *)
(* tasks it starts, the error policy (delete, set_vt, archive), and the    *)
(* visibility timeout (vt) that hands an unfinished message to the next    *)
(* reader.  Postgres errors, process crashes and shutdown happen between   *)
(* any two awaits of the code.                                             *)
(*                                                                         *)
(* What a handler does with a payload is abstracted to its outcome; time   *)
(* is abstracted to Expire, which may strike whenever a vt is running; a   *)
(* read count saturates at Cap, past which the policy tells no two counts  *)
(* apart.                                                                  *)
(***************************************************************************)
EXTENDS Integers, FiniteSets

CONSTANTS
  Msgs,          \* the messages that may be sent to the queue
  Malformed,     \* those whose body does not decode to a JSON object
  Workers,       \* one BaseWorker per gateway process
  Limit,         \* message_limit: rows per read, and permits of the semaphore
  MaxTransient,  \* max_transient_attempts of a TransientError
  MaxUnknown,    \* the limit for unclassified exceptions
  Budget,        \* how often each kind of fault may happen
  NoMsg          \* what an idle slot works on

Faults == {"db", "listener", "crash", "stop"}

ASSUME WorkerQueueAssumption ==
  /\ Malformed \subseteq Msgs
  /\ NoMsg \notin Msgs
  /\ Limit \in Nat \ {0}
  /\ MaxTransient \in Nat \ {0}
  /\ MaxUnknown \in Nat
  /\ Budget \in [Faults -> Nat]

VARIABLES
  row,       \* where the message's row is: unsent, queued, deleted, archived
  visible,   \* queued rows whose vt has passed
  readCt,    \* pgmq's read_ct column, saturating at Cap
  loop,      \* where each worker's run() is
  stopping,  \* the workers whose _stopping event is set
  held,      \* the batch each run() has read and not yet turned into tasks
  task,      \* the tasks of each worker, one slot per semaphore permit
  budget,    \* the faults that may still happen
  handled,   \* history: messages some handler call completed for
  fatal      \* history: messages some handler call raised FatalError for

vars == <<row, visible, readCt, loop, stopping, held, task, budget, handled, fatal>>

Slots == 1..Limit
Cap == IF MaxTransient > MaxUnknown THEN MaxTransient ELSE MaxUnknown + 1
Bump(n) == IF n < Cap THEN n + 1 ELSE n

(* A lease is one message as one read returned it; it is fresh until the   *)
(* vt that the read set has run out.                                       *)
Lease == [msg : Msgs, ct : 0..Cap, fresh : BOOLEAN]
Errors == {"transient", "fatal", "unknown"}
Idle == [pc |-> "idle", msg |-> NoMsg, ct |-> 0, fresh |-> FALSE]
Busy == [pc : {"handling", "settling"} \cup Errors, msg : Msgs, ct : 0..Cap, fresh : BOOLEAN]
Task == {Idle} \cup Busy

Running(w) == {s \in Slots : task[<<w, s>>].pc # "idle"}
Visible == {m \in Msgs : row[m] = "queued" /\ visible[m]}
Spend(f) == budget[f] > 0 /\ budget' = [budget EXCEPT ![f] = @ - 1]

-----------------------------------------------------------------------------
(* The producer's side, and time.                                          *)

(* mq.send: the row is inserted, visible at once.                          *)
Send(m) ==
  /\ row[m] = "unsent"
  /\ row' = [row EXCEPT ![m] = "queued"]
  /\ visible' = [visible EXCEPT ![m] = TRUE]
  /\ UNCHANGED <<readCt, loop, stopping, held, task, budget, handled, fatal>>

(* The vt of a row runs out: any reader may take it, whoever holds it now. *)
Expire(m) ==
  /\ row[m] = "queued" /\ ~visible[m]
  /\ visible' = [visible EXCEPT ![m] = TRUE]
  /\ held' = [w \in Workers |->
                {IF l.msg = m THEN [l EXCEPT !.fresh = FALSE] ELSE l : l \in held[w]}]
  /\ task' = [ws \in Workers \X Slots |->
                IF task[ws].msg = m THEN [task[ws] EXCEPT !.fresh = FALSE] ELSE task[ws]]
  /\ UNCHANGED <<row, readCt, loop, stopping, budget, handled, fatal>>

-----------------------------------------------------------------------------
(* run(): the read loop of worker w.                                       *)

(* Mutant: the read does not hide what it returns.                         *)
TakeWithoutVt(batch) ==
  /\ UNCHANGED visible
  /\ readCt' = [m \in Msgs |-> IF m \in batch THEN Bump(readCt[m]) ELSE readCt[m]]

(* pgmq.read hides the rows of a batch and counts the read.                *)
Take(batch) ==
  /\ visible' = [m \in Msgs |-> visible[m] /\ m \notin batch]
  /\ readCt' = [m \in Msgs |-> IF m \in batch THEN Bump(readCt[m]) ELSE readCt[m]]

(* What one read may return: every visible row, or a full batch of them.   *)
Batches == {b \in SUBSET Visible :
              Cardinality(b) <= Limit /\ (b = Visible \/ Cardinality(b) = Limit)}

Read(w) ==
  /\ loop[w] = "top" /\ w \notin stopping
  /\ \E batch \in Batches \ {{}} :
       /\ Take(batch)
       /\ held' = [held EXCEPT ![w] =
                     {[msg |-> m, ct |-> Bump(readCt[m]), fresh |-> TRUE] : m \in batch}]
  /\ loop' = [loop EXCEPT ![w] = "batch"]
  /\ UNCHANGED <<row, stopping, task, budget, handled, fatal>>

ReadNothing(w) ==
  /\ loop[w] = "top" /\ w \notin stopping
  /\ Visible = {}
  /\ loop' = [loop EXCEPT ![w] = "idle"]
  /\ UNCHANGED <<row, visible, readCt, stopping, held, task, budget, handled, fatal>>

(* The read raises, before or after Postgres committed it: the worker      *)
(* sleeps, reports no messages and goes on to wait for a notification.     *)
ReadFault(w) ==
  /\ loop[w] = "top" /\ w \notin stopping
  /\ Spend("db")
  /\ \E batch \in Batches \cup {{}} : Take(batch)
  /\ loop' = [loop EXCEPT ![w] = "idle"]
  /\ UNCHANGED <<row, stopping, held, task, handled, fatal>>

(* Mutant: the wait ends only when there is something to read.             *)
WakeForMessages(w) ==
  /\ loop[w] = "idle" /\ Visible # {}
  /\ loop' = [loop EXCEPT ![w] = "top"]
  /\ UNCHANGED <<row, visible, readCt, stopping, held, task, budget, handled, fatal>>

(* wait_for_notification returns: a notification, close() or the timeout.  *)
Wake(w) ==
  /\ loop[w] = "idle"
  /\ loop' = [loop EXCEPT ![w] = "top"]
  /\ UNCHANGED <<row, visible, readCt, stopping, held, task, budget, handled, fatal>>

(* Setting up the listener connection raises: run() re-raises it.          *)
ListenerFault(w) ==
  /\ loop[w] = "idle"
  /\ Spend("listener")
  /\ loop' = [loop EXCEPT ![w] = "finalizing"]
  /\ UNCHANGED <<row, visible, readCt, stopping, held, task, handled, fatal>>

(* The head of the for loop: give up the rest of the batch when stopping,  *)
(* else go and wait for the semaphore.                                     *)
NextMessage(w) ==
  /\ loop[w] = "batch"
  /\ \/ /\ w \in stopping
        /\ held' = [held EXCEPT ![w] = {}]
        /\ loop' = [loop EXCEPT ![w] = "top"]
     \/ /\ w \notin stopping
        /\ loop' = [loop EXCEPT ![w] = "acquire"]
        /\ UNCHANGED held
  /\ UNCHANGED <<row, visible, readCt, stopping, task, budget, handled, fatal>>

(* A permit is free: the task is created, and stopping is not looked at    *)
(* again.                                                                  *)
StartTask(w) ==
  /\ loop[w] = "acquire"
  /\ \E l \in held[w], s \in Slots \ Running(w) :
       /\ task' = [task EXCEPT ![<<w, s>>] =
                     [pc |-> "handling", msg |-> l.msg, ct |-> l.ct, fresh |-> l.fresh]]
       /\ held' = [held EXCEPT ![w] = @ \ {l}]
       /\ loop' = [loop EXCEPT ![w] = IF held[w] = {l} THEN "top" ELSE "batch"]
  /\ UNCHANGED <<row, visible, readCt, stopping, budget, handled, fatal>>

LeaveLoop(w) ==
  /\ loop[w] = "top" /\ w \in stopping
  /\ loop' = [loop EXCEPT ![w] = "finalizing"]
  /\ UNCHANGED <<row, visible, readCt, stopping, held, task, budget, handled, fatal>>

(* The finally clause has awaited every task: run() is over.  Nothing      *)
(* starts it again within this process.                                    *)
Finalize(w) ==
  /\ loop[w] = "finalizing"
  /\ Running(w) = {}
  /\ loop' = [loop EXCEPT ![w] = "ended"]
  /\ UNCHANGED <<row, visible, readCt, stopping, held, task, budget, handled, fatal>>

-----------------------------------------------------------------------------
(* One task: _process_wrapper, _handle_with_retries, _handle_error.        *)

EndTask(w, s) == task' = [task EXCEPT ![<<w, s>>] = Idle]

(* Mutant: a delete or archive does not care whether the row is still in   *)
(* the queue.                                                              *)
MoveRowAnyway(m, to) == row' = [row EXCEPT ![m] = to]

MoveRow(m, to) == row' = [row EXCEPT ![m] = IF @ = "queued" THEN to ELSE @]

(* Mutant: the error of the decoding is swallowed.                         *)
ParseFailsQuietly(w, s) ==
  /\ task[<<w, s>>].pc = "handling" /\ task[<<w, s>>].msg \in Malformed
  /\ task' = [task EXCEPT ![<<w, s>>].pc = "settling"]
  /\ UNCHANGED <<row, visible, readCt, loop, stopping, held, budget, handled, fatal>>

(* _prepare_message raises before the error policy is in scope.            *)
ParseFails(w, s) ==
  /\ task[<<w, s>>].pc = "handling" /\ task[<<w, s>>].msg \in Malformed
  /\ EndTask(w, s)
  /\ UNCHANGED <<row, visible, readCt, loop, stopping, held, budget, handled, fatal>>

HandlerReturns(w, s) ==
  /\ task[<<w, s>>].pc = "handling" /\ task[<<w, s>>].msg \notin Malformed
  /\ task' = [task EXCEPT ![<<w, s>>].pc = "settling"]
  /\ handled' = handled \cup {task[<<w, s>>].msg}
  /\ UNCHANGED <<row, visible, readCt, loop, stopping, held, budget, fatal>>

HandlerRaises(w, s) ==
  /\ task[<<w, s>>].pc = "handling" /\ task[<<w, s>>].msg \notin Malformed
  /\ \E e \in Errors :
       /\ task' = [task EXCEPT ![<<w, s>>].pc = e]
       /\ fatal' = IF e = "fatal" THEN fatal \cup {task[<<w, s>>].msg} ELSE fatal
  /\ UNCHANGED <<row, visible, readCt, loop, stopping, held, budget, handled>>

Delete(w, s) ==
  /\ task[<<w, s>>].pc = "settling"
  /\ MoveRow(task[<<w, s>>].msg, "deleted")
  /\ EndTask(w, s)
  /\ UNCHANGED <<visible, readCt, loop, stopping, held, budget, handled, fatal>>

(* The delete raises, having reached the table or not: the error policy    *)
(* treats the message as one whose handler failed.                         *)
DeleteFault(w, s) ==
  /\ task[<<w, s>>].pc = "settling"
  /\ Spend("db")
  /\ MoveRow(task[<<w, s>>].msg, "deleted") \/ UNCHANGED row
  /\ \E e \in {"transient", "unknown"} : task' = [task EXCEPT ![<<w, s>>].pc = e]
  /\ UNCHANGED <<visible, readCt, loop, stopping, held, handled, fatal>>

(* Mutant: a transient error is retried for ever.                          *)
ReschedulesForever(t) == t.pc = "transient"

(* The decisions of _handle_error, on the read count the task was given.   *)
GivesUp(t) ==
  \/ t.pc = "transient" /\ t.ct >= MaxTransient
  \/ t.pc = "fatal"
  \/ t.pc = "unknown" /\ t.ct > MaxUnknown
Reschedules(t) == t.pc = "transient" /\ t.ct < MaxTransient
LeavesAlone(t) == t.pc = "unknown" /\ t.ct <= MaxUnknown

Archive(w, s) ==
  /\ GivesUp(task[<<w, s>>])
  /\ MoveRow(task[<<w, s>>].msg, "archived")
  /\ EndTask(w, s)
  /\ UNCHANGED <<visible, readCt, loop, stopping, held, budget, handled, fatal>>

(* set_vt on a row that is gone changes nothing.                           *)
SetVt(w, s) ==
  /\ Reschedules(task[<<w, s>>])
  /\ visible' = [visible EXCEPT ![task[<<w, s>>].msg] = FALSE]
  /\ EndTask(w, s)
  /\ UNCHANGED <<row, readCt, loop, stopping, held, budget, handled, fatal>>

LeaveVisible(w, s) ==
  /\ LeavesAlone(task[<<w, s>>])
  /\ EndTask(w, s)
  /\ UNCHANGED <<row, visible, readCt, loop, stopping, held, budget, handled, fatal>>

(* The policy's own archive or set_vt raises, out of _handle_error: the    *)
(* task dies and only the vt brings the message back.                      *)
PolicyFault(w, s) ==
  /\ GivesUp(task[<<w, s>>]) \/ Reschedules(task[<<w, s>>])
  /\ Spend("db")
  /\ \/ UNCHANGED <<row, visible>>
     \/ /\ GivesUp(task[<<w, s>>])
        /\ MoveRow(task[<<w, s>>].msg, "archived")
        /\ UNCHANGED visible
     \/ /\ Reschedules(task[<<w, s>>])
        /\ visible' = [visible EXCEPT ![task[<<w, s>>].msg] = FALSE]
        /\ UNCHANGED row
  /\ EndTask(w, s)
  /\ UNCHANGED <<readCt, loop, stopping, held, handled, fatal>>

-----------------------------------------------------------------------------
(* The process around the worker.                                          *)

(* The lifespan's shutdown calls stop().                                   *)
Stop(w) ==
  /\ loop[w] # "down" /\ w \notin stopping
  /\ Spend("stop")
  /\ stopping' = stopping \cup {w}
  /\ UNCHANGED <<row, visible, readCt, loop, held, task, handled, fatal>>

Crash(w) ==
  /\ loop[w] # "down"
  /\ Spend("crash")
  /\ loop' = [loop EXCEPT ![w] = "down"]
  /\ held' = [held EXCEPT ![w] = {}]
  /\ task' = [ws \in Workers \X Slots |-> IF ws[1] = w THEN Idle ELSE task[ws]]
  /\ UNCHANGED <<row, visible, readCt, stopping, handled, fatal>>

(* A process that crashed or shut down is started again.  One whose run()  *)
(* died of an exception keeps running without it.                          *)
Restart(w) ==
  /\ loop[w] = "down" \/ (loop[w] = "ended" /\ w \in stopping)
  /\ loop' = [loop EXCEPT ![w] = "top"]
  /\ stopping' = stopping \ {w}
  /\ UNCHANGED <<row, visible, readCt, held, task, budget, handled, fatal>>

-----------------------------------------------------------------------------
Init ==
  /\ row = [m \in Msgs |-> "unsent"]
  /\ visible = [m \in Msgs |-> FALSE]
  /\ readCt = [m \in Msgs |-> 0]
  /\ loop = [w \in Workers |-> "top"]
  /\ stopping = {}
  /\ held = [w \in Workers |-> {}]
  /\ task = [ws \in Workers \X Slots |-> Idle]
  /\ budget = Budget
  /\ handled = {}
  /\ fatal = {}

LoopStep(w) ==
  \/ Read(w) \/ ReadNothing(w) \/ Wake(w) \/ NextMessage(w) \/ StartTask(w)
  \/ LeaveLoop(w) \/ Finalize(w)

TaskStep(w, s) ==
  \/ ParseFails(w, s) \/ HandlerReturns(w, s) \/ HandlerRaises(w, s)
  \/ Delete(w, s) \/ Archive(w, s) \/ SetVt(w, s) \/ LeaveVisible(w, s)

FaultStep(w) ==
  \/ ReadFault(w) \/ ListenerFault(w) \/ Stop(w) \/ Crash(w)
  \/ \E s \in Slots : DeleteFault(w, s) \/ PolicyFault(w, s)

Next ==
  \/ \E m \in Msgs : Send(m) \/ Expire(m)
  \/ \E w \in Workers : LoopStep(w) \/ FaultStep(w) \/ Restart(w)
  \/ \E w \in Workers, s \in Slots : TaskStep(w, s)

Spec == Init /\ [][Next]_vars

(* The event loop runs every ready coroutine, handlers end (their calls    *)
(* have timeouts), a wait for a notification times out after 290-310 s,    *)
(* a vt runs out, and the containers restart (restart: unless-stopped).    *)
Fairness ==
  /\ \A m \in Msgs : WF_vars(Expire(m))
  /\ \A w \in Workers : WF_vars(LoopStep(w)) /\ WF_vars(Restart(w))
  /\ \A w \in Workers, s \in Slots : WF_vars(TaskStep(w, s))

FairSpec == Spec /\ Fairness

-----------------------------------------------------------------------------
TypeOK ==
  /\ row \in [Msgs -> {"unsent", "queued", "deleted", "archived"}]
  /\ visible \in [Msgs -> BOOLEAN]
  /\ readCt \in [Msgs -> 0..Cap]
  /\ loop \in [Workers -> {"top", "idle", "batch", "acquire", "finalizing", "ended", "down"}]
  /\ stopping \subseteq Workers
  /\ held \in [Workers -> SUBSET Lease]
  /\ task \in [Workers \X Slots -> Task]
  /\ budget \in [Faults -> Nat]
  /\ handled \subseteq Msgs
  /\ fatal \subseteq Msgs

(* A message leaves the queue as delivered only if some handler call did   *)
(* complete for it, whatever stale tasks, retries and failed deletes came  *)
(* in between (base.py:262-272).                                           *)
DeletedWasHandled == \A m \in Msgs : row[m] = "deleted" => m \in handled

(* A message is dead-lettered only if its handler once raised FatalError   *)
(* or if it really has been read as often as a retry limit demands: a task *)
(* decides on the count of its own read, which may be long out of date     *)
(* (base.py:274-318).                                                      *)
Hopeless(m) == m \in fatal \/ readCt[m] >= MaxTransient \/ readCt[m] > MaxUnknown
ArchivedWasHopeless == \A m \in Msgs : row[m] = "archived" => Hopeless(m)

(* A read gives its worker temporary exclusivity: of all the batches and   *)
(* tasks that hold a message, in all processes, at most one holds it under *)
(* a vt that is still running, and then no reader can take the row         *)
(* (docs/retry_and_pgmq_architecture.md:25).                               *)
ExclusiveLease ==
  /\ \A w1, w2 \in Workers : \A l1 \in held[w1], l2 \in held[w2] :
       l1.fresh /\ l2.fresh /\ l1.msg = l2.msg => w1 = w2 /\ l1 = l2
  /\ \A t1, t2 \in Workers \X Slots :
       task[t1].fresh /\ task[t2].fresh /\ task[t1].msg = task[t2].msg => t1 = t2
  /\ \A w \in Workers : \A l \in held[w], t \in Workers \X Slots :
       ~(l.fresh /\ task[t].fresh /\ l.msg = task[t].msg)
  /\ \A w \in Workers : \A l \in held[w] : l.fresh => ~visible[l.msg]
  /\ \A t \in Workers \X Slots : task[t].fresh => ~visible[task[t].msg]

(* The queue and its workers keep the promise of AtLeastOnceQueue.         *)
AtLeastOnce == INSTANCE AtLeastOnceQueue WITH
  pending <- {m \in Msgs : row[m] = "queued"},
  acked <- {m \in Msgs : row[m] = "deleted"},
  deadLettered <- {m \in Msgs : row[m] = "archived"},
  done <- handled,
  hopeless <- {m \in Msgs : Hopeless(m)}
KeepsPromise == AtLeastOnce!ASpec

(* Every message whose body decodes is delivered or dead-lettered in the   *)
(* end: no crash, failed read, failed delete, failed archive or shutdown   *)
(* in the middle of a batch strands it.                                    *)
EveryMessageSettles ==
  \A m \in Msgs \ Malformed : row[m] = "queued" ~> row[m] \in {"deleted", "archived"}

(* A message whose body does not decode is never taken for one that was    *)
(* handled, nor dead-lettered, by whatever mix of crashes, stale tasks and *)
(* faults: it stays in the queue, and no limit ends its retries            *)
(* (base.py:158-174).                                                      *)
UndecodedStays == \A m \in Malformed : row[m] \in {"unsent", "queued"}

(* A worker asked to stop does stop: from a wait, from the middle of a     *)
(* batch or waiting for a permit, with the tasks it has awaited.           *)
ShutdownCompletes == \A w \in Workers : w \in stopping ~> loop[w] \in {"ended", "down"}

=============================================================================
