------------------------------ MODULE Lifecycle ------------------------------
(***************************************************************************)
(* The life of a gateway process: its channels start, among them Delta     *)
(* Chat with an event thread per account, its two workers run on one pool  *)
(* of connections, and a shutdown stops the channels, closes Chatwoot's    *)
(* session, stops the workers and waits for them.  Both workers close the  *)
(* queue object, and with it the pool, while their tasks still use it.     *)
(*                                                                         *)
(* A worker's loop and its task (message_limit is 1) are the users of the  *)
(* pool.  How messages are settled is the matter of WorkerQueue, how a     *)
(* worker is woken that of Listener.                                       *)
(***************************************************************************)
EXTENDS Integers, FiniteSets

CONSTANTS
  Workers,     \* the workers
  Accounts,    \* the accounts of Delta Chat
  Troubles,    \* what may go wrong, each once
  MaxTroubles  \* and so many of them in one life

ASSUME LifecycleAssumption ==
  /\ IsFiniteSet(Workers) /\ MaxTroubles \in Nat
  /\ Troubles \subseteq {"start", "stop", "listen", "db"}

VARIABLES
  phase,     \* where lifespan() is
  client,    \* where start() or stop() of the Delta Chat client is
  handler,   \* whether the client has its message handler
  objects,   \* accounts the client knows
  thread,    \* the event thread of each account
  ending,    \* the client's _stop_event
  pool,      \* ConnManager._pg_pool
  db,        \* what each user is doing with the pool
  loop,      \* where run() of each worker is
  task,      \* each worker's task
  listener,  \* the listener connections; "late" is one that was opened
             \* after the workers were asked to stop
  stopping,  \* the workers' _stopping
  closer,    \* where the stop() of each worker is
  size,      \* the listeners there were when it began to close them
  left,      \* those it still has to close
  unheard,   \* history: accounts whose message met no handler
  undeleted, \* history: rows delivered and not deleted
  late,      \* history: whether a pool was made after that
  spent      \* history: troubles there have been

vars == <<phase, client, handler, objects, thread, ending, pool, db, loop, task, listener,
          stopping, closer, size, left, unheard, undeleted, late, spent>>
deltaChat == <<client, handler, objects, thread, ending, unheard>>
working == <<pool, db, loop, task, listener, undeleted, late>>
closing == <<closer, size, left>>

Users == Workers \X {"loop", "task"}
Live == {"open", "late"}
Registered == {w \in Workers : listener[w] # "none"}
Trouble(t) ==
  t \in Troubles \ spent /\ Cardinality(spent) < MaxTroubles /\ spent' = spent \cup {t}

-----------------------------------------------------------------------------
(* Delta Chat: start(), the event threads and stop().                      *)

Register ==
  /\ phase = "starting" /\ client = "off"
  /\ handler' = TRUE /\ client' = "sync"
  /\ UNCHANGED <<phase, objects, thread, ending, unheard, working, stopping, closing, spent>>

(* Mutant: the thread is left to the end of start().                       *)
SyncWithoutThread(a) ==
  /\ client = "sync" /\ a \notin objects
  /\ objects' = objects \cup {a} /\ client' = "configure"
  /\ UNCHANGED <<phase, handler, thread, ending, unheard, working, stopping, closing, spent>>

(* The thread is started before the account is configured, which may take  *)
(* long and may fail.                                                      *)
SyncAccount(a) ==
  /\ client = "sync" /\ a \notin objects
  /\ objects' = objects \cup {a}
  /\ thread' = [thread EXCEPT ![a] = "waiting"]
  /\ client' = "configure"
  /\ UNCHANGED <<phase, handler, ending, unheard, working, stopping, closing, spent>>

Configured ==
  /\ client = "configure" /\ client' = "sync"
  /\ UNCHANGED <<phase, handler, objects, thread, ending, unheard, working, stopping,
                 closing, spent>>

StartIo ==
  /\ client = "sync" /\ objects = Accounts
  /\ client' = "on"
  /\ UNCHANGED <<phase, handler, objects, thread, ending, unheard, working, stopping,
                 closing, spent>>

(* An exception of one channel's on_startup ends the process.              *)
StartFails ==
  /\ phase = "starting" /\ Trouble("start")
  /\ phase' = "failed"
  /\ UNCHANGED <<deltaChat, working, stopping, closing>>

(* The thread hands a message over.                                        *)
Event(a) ==
  /\ thread[a] = "waiting" /\ ~ending /\ a \in objects
  /\ unheard' = IF handler THEN unheard ELSE unheard \cup {a}
  /\ UNCHANGED <<phase, client, handler, objects, thread, ending, working, stopping,
                 closing, spent>>

(* A thread that comes back from its wait looks at _stop_event.            *)
Notice(a) ==
  /\ thread[a] = "waiting" /\ ending
  /\ thread' = [thread EXCEPT ![a] = "ended"]
  /\ UNCHANGED <<phase, client, handler, objects, ending, unheard, working, stopping,
                 closing, spent>>

StopClient ==
  /\ phase = "channels" /\ client = "on"
  /\ ending' = TRUE /\ client' = "join"
  /\ UNCHANGED <<phase, handler, objects, thread, unheard, working, stopping, closing, spent>>

(* A join takes a second at most; then everything is forgotten and         *)
(* _stop_event cleared, so that a thread that comes back later does not    *)
(* find its account, tries again at once and never ends.                   *)
Join ==
  /\ client = "join"
  /\ thread' = [a \in Accounts |-> "none"] /\ objects' = {} /\ ending' = FALSE
  /\ client' = "down"
  /\ UNCHANGED <<phase, handler, unheard, working, stopping, closing, spent>>

(* stop_io, or another channel's on_shutdown, raises: gather() passes it   *)
(* on and the rest of the shutdown does not take place.                    *)
StopFails ==
  /\ phase = "channels" /\ Trouble("stop")
  /\ phase' = "failed"
  /\ UNCHANGED <<deltaChat, working, stopping, closing>>

-----------------------------------------------------------------------------
(* The pool.                                                               *)

Running == phase \notin {"starting", "ended", "failed"}
Becomes(u, s) == db' = [db EXCEPT ![u] = s]

(* get_pg_pool() and acquire(): a connection of the pool there is, at once *)
(* or when it has been made, or a pool of one's own making.                *)
Asked == IF pool = "open" THEN "hold" ELSE "want"

Acquire(u) ==
  /\ Running /\ db[u] = "want" /\ pool = "open"
  /\ Becomes(u, "hold")
  /\ UNCHANGED <<phase, deltaChat, pool, loop, task, listener, undeleted, late, stopping, closing, spent>>

Make(u) ==
  /\ Running /\ db[u] = "want" /\ pool = "none" /\ \A v \in Users : db[v] # "make"
  /\ Becomes(u, "make")
  /\ UNCHANGED <<phase, deltaChat, pool, loop, task, listener, undeleted, late, stopping, closing, spent>>

Made(u) ==
  /\ Running /\ db[u] = "make"
  /\ Becomes(u, "hold") /\ pool' = "open"
  /\ late' = (late \/ stopping # {})
  /\ UNCHANGED <<phase, deltaChat, loop, task, listener, undeleted, stopping, closing, spent>>

(* The pool is being closed (InterfaceError), or Postgres has a trouble.   *)
DbFails(u) ==
  /\ Running
  /\ \/ db[u] = "want" /\ pool = "closing" /\ UNCHANGED spent
     \/ db[u] \in {"make", "hold"} /\ Trouble("db")

-----------------------------------------------------------------------------
(* A worker's loop and its task.                                           *)

(* Where the loop goes on: it reads again, or leaves.                      *)
GoesOn(w) ==
  IF w \in stopping
  THEN loop' = [loop EXCEPT ![w] = "finalize"] /\ Becomes(<<w, "loop">>, "no")
  ELSE loop' = [loop EXCEPT ![w] = "reading"] /\ Becomes(<<w, "loop">>, Asked)

(* A message waits for the permit, even if a stop comes in between.        *)
Read(w) ==
  /\ Running /\ db[<<w, "loop">>] = "hold"
  /\ \E next \in {"message", "none"} :
       IF next = "message" /\ w \in stopping THEN GoesOn(w)
       ELSE /\ Becomes(<<w, "loop">>, "no")
            /\ loop' = [loop EXCEPT ![w] = IF next = "message" THEN "permit" ELSE "listen"]
  /\ UNCHANGED <<phase, deltaChat, pool, task, listener, undeleted, late, stopping, closing, spent>>

ReadFails(w) ==
  /\ DbFails(<<w, "loop">>)
  /\ Becomes(<<w, "loop">>, "no") /\ loop' = [loop EXCEPT ![w] = "listen"]
  /\ UNCHANGED <<phase, deltaChat, pool, task, listener, undeleted, late, stopping, closing>>

StartTask(w) ==
  /\ Running /\ loop[w] = "permit" /\ task[w] = "none"
  /\ GoesOn(w) /\ task' = [task EXCEPT ![w] = "handle"]
  /\ UNCHANGED <<phase, deltaChat, pool, listener, undeleted, late, stopping, closing, spent>>

(* _handle_message returns or raises: delete, or archive and set_vt.       *)
Handle(w) ==
  /\ Running /\ task[w] = "handle"
  /\ \E next \in {"delete", "policy"} : task' = [task EXCEPT ![w] = next]
  /\ Becomes(<<w, "task">>, Asked)
  /\ UNCHANGED <<phase, deltaChat, pool, loop, listener, undeleted, late, stopping, closing, spent>>

Settle(w) ==
  /\ Running /\ db[<<w, "task">>] = "hold"
  /\ Becomes(<<w, "task">>, "no") /\ task' = [task EXCEPT ![w] = "none"]
  /\ UNCHANGED <<phase, deltaChat, pool, loop, listener, undeleted, late, stopping, closing, spent>>

(* An error of delete() counts as one of the handler; one of the policy    *)
(* ends the task.                                                          *)
SettleFails(w) ==
  /\ DbFails(<<w, "task">>)
  /\ IF task[w] = "delete"
     THEN /\ task' = [task EXCEPT ![w] = "policy"] /\ Becomes(<<w, "task">>, Asked)
          /\ undeleted' = undeleted + 1
     ELSE /\ task' = [task EXCEPT ![w] = "none"] /\ Becomes(<<w, "task">>, "no")
          /\ UNCHANGED undeleted
  /\ UNCHANGED <<phase, deltaChat, pool, loop, listener, late, stopping, closing>>

(* The wait for a notification, with a connection of its own.              *)
Listen(w) ==
  /\ Running /\ loop[w] = "listen"
  /\ listener' = [listener EXCEPT ![w] =
       IF @ \in Live THEN @ ELSE IF stopping = {} THEN "open" ELSE "late"]
  /\ loop' = [loop EXCEPT ![w] = "wait"]
  /\ UNCHANGED <<phase, deltaChat, pool, db, task, undeleted, late, stopping, closing, spent>>

ListenFails(w) ==
  /\ Running /\ loop[w] = "listen" /\ listener[w] \notin Live /\ Trouble("listen")
  /\ loop' = [loop EXCEPT ![w] = "finalize"]
  /\ UNCHANGED <<phase, deltaChat, pool, db, task, listener, undeleted, late, stopping, closing>>

Wake(w) ==
  /\ Running /\ loop[w] = "wait"
  /\ GoesOn(w)
  /\ UNCHANGED <<phase, deltaChat, pool, task, listener, undeleted, late, stopping, closing, spent>>

Finalize(w) ==
  /\ Running /\ loop[w] = "finalize" /\ task[w] = "none"
  /\ loop' = [loop EXCEPT ![w] = "ended"]
  /\ UNCHANGED <<phase, deltaChat, pool, db, task, listener, undeleted, late, stopping, closing, spent>>

-----------------------------------------------------------------------------
(* lifespan(): the start of the workers, and the shutdown.                 *)

Goes(from, to) == phase = from /\ phase' = to

Run ==
  /\ client = "on" /\ Goes("starting", "running")
  /\ loop' = [w \in Workers |-> "reading"]
  /\ db' = [u \in Users |-> IF u[2] = "loop" THEN "want" ELSE "no"]
  /\ UNCHANGED <<deltaChat, pool, task, listener, undeleted, late, stopping, closing, spent>>

Shutdown ==
  /\ Goes("running", "channels")
  /\ UNCHANGED <<deltaChat, working, stopping, closing, spent>>

(* Mutant: the workers are not told.                                       *)
StopWorkersQuietly ==
  /\ client = "down" /\ Goes("channels", "stopping")
  /\ closer' = [w \in Workers |-> "listeners"]
  /\ size' = [w \in Workers |-> Cardinality(Registered)]
  /\ left' = [w \in Workers |-> Registered]
  /\ UNCHANGED <<deltaChat, working, stopping, spent>>

(* The channels are stopped and Chatwoot's session is closed.  Both stop() *)
(* set their event before either has closed anything.                      *)
StopWorkers ==
  /\ client = "down" /\ Goes("channels", "stopping")
  /\ stopping' = Workers
  /\ closer' = [w \in Workers |-> "listeners"]
  /\ size' = [w \in Workers |-> Cardinality(Registered)]
  /\ left' = [w \in Workers |-> Registered]
  /\ UNCHANGED <<deltaChat, working, spent>>

(* The dictionary has another size than when the iteration began.          *)
Resized(w) == size[w] # Cardinality(Registered)
Closing(w) == phase = "stopping" /\ closer[w] = "listeners"

(* Mutant: a connection that is closed leaves the dictionary.              *)
CloseAndForget(w, q) ==
  /\ Closing(w) /\ q \in left[w] /\ (Resized(w) => Cardinality(left[w]) = size[w])
  /\ left' = [left EXCEPT ![w] = @ \ {q}]
  /\ listener' = [listener EXCEPT ![q] = "none"]
  /\ UNCHANGED <<phase, deltaChat, pool, db, loop, task, undeleted, late, stopping, closer, size, spent>>

CloseListener(w, q) ==
  /\ Closing(w) /\ q \in left[w] /\ (Resized(w) => Cardinality(left[w]) = size[w])
  /\ left' = [left EXCEPT ![w] = @ \ {q}]
  /\ listener' = [listener EXCEPT ![q] = "closed"]
  /\ UNCHANGED <<phase, deltaChat, pool, db, loop, task, undeleted, late, stopping, closer, size, spent>>

(* The iteration finds that out when it goes on.                           *)
CloseRaises(w) ==
  /\ Closing(w) /\ Resized(w) /\ Cardinality(left[w]) < size[w]
  /\ phase' = "failed"
  /\ UNCHANGED <<deltaChat, working, stopping, closing, spent>>

(* close_pg_pool(): one at a time; the second finds the pool closed, or    *)
(* closes one that has been made since.                                    *)
ClosePool(w) ==
  /\ Closing(w) /\ left[w] = {} /\ (Resized(w) => size[w] = 0) /\ pool # "closing"
  /\ closer' = [closer EXCEPT ![w] = IF pool = "open" THEN "draining" ELSE "done"]
  /\ pool' = IF pool = "open" THEN "closing" ELSE pool
  /\ size' = [size EXCEPT ![w] = 0]
  /\ UNCHANGED <<phase, deltaChat, db, loop, task, listener, undeleted, late, stopping, left, spent>>

(* Pool.close() waits for the connections that are in use.                 *)
Drained(w) ==
  /\ phase = "stopping" /\ closer[w] = "draining" /\ \A u \in Users : db[u] # "hold"
  /\ closer' = [closer EXCEPT ![w] = "done"] /\ pool' = "none"
  /\ UNCHANGED <<phase, deltaChat, db, loop, task, listener, undeleted, late, stopping, size, left, spent>>

WorkersStopped ==
  /\ \A w \in Workers : closer[w] = "done"
  /\ Goes("stopping", "awaiting")
  /\ UNCHANGED <<deltaChat, working, stopping, closing, spent>>

End ==
  /\ \A w \in Workers : loop[w] = "ended"
  /\ Goes("awaiting", "ended")
  /\ UNCHANGED <<deltaChat, working, stopping, closing, spent>>

-----------------------------------------------------------------------------
Init ==
  /\ phase = "starting" /\ client = "off" /\ handler = FALSE /\ objects = {}
  /\ thread = [a \in Accounts |-> "none"] /\ ending = FALSE
  /\ pool = "none" /\ db = [u \in Users |-> "no"]
  /\ loop = [w \in Workers |-> "none"] /\ task = [w \in Workers |-> "none"]
  /\ listener = [w \in Workers |-> "none"]
  /\ stopping = {} /\ closer = [w \in Workers |-> "none"]
  /\ size = [w \in Workers |-> 0] /\ left = [w \in Workers |-> {}]
  /\ unheard = {} /\ undeleted = 0
  /\ late = FALSE /\ spent = {}

ClientStep ==
  Register \/ (\E a \in Accounts : SyncAccount(a)) \/ Configured \/ StartIo \/ StopClient \/ Join
PoolStep(u) == Acquire(u) \/ Make(u) \/ Made(u)
LoopStep(w) ==
  Read(w) \/ StartTask(w) \/ Listen(w) \/ Wake(w) \/ Finalize(w)
TaskStep(w) == Handle(w) \/ Settle(w)
CloserStep(w) ==
  (\E q \in Workers : CloseListener(w, q)) \/ CloseRaises(w) \/ ClosePool(w) \/ Drained(w)
Lifespan == Run \/ StopWorkers \/ WorkersStopped \/ End

Next ==
  \/ ClientStep \/ StartFails \/ StopFails \/ Lifespan \/ Shutdown
  \/ \E a \in Accounts : Event(a) \/ Notice(a)
  \/ \E u \in Users : PoolStep(u)
  \/ \E w \in Workers :
       LoopStep(w) \/ TaskStep(w) \/ CloserStep(w) \/ ReadFails(w) \/ SettleFails(w) \/ ListenFails(w)

Spec == Init /\ [][Next]_vars

(* The event loop runs what is ready, handlers and statements end, and a   *)
(* wait for a notification ends after 290 to 310 seconds.  Nothing is      *)
(* assumed of Delta Chat's threads.                                        *)
Fairness ==
  /\ WF_vars(ClientStep) /\ WF_vars(Lifespan)
  /\ \A u \in Users : WF_vars(PoolStep(u))
  /\ \A w \in Workers :
       /\ WF_vars(LoopStep(w)) /\ WF_vars(CloserStep(w))
       /\ WF_vars(TaskStep(w)) /\ WF_vars(SettleFails(w)) /\ WF_vars(ReadFails(w))

FairSpec == Spec /\ Fairness

-----------------------------------------------------------------------------
TypeOK ==
  /\ phase \in {"starting", "running", "channels", "stopping", "awaiting", "ended", "failed"}
  /\ client \in {"off", "sync", "configure", "on", "join", "down"}
  /\ handler \in BOOLEAN /\ objects \subseteq Accounts /\ ending \in BOOLEAN
  /\ thread \in [Accounts -> {"none", "waiting", "ended"}]
  /\ pool \in {"none", "open", "closing"}
  /\ db \in [Users -> {"no", "want", "make", "hold"}]
  /\ loop \in [Workers -> {"none", "reading", "permit", "listen", "wait", "finalize", "ended"}]
  /\ task \in [Workers -> {"none", "handle", "delete", "policy"}]
  /\ listener \in [Workers -> {"none", "open", "late", "closed"}]
  /\ stopping \subseteq Workers
  /\ closer \in [Workers -> {"none", "listeners", "draining", "done"}]
  /\ size \in [Workers -> Nat] /\ left \in [Workers -> SUBSET Workers]
  /\ unheard \subseteq Accounts
  /\ undeleted \in Nat
  /\ late \in BOOLEAN /\ spent \subseteq Troubles

(* Every account the client knows has its event thread, from before it is  *)
(* configured until stop() has begun, and no message meets a client        *)
(* without its handler (dc_client.py:142-145, 294-322; dc_channel.py:43).  *)
EveryAccountIsHeard ==
  /\ client \in {"sync", "configure", "on"} => \A a \in objects : thread[a] = "waiting"
  /\ unheard = {}

(* A process fails only by its channels, or when a worker's first listener *)
(* comes up while close() goes through the others (pg_message_queue.py:363)*)
(* and one that ends leaves a pool or a listener open only if it was made  *)
(* after the workers were asked to stop (pg_conn_manager.py:51).           *)
EndsAreExplained ==
  /\ phase = "failed" => spent \cap {"start", "stop"} # {} \/ \E w \in Workers : listener[w] = "late"
  /\ phase = "ended" =>
       /\ pool # "none" => late
       /\ \A w \in Workers : listener[w] # "open"

(* A shutdown leaves few delivered rows to be delivered again: one of the  *)
(* task of a worker, and one of the message that waited for its permit     *)
(* (app.py:42; base.py:127-146, 262-272).                                  *)
UndeletedIsBounded ==
  undeleted <= 2 * Cardinality(Workers) + Cardinality(spent \cap {"db"})

(* A shutdown that has begun ends, however long tasks hold the pool and    *)
(* threads do not come back (app.py:40-44).                                *)
ShutdownEnds == phase = "channels" ~> phase \in {"ended", "failed"}

=============================================================================
