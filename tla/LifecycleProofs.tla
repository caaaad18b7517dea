--------------------------- MODULE LifecycleProofs ---------------------------
(***************************************************************************)
(* Proofs about Lifecycle, for any workers and accounts and any number of  *)
(* troubles: no message meets a client without handler, how a process may  *)
(* end, and how many delivered rows it may leave behind.                   *)
(***************************************************************************)
EXTENDS Lifecycle, FiniteSetTheorems, TLAPS

-----------------------------------------------------------------------------
(* Type correctness.                                                       *)

LEMMA RegisteredFinite ==
  TypeOK => IsFiniteSet(Registered) /\ Cardinality(Registered) \in Nat
BY LifecycleAssumption, FS_Subset, FS_CardinalityType DEF Registered

LEMMA ChannelType ==
  TypeOK /\ (ClientStep \/ StartFails \/ StopFails \/ \E a \in Accounts : Event(a) \/ Notice(a))
    => TypeOK'
<1> SUFFICES ASSUME TypeOK,
                    ClientStep \/ StartFails \/ StopFails
                      \/ \E a \in Accounts : Event(a) \/ Notice(a)
             PROVE  TypeOK'
  OBVIOUS
<1> USE DEF TypeOK, deltaChat, working, closing
<1>1. CASE Register
  BY <1>1 DEF Register
<1>2. ASSUME NEW a \in Accounts, SyncAccount(a) PROVE TypeOK'
  <2>1. /\ objects' \subseteq Accounts /\ client' \in {"off", "sync", "configure", "on", "join", "down"}
        /\ UNCHANGED <<phase, handler, ending, unheard, working, stopping, closing, spent>>
    BY <1>2 DEF SyncAccount
  <2>2. thread' \in [Accounts -> {"none", "waiting", "ended"}]
    BY <1>2 DEF SyncAccount
  <2> QED BY <2>1, <2>2
<1>3. CASE Configured \/ StartIo \/ StopClient
  <2>1. CASE Configured
    BY <2>1 DEF Configured
  <2>2. CASE StartIo
    BY <2>2 DEF StartIo
  <2>3. CASE StopClient
    BY <2>3 DEF StopClient
  <2> QED BY <1>3, <2>1, <2>2, <2>3
<1>4. CASE Join
  BY <1>4 DEF Join
<1>5. CASE StartFails \/ StopFails
  BY <1>5 DEF StartFails, StopFails, Trouble
<1>6. ASSUME NEW a \in Accounts, Event(a) PROVE TypeOK'
  BY <1>6 DEF Event
<1>7. ASSUME NEW a \in Accounts, Notice(a) PROVE TypeOK'
  BY <1>7 DEF Notice
<1> QED BY <1>1, <1>2, <1>3, <1>4, <1>5, <1>6, <1>7 DEF ClientStep

LEMMA PoolType ==
  ASSUME TypeOK, NEW u \in Users, PoolStep(u)
  PROVE  TypeOK'
<1> USE DEF TypeOK, deltaChat, closing, Becomes
<1>1. CASE Acquire(u) \/ Make(u)
  BY <1>1 DEF Acquire, Make
<1>2. CASE Made(u)
  BY <1>2 DEF Made
<1> QED BY <1>1, <1>2 DEF PoolStep

LEMMA WorkerType ==
  ASSUME TypeOK, NEW w \in Workers,
         LoopStep(w) \/ TaskStep(w) \/ ReadFails(w) \/ SettleFails(w) \/ ListenFails(w)
  PROVE  TypeOK'
<1> USE DEF TypeOK, deltaChat, closing, Becomes
<1>1. <<w, "loop">> \in Users /\ <<w, "task">> \in Users /\ Asked \in {"hold", "want"}
  BY DEF Users, Asked
<1>2. GoesOn(w) => /\ loop' \in [Workers -> {"none", "reading", "permit", "listen", "wait", "finalize", "ended"}]
                   /\ db' \in [Users -> {"no", "want", "make", "hold"}]
  BY <1>1 DEF GoesOn
<1> HIDE DEF Becomes
<1>3. \A u \in Users, s \in {"no", "want", "hold"} :
        Becomes(u, s) => db' \in [Users -> {"no", "want", "make", "hold"}]
  BY DEF Becomes
<1>4. CASE Read(w) \/ StartTask(w) \/ Wake(w)
  BY <1>1, <1>2, <1>3, <1>4 DEF Read, StartTask, Wake
<1>5. CASE Listen(w) \/ Finalize(w)
  BY <1>5 DEF Listen, Finalize
<1>6. CASE Handle(w) \/ Settle(w)
  BY <1>1, <1>3, <1>6 DEF Handle, Settle
<1>7. \A u : DbFails(u) => spent' \subseteq Troubles
  BY DEF DbFails, Trouble
<1>8. CASE ReadFails(w)
  BY <1>1, <1>3, <1>7, <1>8 DEF ReadFails
<1>9. CASE SettleFails(w)
  BY <1>1, <1>3, <1>7, <1>9 DEF SettleFails
<1>10. CASE ListenFails(w)
  BY <1>10 DEF ListenFails, Trouble
<1> QED BY <1>4, <1>5, <1>6, <1>8, <1>9, <1>10 DEF LoopStep, TaskStep

LEMMA LifespanType ==
  TypeOK /\ (Lifespan \/ Shutdown \/ \E w \in Workers : CloserStep(w)) => TypeOK'
<1> SUFFICES ASSUME TypeOK, Lifespan \/ Shutdown \/ \E w \in Workers : CloserStep(w)
             PROVE  TypeOK'
  OBVIOUS
<1> USE DEF TypeOK, deltaChat, working, closing, Goes
<1>1. CASE Run
  BY <1>1 DEF Run
<1>2. CASE Shutdown \/ WorkersStopped \/ End
  BY <1>2 DEF Shutdown, WorkersStopped, End
<1>3. CASE StopWorkers
  <2>1. Registered \subseteq Workers /\ Cardinality(Registered) \in Nat
    BY RegisteredFinite DEF Registered
  <2> QED BY <1>3, <2>1 DEF StopWorkers
<1>4. ASSUME NEW w \in Workers, NEW q \in Workers, CloseListener(w, q) PROVE TypeOK'
  BY <1>4 DEF CloseListener
<1>5. ASSUME NEW w \in Workers, CloseRaises(w) \/ ClosePool(w) \/ Drained(w) PROVE TypeOK'
  BY <1>5 DEF CloseRaises, ClosePool, Drained
<1> QED BY <1>1, <1>2, <1>3, <1>4, <1>5 DEF Lifespan, CloserStep

LEMMA TypeStep == TypeOK /\ [Next]_vars => TypeOK'
<1> SUFFICES ASSUME TypeOK, [Next]_vars PROVE TypeOK'
  OBVIOUS
<1>1. CASE UNCHANGED vars
  BY <1>1 DEF TypeOK, vars
<1> QED BY <1>1, ChannelType, PoolType, WorkerType, LifespanType DEF Next

LEMMA TypeInit == Init => TypeOK
<1> SUFFICES ASSUME Init PROVE TypeOK
  OBVIOUS
<1>1. /\ phase = "starting" /\ client = "off" /\ objects \subseteq Accounts /\ pool = "none"
      /\ stopping \subseteq Workers /\ unheard \subseteq Accounts /\ undeleted \in Nat
      /\ spent \subseteq Troubles
  BY DEF Init
<1>2. handler \in BOOLEAN /\ ending \in BOOLEAN /\ late \in BOOLEAN
  BY DEF Init
<1>3. /\ thread \in [Accounts -> {"none", "waiting", "ended"}]
      /\ db \in [Users -> {"no", "want", "make", "hold"}]
  BY DEF Init
<1>4. /\ loop \in [Workers -> {"none", "reading", "permit", "listen", "wait", "finalize", "ended"}]
      /\ task \in [Workers -> {"none", "handle", "delete", "policy"}]
      /\ listener \in [Workers -> {"none", "open", "late", "closed"}]
  BY DEF Init
<1>5. /\ closer \in [Workers -> {"none", "listeners", "draining", "done"}]
      /\ size \in [Workers -> Nat] /\ left \in [Workers -> SUBSET Workers]
  BY DEF Init
<1> QED BY <1>1, <1>2, <1>3, <1>4, <1>5 DEF TypeOK

(* Every variable keeps to its type (app.py:30-44; dc_client.py:97-322;    *)
(* base.py:100-320; pg_conn_manager.py:20-60).                             *)
THEOREM TypeCorrect == Spec => []TypeOK
BY TypeInit, TypeStep, PTL DEF Spec

-----------------------------------------------------------------------------
(* Delta Chat's accounts.                                                  *)

Heard ==
  /\ EveryAccountIsHeard
  /\ client = "off" => objects = {}
  /\ client # "off" => handler
  /\ ending => client = "join"

(* Only Delta Chat's own steps touch its client.                           *)
LEMMA OthersLeaveIt ==
  ASSUME [Next]_vars
  PROVE  UNCHANGED deltaChat \/ ClientStep \/ \E a \in Accounts : Event(a) \/ Notice(a)
<1>1. CASE UNCHANGED vars
  BY <1>1 DEF vars, deltaChat
<1>2. CASE StartFails \/ StopFails
  BY <1>2 DEF StartFails, StopFails
<1>3. CASE Lifespan \/ Shutdown
  BY <1>3 DEF Lifespan, Shutdown, Run, StopWorkers, WorkersStopped, End
<1>4. ASSUME NEW u \in Users, PoolStep(u) PROVE UNCHANGED deltaChat
  BY <1>4 DEF PoolStep, Acquire, Make, Made
<1>5. ASSUME NEW w \in Workers, LoopStep(w) PROVE UNCHANGED deltaChat
  BY <1>5 DEF LoopStep, Read, StartTask, Listen, Wake, Finalize
<1>6. ASSUME NEW w \in Workers, TaskStep(w) \/ CloserStep(w) PROVE UNCHANGED deltaChat
  BY <1>6 DEF TaskStep, Handle, Settle, CloserStep, CloseListener, CloseRaises, ClosePool, Drained
<1>7. ASSUME NEW w \in Workers, ReadFails(w) \/ SettleFails(w) \/ ListenFails(w)
      PROVE  UNCHANGED deltaChat
  BY <1>7 DEF ReadFails, SettleFails, ListenFails
<1> QED BY <1>1, <1>2, <1>3, <1>4, <1>5, <1>6, <1>7 DEF Next

LEMMA HeardStep == TypeOK /\ Heard /\ [Next]_vars => Heard'
<1> SUFFICES ASSUME TypeOK, Heard, [Next]_vars PROVE Heard'
  OBVIOUS
<1> USE DEF Heard, EveryAccountIsHeard
<1>1. CASE UNCHANGED deltaChat
  BY <1>1 DEF deltaChat
<1>2. CASE Register
  BY <1>2 DEF Register
<1>3. ASSUME NEW a \in Accounts, SyncAccount(a) PROVE Heard'
  <2>1. \A b \in objects' : thread'[b] = "waiting"
    BY <1>3 DEF SyncAccount, TypeOK
  <2> QED BY <1>3, <2>1 DEF SyncAccount
<1>4. CASE Configured \/ StartIo
  BY <1>4 DEF Configured, StartIo
<1>5. CASE StopClient
  BY <1>5 DEF StopClient
<1>6. CASE Join
  BY <1>6 DEF Join
<1>7. ASSUME NEW a \in Accounts, Event(a) PROVE Heard'
  <2>1. handler
    BY <1>7 DEF Event
  <2> QED BY <1>7, <2>1 DEF Event
<1>8. ASSUME NEW a \in Accounts, Notice(a) PROVE Heard'
  BY <1>8 DEF Notice
<1> QED BY <1>1, <1>2, <1>3, <1>4, <1>5, <1>6, <1>7, <1>8, OthersLeaveIt DEF ClientStep

(* However long accounts take to be configured, no message is lost for     *)
(* want of a thread or a handler (dc_client.py:142-145, 294-322).          *)
THEOREM AccountsAlwaysHeard == Spec => []EveryAccountIsHeard
<1>1. Init => Heard
  BY DEF Init, Heard, EveryAccountIsHeard
<1>2. Heard => EveryAccountIsHeard
  BY DEF Heard
<1> QED BY <1>1, <1>2, TypeInit, TypeStep, HeardStep, PTL DEF Spec

-----------------------------------------------------------------------------
(* The ends of a process.                                                  *)

(* S: the listeners there were when the workers were asked to stop.        *)
Counted(S) ==
  /\ S \subseteq Registered
  /\ \A w \in Workers : left[w] \subseteq S /\ size[w] \in {0, Cardinality(S)}
  /\ stopping # {} => \A q \in Registered \ S : listener[q] = "late"

Shutting ==
  /\ stopping \in {{}, Workers}
  /\ phase \in {"starting", "running", "channels"} => \A w \in Workers : closer[w] = "none"
  /\ phase \in {"stopping", "awaiting", "ended"} => stopping = Workers
  /\ phase \in {"awaiting", "ended"} => \A w \in Workers : closer[w] = "done"
  /\ pool # "none" => Workers # {}
  /\ pool = "closing" => \E w \in Workers : closer[w] = "draining"
  /\ \A w \in Workers :
       /\ closer[w] # "none" => stopping = Workers
       /\ closer[w] \in {"draining", "done"} => left[w] = {}
       /\ closer[w] = "done" /\ pool = "open" => late
       /\ stopping # {} => \A q \in Workers : listener[q] = "open" => q \in left[w]

Failed ==
  phase = "failed" =>
    spent \cap {"start", "stop"} # {} \/ \E w \in Workers : listener[w] = "late"

IInv == TypeOK /\ Shutting /\ Failed /\ \E S \in SUBSET Workers : Counted(S)

(* A step that has nothing to do with the shutdown, or only begins it.     *)
Quiet ==
  /\ UNCHANGED <<pool, listener, stopping, closer, size, left, late>>
  /\ spent \subseteq spent'
  /\ \/ phase' = phase
     \/ phase \in {"starting", "running"} /\ phase' \in {"running", "channels"}
     \/ phase' = "failed" /\ spent' \cap {"start", "stop"} # {}

LEMMA QuietKeeps == IInv /\ TypeOK' /\ Quiet => IInv'
<1> SUFFICES ASSUME IInv, TypeOK', Quiet PROVE IInv'
  OBVIOUS
<1>1. Shutting'
  BY DEF IInv, Quiet, Shutting
<1>2. Failed'
  BY DEF IInv, Quiet, Failed
<1>3. \E S \in SUBSET Workers : Counted(S)'
  BY DEF IInv, Quiet, Counted, Registered
<1> QED BY <1>1, <1>2, <1>3 DEF IInv

LEMMA QuietSteps ==
  ASSUME TypeOK, [Next]_vars
  PROVE  \/ Quiet \/ StopWorkers \/ WorkersStopped \/ End
         \/ \E u \in Users : Made(u)
         \/ \E w \in Workers : Listen(w) \/ CloserStep(w)
<1> USE DEF Quiet, working, closing
<1>1. CASE UNCHANGED vars
  BY <1>1 DEF vars
<1>2. CASE ClientStep \/ \E a \in Accounts : Event(a) \/ Notice(a)
  BY <1>2 DEF ClientStep, Register, SyncAccount, Configured, StartIo, StopClient, Join, Event, Notice
<1>3. CASE StartFails \/ StopFails
  BY <1>3 DEF StartFails, StopFails, Trouble
<1>4. CASE Run \/ Shutdown
  BY <1>4 DEF Run, Shutdown, Goes
<1>5. ASSUME NEW u \in Users, Acquire(u) \/ Make(u) PROVE Quiet
  BY <1>5 DEF Acquire, Make
<1>6. ASSUME NEW w \in Workers,
             Read(w) \/ StartTask(w) \/ Wake(w) \/ Finalize(w) \/ Handle(w) \/ Settle(w)
      PROVE  Quiet
  BY <1>6 DEF Read, StartTask, Wake, Finalize, Handle, Settle
<1>7. ASSUME NEW w \in Workers, ReadFails(w) \/ SettleFails(w) \/ ListenFails(w) PROVE Quiet
  BY <1>7 DEF ReadFails, SettleFails, ListenFails, DbFails, Trouble
<1> QED BY <1>1, <1>2, <1>3, <1>4, <1>5, <1>6, <1>7
        DEF Next, Lifespan, PoolStep, LoopStep, TaskStep

LEMMA MadeKeeps == ASSUME IInv, TypeOK', NEW u \in Users, Made(u) PROVE IInv'
<1>1. Workers # {}
  BY DEF Users
<1>2. /\ pool' = "open" /\ late' = (late \/ stopping # {})
      /\ UNCHANGED <<phase, listener, stopping, closer, size, left, spent>>
  BY DEF Made, closing
<1>3. Shutting'
  BY <1>1, <1>2 DEF IInv, Shutting
<1>4. Failed' /\ \E S \in SUBSET Workers : Counted(S)'
  BY <1>2 DEF IInv, Failed, Counted, Registered
<1> QED BY <1>3, <1>4 DEF IInv

(* A worker that finds its listener closed, or has none, opens one.        *)
LEMMA ListenKeeps == ASSUME IInv, TypeOK', NEW w \in Workers, Listen(w) PROVE IInv'
<1>1. UNCHANGED <<phase, pool, stopping, closer, size, left, late, spent>>
  BY DEF Listen, closing
<1>2. /\ \A q \in Workers \ {w} : listener'[q] = listener[q]
      /\ listener'[w] = IF listener[w] \in Live THEN listener[w]
                        ELSE IF stopping = {} THEN "open" ELSE "late"
  BY DEF Listen, IInv, TypeOK
<1>3. phase # "failed"
  BY DEF Listen, Running
<1>4. Shutting'
  BY <1>1, <1>2 DEF IInv, Shutting, Live
<1>5. PICK S \in SUBSET Workers : Counted(S)
  BY DEF IInv
<1>6. Registered \subseteq Registered' /\ Registered' \subseteq Registered \cup {w}
  BY <1>2 DEF Registered, Live
<1>7. ASSUME stopping # {}, NEW q \in Registered' \ S PROVE listener'[q] = "late"
  BY <1>2, <1>5, <1>6, <1>7 DEF Counted, Registered, Live
<1>8. Counted(S)'
  BY <1>1, <1>5, <1>6, <1>7 DEF Counted
<1> QED BY <1>1, <1>3, <1>4, <1>8 DEF IInv, Failed

LEMMA StopKeeps == ASSUME IInv, TypeOK', StopWorkers PROVE IInv'
<1>1. /\ phase' = "stopping" /\ stopping' = Workers
      /\ UNCHANGED <<pool, listener, late, spent>>
      /\ closer' = [w \in Workers |-> "listeners"]
      /\ size' = [w \in Workers |-> Cardinality(Registered)]
      /\ left' = [w \in Workers |-> Registered]
  BY DEF StopWorkers, Goes, working
<1>2. pool # "closing"
  <2>1. phase = "channels"
    BY DEF StopWorkers, Goes
  <2> QED BY <2>1 DEF IInv, Shutting
<1>3. Shutting'
  BY <1>1, <1>2 DEF IInv, Shutting, Registered
<1>4. ASSUME NEW S \in SUBSET Workers, S = Registered PROVE Counted(S)'
  BY <1>1, <1>4 DEF Counted, Registered
<1>5. Registered \subseteq Workers
  BY DEF Registered
<1>6. \E S \in SUBSET Workers : Counted(S)'
  BY <1>4, <1>5
<1> QED BY <1>1, <1>3, <1>6 DEF IInv, Failed

(* One that is still listed for a closer was there at the stop, so that    *)
(* closing it does not hide that another has come up since.                *)
LEMMA CloseKeeps ==
  ASSUME IInv, TypeOK', NEW w \in Workers, NEW q \in Workers, CloseListener(w, q)
  PROVE  IInv'
<1>1. /\ UNCHANGED <<phase, pool, stopping, closer, size, late, spent>>
      /\ listener' = [listener EXCEPT ![q] = "closed"]
      /\ left' = [left EXCEPT ![w] = @ \ {q}] /\ q \in left[w]
      /\ phase = "stopping" /\ closer[w] = "listeners"
  BY DEF CloseListener, Closing
<1>2. PICK S \in SUBSET Workers : Counted(S)
  BY DEF IInv
<1>3. q \in S /\ listener[q] # "none" /\ left[w] \subseteq S
  BY <1>1, <1>2 DEF Counted, Registered
<1>4. /\ \A p \in Workers \ {q} : listener'[p] = listener[p]
      /\ listener'[q] = "closed"
      /\ \A v \in Workers \ {w} : left'[v] = left[v]
      /\ left'[w] = left[w] \ {q}
  BY <1>1 DEF IInv, TypeOK
<1>5. Registered' = Registered
  BY <1>3, <1>4 DEF Registered
<1>6. Counted(S)'
  BY <1>1, <1>2, <1>3, <1>4, <1>5 DEF Counted
<1>7. Shutting'
  BY <1>1, <1>4 DEF IInv, Shutting
<1> QED BY <1>1, <1>6, <1>7 DEF IInv, Failed

LEMMA RaiseKeeps == ASSUME IInv, TypeOK', NEW w \in Workers, CloseRaises(w) PROVE IInv'
<1>1. /\ phase = "stopping" /\ phase' = "failed"
      /\ UNCHANGED <<pool, listener, stopping, closer, size, left, late, spent>>
  BY DEF CloseRaises, Closing, working, closing
<1>2. PICK S \in SUBSET Workers : Counted(S)
  BY DEF IInv
<1>3. size[w] # 0
  <2>1. IsFiniteSet(left[w]) /\ Cardinality(left[w]) \in Nat
    BY LifecycleAssumption, FS_Subset, FS_CardinalityType DEF IInv, TypeOK
  <2> QED BY <2>1 DEF CloseRaises, IInv, TypeOK
<1>4. S # Registered
  BY <1>2, <1>3 DEF Counted, CloseRaises, Resized
<1>5. \E q \in Workers : listener[q] = "late"
  <2>1. PICK q \in Registered \ S : TRUE
    BY <1>2, <1>4 DEF Counted
  <2>2. stopping # {}
    BY <1>1 DEF IInv, Shutting
  <2> QED BY <1>2, <2>1, <2>2 DEF Counted, Registered
<1>6. Failed' /\ Counted(S)'
  BY <1>1, <1>2, <1>5 DEF Failed, Counted, Registered
<1>7. Shutting'
  BY <1>1 DEF IInv, Shutting
<1> QED BY <1>6, <1>7 DEF IInv

LEMMA PoolKeeps ==
  ASSUME IInv, TypeOK', NEW w \in Workers, ClosePool(w) \/ Drained(w)
  PROVE  IInv'
<1>1. /\ UNCHANGED <<phase, listener, stopping, left, late, spent>>
      /\ phase = "stopping"
  BY DEF ClosePool, Drained, Closing
<1>2. \A v \in Workers : size'[v] \in {size[v], 0}
  BY DEF ClosePool, Drained, IInv, TypeOK
<1>3. \E S \in SUBSET Workers : Counted(S)'
  BY <1>1, <1>2 DEF IInv, Counted, Registered
<1>4. Shutting'
  <2>1. CASE ClosePool(w) /\ pool = "open"
    <3>1. /\ pool' = "closing" /\ closer'[w] = "draining" /\ left[w] = {}
          /\ \A v \in Workers \ {w} : closer'[v] = closer[v]
      BY <2>1 DEF ClosePool, IInv, TypeOK
    <3> QED BY <1>1, <3>1 DEF IInv, Shutting
  <2>2. CASE ClosePool(w) /\ pool # "open"
    <3>1. /\ pool' = "none" /\ pool = "none" /\ closer'[w] = "done" /\ left[w] = {}
          /\ \A v \in Workers \ {w} : closer'[v] = closer[v]
      BY <2>2 DEF ClosePool, IInv, TypeOK
    <3> QED BY <1>1, <3>1 DEF IInv, Shutting
  <2>3. CASE Drained(w)
    <3>1. /\ pool' = "none" /\ closer[w] = "draining" /\ closer'[w] = "done"
          /\ \A v \in Workers \ {w} : closer'[v] = closer[v]
      BY <2>3 DEF Drained, IInv, TypeOK
    <3> QED BY <1>1, <3>1 DEF IInv, Shutting
  <2> QED BY <2>1, <2>2, <2>3
<1> QED BY <1>1, <1>3, <1>4 DEF IInv, Failed

LEMMA PhaseKeeps == ASSUME IInv, TypeOK', WorkersStopped \/ End PROVE IInv'
<1>1. /\ UNCHANGED <<pool, listener, stopping, closer, size, left, late, spent>>
      /\ phase \in {"stopping", "awaiting"} /\ phase' \in {"awaiting", "ended"}
      /\ phase = "stopping" => \A w \in Workers : closer[w] = "done"
  BY DEF WorkersStopped, End, Goes, working, closing
<1>2. Shutting'
  BY <1>1 DEF IInv, Shutting
<1>3. \E S \in SUBSET Workers : Counted(S)'
  BY <1>1 DEF IInv, Counted, Registered
<1> QED BY <1>1, <1>2, <1>3 DEF IInv, Failed

LEMMA InvInit == Init => IInv
<1> SUFFICES ASSUME Init PROVE IInv
  OBVIOUS
<1>1. TypeOK
  BY TypeInit
<1>2. Shutting /\ Failed
  BY DEF Init, Shutting, Failed
<1>3. \A w \in Workers : left[w] = {} /\ size[w] = 0 /\ stopping = {}
  BY DEF Init
<1>4. {} \in SUBSET Workers /\ Counted({})
  BY <1>3 DEF Counted, Init
<1> QED BY <1>1, <1>2, <1>4 DEF IInv

LEMMA InvStep == IInv /\ [Next]_vars => IInv'
<1> SUFFICES ASSUME IInv, [Next]_vars PROVE IInv'
  OBVIOUS
<1>1. TypeOK /\ TypeOK'
  BY TypeStep DEF IInv
<1>2. ASSUME NEW w \in Workers, CloserStep(w) PROVE IInv'
  BY <1>1, <1>2, CloseKeeps, RaiseKeeps, PoolKeeps DEF CloserStep
<1> QED BY <1>1, <1>2, QuietSteps, QuietKeeps, MadeKeeps, ListenKeeps, StopKeeps, PhaseKeeps

(* In whatever order the two workers stop and close what they share, the   *)
(* process fails for no other reason, and leaves nothing open, than the    *)
(* two that are named (pg_message_queue.py:363; pg_conn_manager.py:51).    *)
THEOREM EndsAlwaysExplained == Spec => []EndsAreExplained
<1>1. ASSUME IInv, phase = "ended" PROVE pool # "none" => late
  <2>1. CASE Workers = {}
    BY <1>1, <2>1 DEF IInv, Shutting
  <2>2. CASE Workers # {}
    <3>1. pool # "closing"
      BY <1>1 DEF IInv, Shutting
    <3> QED BY <1>1, <2>2, <3>1 DEF IInv, Shutting, TypeOK
  <2> QED BY <2>1, <2>2
<1>2. ASSUME IInv, phase = "ended", NEW w \in Workers PROVE listener[w] # "open"
  BY <1>2 DEF IInv, Shutting
<1>3. IInv => EndsAreExplained
  BY <1>1, <1>2 DEF IInv, Failed, EndsAreExplained
<1> QED BY <1>3, InvInit, InvStep, PTL DEF Spec

-----------------------------------------------------------------------------
(* The rows that are left.                                                 *)

(* Messages that may yet fail to be deleted when the pool is closed.       *)
Delivering == {w \in Workers : task[w] \in {"handle", "delete"}}
Waiting == {w \in Workers : loop[w] = "permit"}
Failures == IF "db" \in spent THEN 1 ELSE 0

(* From the stop on a worker has the message of its task and the one that  *)
(* waits for the permit; until then only Postgres keeps a row.             *)
Owing ==
  IF stopping = Workers
  THEN undeleted + Cardinality(Delivering) + Cardinality(Waiting)
         <= 2 * Cardinality(Workers) + Failures
  ELSE undeleted <= Failures

LEMMA Counts ==
  /\ IsFiniteSet(Workers) /\ IsFiniteSet(Delivering) /\ IsFiniteSet(Waiting)
  /\ Cardinality(Workers) \in Nat
  /\ Cardinality(Delivering) \in Nat /\ Cardinality(Delivering) <= Cardinality(Workers)
  /\ Cardinality(Waiting) \in Nat /\ Cardinality(Waiting) <= Cardinality(Workers)
  /\ Failures = Cardinality(spent \cap {"db"})
<1>1. Delivering \in SUBSET Workers /\ Waiting \in SUBSET Workers
  BY DEF Delivering, Waiting
<1>2. Failures = Cardinality(spent \cap {"db"})
  <2>1. CASE "db" \in spent
    <3>1. spent \cap {"db"} = {"db"}
      BY <2>1
    <3> QED BY <2>1, <3>1, FS_Singleton DEF Failures
  <2>2. CASE "db" \notin spent
    <3>1. spent \cap {"db"} = {}
      BY <2>2
    <3> QED BY <2>2, <3>1, FS_EmptySet DEF Failures
  <2> QED BY <2>1, <2>2
<1> QED BY <1>1, <1>2, FS_Subset, FS_CardinalityType, LifecycleAssumption

(* It bounds them before the stop, too.                                    *)
LEMMA OwingBounds ==
  ASSUME TypeOK, Owing
  PROVE  undeleted + Cardinality(Delivering) + Cardinality(Waiting)
           <= 2 * Cardinality(Workers) + Failures
BY Counts DEF TypeOK, Owing, Failures

(* A step after which no more messages are under way.                      *)
LEMMA OwingStays ==
  ASSUME TypeOK, Owing, UNCHANGED <<stopping, undeleted>>, spent \subseteq spent',
         stopping = Workers => Delivering' \subseteq Delivering /\ Waiting' \subseteq Waiting
  PROVE  Owing'
<1>1. Failures \in Nat /\ Failures' \in Nat /\ Failures' >= Failures /\ undeleted \in Nat
  BY DEF Failures, TypeOK
<1>2. CASE stopping = Workers
  <2>1. /\ Cardinality(Delivering') \in Nat /\ Cardinality(Delivering') <= Cardinality(Delivering)
        /\ Cardinality(Waiting') \in Nat /\ Cardinality(Waiting') <= Cardinality(Waiting)
    BY <1>2, Counts, FS_Subset, FS_CardinalityType
  <2> QED BY <1>1, <1>2, <2>1, Counts DEF Owing
<1>3. CASE stopping # Workers
  BY <1>1, <1>3 DEF Owing
<1> QED BY <1>2, <1>3

LEMMA OwingWorker ==
  ASSUME IInv, Owing, NEW w \in Workers,
         LoopStep(w) \/ TaskStep(w) \/ ReadFails(w) \/ ListenFails(w)
  PROVE  Owing'
<1> USE DEF IInv, TypeOK
<1>1. UNCHANGED <<stopping, undeleted>> /\ spent \subseteq spent'
  BY DEF LoopStep, TaskStep, Read, StartTask, Listen, Wake, Finalize, Handle, Settle, ReadFails,
         ListenFails, DbFails, Trouble
<1>2. ASSUME \A v \in Workers \ {w} : task'[v] = task[v] /\ loop'[v] = loop[v],
             task'[w] \in {"handle", "delete"} => task[w] \in {"handle", "delete"},
             stopping = Workers /\ loop'[w] = "permit" => loop[w] = "permit"
      PROVE  Owing'
  <2>1. stopping = Workers => Delivering' \subseteq Delivering /\ Waiting' \subseteq Waiting
    BY <1>2 DEF Delivering, Waiting
  <2> QED BY <1>1, <2>1, OwingStays
<1>3. GoesOn(w) => /\ \A v \in Workers \ {w} : loop'[v] = loop[v]
                   /\ loop'[w] \in {"finalize", "reading"}
  BY DEF GoesOn
<1>4. CASE Read(w)
  <2>1. UNCHANGED task /\ \A v \in Workers \ {w} : loop'[v] = loop[v]
    BY <1>3, <1>4 DEF Read
  <2>2. w \in stopping => loop'[w] # "permit"
    BY <1>3, <1>4 DEF Read
  <2> QED BY <1>2, <2>1, <2>2
<1>5. CASE Listen(w) \/ Finalize(w)
  BY <1>2, <1>5 DEF Listen, Finalize
<1>6. CASE Wake(w)
  <2>1. UNCHANGED task
    BY <1>6 DEF Wake
  <2> QED BY <1>2, <1>3, <1>6, <2>1 DEF Wake
<1>7. CASE Handle(w) \/ Settle(w)
  <2>1. UNCHANGED loop /\ \A v \in Workers \ {w} : task'[v] = task[v]
    BY <1>7 DEF Handle, Settle
  <2>2. task'[w] \in {"handle", "delete"} => task[w] \in {"handle", "delete"}
    BY <1>7 DEF Handle, Settle
  <2> QED BY <1>2, <2>1, <2>2
<1>8. CASE ReadFails(w) \/ ListenFails(w)
  BY <1>2, <1>8 DEF ReadFails, ListenFails
<1>9. CASE StartTask(w)
  <2>1. /\ loop[w] = "permit" /\ task' = [task EXCEPT ![w] = "handle"]
        /\ \A v \in Workers \ {w} : loop'[v] = loop[v]
        /\ loop'[w] # "permit" /\ spent' = spent
    BY <1>3, <1>9 DEF StartTask
  <2>2. Delivering' \subseteq Delivering \cup {w} /\ w \in Waiting /\ Waiting' \subseteq Waiting \ {w}
    BY <2>1 DEF Delivering, Waiting
  <2>3. Failures' = Failures /\ Failures \in Nat
    BY <2>1 DEF Failures
  <2>4. Cardinality(Delivering') \in Nat /\ Cardinality(Delivering') <= Cardinality(Delivering) + 1
    <3>1. /\ IsFiniteSet(Delivering \cup {w})
          /\ Cardinality(Delivering \cup {w}) <= Cardinality(Delivering) + 1
          /\ Cardinality(Delivering \cup {w}) \in Nat
      <4>1. IsFiniteSet(Delivering) /\ Cardinality(Delivering) \in Nat
        BY Counts
      <4>2. /\ IsFiniteSet(Delivering \cup {w})
            /\ Cardinality(Delivering \cup {w})
                 = IF w \in Delivering THEN Cardinality(Delivering) ELSE Cardinality(Delivering) + 1
        BY <4>1, FS_AddElement
      <4> QED BY <4>1, <4>2
    <3> QED BY <2>2, <3>1, Counts, FS_Subset, FS_CardinalityType
  <2>5. Cardinality(Waiting') \in Nat /\ Cardinality(Waiting') <= Cardinality(Waiting) - 1
    <3>1. Waiting' \in SUBSET Waiting /\ Waiting' # Waiting
      BY <2>2
    <3>2. /\ Cardinality(Waiting') <= Cardinality(Waiting)
          /\ Cardinality(Waiting') # Cardinality(Waiting)
          /\ IsFiniteSet(Waiting')
      BY <3>1, Counts, FS_Subset
    <3> QED BY <3>2, Counts, FS_CardinalityType
  <2>6. CASE stopping = Workers
    BY <1>1, <2>3, <2>4, <2>5, <2>6, Counts DEF Owing
  <2>7. CASE stopping # Workers
    BY <1>1, <2>3, <2>7 DEF Owing
  <2> QED BY <2>6, <2>7
<1> QED BY <1>4, <1>5, <1>6, <1>7, <1>8, <1>9 DEF LoopStep, TaskStep

(* A delete fails: the pool is being closed, or Postgres has its trouble.  *)
LEMMA OwingFails == ASSUME IInv, Owing, NEW w \in Workers, SettleFails(w) PROVE Owing'
<1> USE DEF IInv, TypeOK
<1>1. /\ UNCHANGED <<stopping, loop>> /\ spent \subseteq spent'
      /\ \A v \in Workers \ {w} : task'[v] = task[v]
      /\ task'[w] \notin {"handle", "delete"}
  BY DEF SettleFails, DbFails, Trouble
<1>2. Delivering' \subseteq Delivering /\ Waiting' = Waiting
  BY <1>1 DEF Delivering, Waiting
<1>3. CASE task[w] # "delete"
  <2>1. UNCHANGED undeleted
    BY <1>3 DEF SettleFails
  <2> QED BY <1>1, <1>2, <2>1, OwingStays
<1>4. CASE task[w] = "delete"
  <2>1. undeleted' = undeleted + 1 /\ undeleted \in Nat
    BY <1>4 DEF SettleFails
  <2>2. CASE stopping = Workers
    <3>1. w \in Delivering /\ w \notin Delivering'
      BY <1>1, <1>4 DEF Delivering
    <3>2. Cardinality(Delivering') \in Nat /\ Cardinality(Delivering') <= Cardinality(Delivering) - 1
      <4>1. Delivering' \in SUBSET Delivering /\ Delivering' # Delivering
        BY <1>2, <3>1
      <4>2. /\ Cardinality(Delivering') <= Cardinality(Delivering)
            /\ Cardinality(Delivering') # Cardinality(Delivering)
            /\ IsFiniteSet(Delivering')
        BY <4>1, Counts, FS_Subset
      <4> QED BY <4>2, Counts, FS_CardinalityType
    <3>3. Failures \in Nat /\ Failures' \in Nat /\ Failures' >= Failures
      BY <1>1 DEF Failures
    <3> QED BY <1>1, <1>2, <2>1, <2>2, <3>2, <3>3, Counts DEF Owing
  <2>3. CASE stopping # Workers
    <3>1. pool # "closing"
      BY <2>3 DEF Shutting
    <3>2. "db" \notin spent /\ "db" \in spent'
      BY <3>1 DEF SettleFails, DbFails, Trouble
    <3> QED BY <1>1, <2>1, <2>3, <3>2 DEF Owing, Failures
  <2> QED BY <2>2, <2>3
<1> QED BY <1>3, <1>4

LEMMA OwingStep == IInv /\ Owing /\ [Next]_vars => Owing'
<1> SUFFICES ASSUME IInv, Owing, [Next]_vars PROVE Owing'
  OBVIOUS
<1>1. TypeOK
  BY DEF IInv
<1>2. ASSUME UNCHANGED <<loop, task, undeleted, stopping>>, spent \subseteq spent' PROVE Owing'
  <2>1. Delivering' = Delivering /\ Waiting' = Waiting
    BY <1>2 DEF Delivering, Waiting
  <2> QED BY <1>1, <1>2, <2>1, OwingStays
<1> USE DEF deltaChat, working, closing
<1>3. CASE UNCHANGED vars
  BY <1>2, <1>3 DEF vars
<1>4. CASE ClientStep \/ \E a \in Accounts : Event(a) \/ Notice(a)
  BY <1>2, <1>4
     DEF ClientStep, Register, SyncAccount, Configured, StartIo, StopClient, Join, Event, Notice
<1>5. CASE StartFails \/ StopFails \/ Shutdown \/ WorkersStopped \/ End
  BY <1>2, <1>5 DEF StartFails, StopFails, Trouble, Shutdown, WorkersStopped, End
<1>6. CASE Run
  <2>1. UNCHANGED <<stopping, undeleted, spent, task>> /\ loop' = [w \in Workers |-> "reading"]
    BY <1>6 DEF Run
  <2>2. Delivering' = Delivering /\ Waiting' = {}
    BY <2>1 DEF Delivering, Waiting
  <2> QED BY <1>1, <2>1, <2>2, OwingStays
<1>7. CASE StopWorkers
  <2>1. stopping' = Workers /\ UNCHANGED <<loop, task, undeleted, spent>>
    BY <1>7 DEF StopWorkers
  <2>2. Delivering' = Delivering /\ Waiting' = Waiting /\ Failures' = Failures
    BY <2>1 DEF Delivering, Waiting, Failures
  <2> QED BY <1>1, <2>1, <2>2, OwingBounds DEF Owing
<1>8. ASSUME NEW u \in Users, PoolStep(u) PROVE Owing'
  BY <1>2, <1>8 DEF PoolStep, Acquire, Make, Made
<1>9. ASSUME NEW w \in Workers, CloserStep(w) PROVE Owing'
  BY <1>2, <1>9 DEF CloserStep, CloseListener, CloseRaises, ClosePool, Drained
<1> QED BY <1>3, <1>4, <1>5, <1>6, <1>7, <1>8, <1>9, OwingWorker, OwingFails DEF Next, Lifespan

(* However the two workers' stops and their tasks fall together, at most   *)
(* two rows of each worker are delivered and left to be delivered again,   *)
(* and one for a trouble of Postgres (app.py:42; base.py:127-146, 262-272).*)
THEOREM FewLeftUndeleted == Spec => []UndeletedIsBounded
<1>1. Init => Owing
  <2> SUFFICES ASSUME Init PROVE Owing
    OBVIOUS
  <2>1. undeleted = 0 /\ Failures = 0
    BY DEF Init, Failures
  <2>2. Delivering = {} /\ Waiting = {}
    BY DEF Init, Delivering, Waiting
  <2> QED BY <2>1, <2>2, Counts, FS_EmptySet DEF Owing
<1>2. TypeOK /\ Owing => UndeletedIsBounded
  <2> SUFFICES ASSUME TypeOK, Owing PROVE UndeletedIsBounded
    OBVIOUS
  <2>1. undeleted \in Nat /\ Failures \in Nat
    BY DEF TypeOK, Failures
  <2> QED BY <2>1, OwingBounds, Counts DEF UndeletedIsBounded
<1>3. IInv => TypeOK
  BY DEF IInv
<1> QED BY <1>1, <1>2, <1>3, InvInit, InvStep, OwingStep, PTL DEF Spec

=============================================================================
