------------------------- MODULE WorkerQueueProofs -------------------------
(***************************************************************************)
(* Proofs about WorkerQueue, for every number of messages, processes and   *)
(* permits, every retry limit and every budget of faults.                  *)
(***************************************************************************)
EXTENDS WorkerQueue, TLAPS

(* The facts about the saturating read count the proofs below rest on.     *)
LEMMA CapType == Cap \in Nat \ {0} /\ \A n \in 0..Cap : Bump(n) \in 0..Cap /\ n <= Bump(n)
BY WorkerQueueAssumption DEF Cap, Bump

-----------------------------------------------------------------------------
(* Type correctness.                                                       *)

LEMMA TypeInit == Init => TypeOK
BY CapType, WorkerQueueAssumption DEF Init, TypeOK, Task

(* A lease that lapses stays a lease, and the task that has it a task.     *)
LEMMA ExpireType == ASSUME TypeOK, NEW m \in Msgs, Expire(m) PROVE TypeOK'
<1>1. held' \in [Workers -> SUBSET Lease]
  <2>1. \A w \in Workers : \A l \in held[w] :
          (IF l.msg = m THEN [l EXCEPT !.fresh = FALSE] ELSE l) \in Lease
    <3>1. \A l \in Lease : [l EXCEPT !.fresh = FALSE] \in Lease
      BY DEF Lease
    <3> QED BY <3>1 DEF TypeOK
  <2> QED BY <2>1 DEF Expire
<1>2. task' \in [Workers \X Slots -> Task]
  <2>1. ASSUME NEW t \in Workers \X Slots
        PROVE (IF task[t].msg = m THEN [task[t] EXCEPT !.fresh = FALSE] ELSE task[t]) \in Task
    <3>1. CASE task[t] = Idle
      BY <3>1, WorkerQueueAssumption DEF Task, Idle
    <3>2. CASE task[t] \in Busy
      BY <3>2 DEF Task, Busy
    <3> QED BY <3>1, <3>2 DEF TypeOK, Task
  <2> QED BY <2>1 DEF Expire
<1> QED BY <1>1, <1>2 DEF Expire, TypeOK

LEMMA TakeType == ASSUME TypeOK, NEW batch, Take(batch)
                  PROVE  /\ visible' \in [Msgs -> BOOLEAN]
                         /\ readCt' \in [Msgs -> 0..Cap]
BY CapType DEF Take, TypeOK

LEMMA SpendType == ASSUME TypeOK, NEW f \in Faults, Spend(f)
                   PROVE  budget' \in [Faults -> Nat]
BY DEF Spend, TypeOK

LEMMA LoopType == ASSUME TypeOK, NEW w \in Workers, LoopStep(w) PROVE TypeOK'
<1>1. CASE Read(w)
  <2>1. PICK batch \in Batches \ {{}} :
          /\ Take(batch)
          /\ held' = [held EXCEPT ![w] =
                 {[msg |-> m, ct |-> Bump(readCt[m]), fresh |-> TRUE] : m \in batch}]
    BY <1>1 DEF Read
  <2>2. batch \subseteq Msgs
    BY DEF Batches, Visible
  <2>3. {[msg |-> m, ct |-> Bump(readCt[m]), fresh |-> TRUE] : m \in batch} \subseteq Lease
    <3>1. ASSUME NEW m \in batch PROVE [msg |-> m, ct |-> Bump(readCt[m]), fresh |-> TRUE] \in Lease
      BY <2>2, CapType DEF Lease, TypeOK
    <3> QED BY <3>1
  <2> QED BY <1>1, <2>1, <2>3, TakeType DEF Read, TypeOK
<1>2. CASE StartTask(w)
  <2>0. PICK l \in held[w] : \E s \in Slots \ Running(w) :
          /\ task' = [task EXCEPT ![<<w, s>>] =
               [pc |-> "handling", msg |-> l.msg, ct |-> l.ct, fresh |-> l.fresh]]
          /\ held' = [held EXCEPT ![w] = @ \ {l}]
    BY <1>2 DEF StartTask
  <2>1. PICK s \in Slots \ Running(w) :
          /\ task' = [task EXCEPT ![<<w, s>>] =
               [pc |-> "handling", msg |-> l.msg, ct |-> l.ct, fresh |-> l.fresh]]
          /\ held' = [held EXCEPT ![w] = @ \ {l}]
    BY <2>0
  <2>2. [pc |-> "handling", msg |-> l.msg, ct |-> l.ct, fresh |-> l.fresh] \in Task
    BY DEF TypeOK, Lease, Task, Busy
  <2> QED BY <1>2, <2>1, <2>2 DEF StartTask, TypeOK
<1>3. CASE ReadNothing(w) \/ Wake(w) \/ NextMessage(w) \/ LeaveLoop(w) \/ Finalize(w)
  BY <1>3 DEF ReadNothing, Wake, NextMessage, LeaveLoop, Finalize, TypeOK
<1> QED BY <1>1, <1>2, <1>3 DEF LoopStep

(* A task whose pc is not "idle" works on a message.                       *)
LEMMA BusyTask == ASSUME TypeOK, NEW w \in Workers, NEW s \in Slots, task[<<w, s>>].pc # "idle"
                  PROVE  /\ task[<<w, s>>] \in Busy
                         /\ \A p \in {"settling"} \cup Errors :
                              [task EXCEPT ![<<w, s>>].pc = p] \in [Workers \X Slots -> Task]
<1>1. task[<<w, s>>] \in Busy
  BY DEF TypeOK, Task, Idle
<1>2. \A p \in {"settling"} \cup Errors : [task[<<w, s>>] EXCEPT !.pc = p] \in Task
  BY <1>1 DEF Task, Busy
<1> QED BY <1>1, <1>2 DEF TypeOK

LEMMA MoveRowType == ASSUME TypeOK, NEW m \in Msgs, NEW to \in {"deleted", "archived"},
                            MoveRow(m, to)
                     PROVE  row' \in [Msgs -> {"unsent", "queued", "deleted", "archived"}]
BY DEF MoveRow, TypeOK

LEMMA EndTaskType == ASSUME TypeOK, NEW w \in Workers, NEW s \in Slots, EndTask(w, s)
                     PROVE  task' \in [Workers \X Slots -> Task]
BY DEF EndTask, TypeOK, Task

LEMMA TaskType == ASSUME TypeOK, NEW w \in Workers, NEW s \in Slots, TaskStep(w, s)
                  PROVE  TypeOK'
<1>1. CASE ParseFails(w, s) \/ LeaveVisible(w, s)
  BY <1>1, EndTaskType DEF ParseFails, LeaveVisible, TypeOK
<1>2. CASE HandlerReturns(w, s)
  <2>1. task[<<w, s>>].msg \in Msgs
    BY <1>2, BusyTask DEF HandlerReturns, Busy
  <2> QED BY <1>2, <2>1, BusyTask DEF HandlerReturns, TypeOK
<1>3. CASE HandlerRaises(w, s)
  <2>1. task[<<w, s>>].msg \in Msgs
    BY <1>3, BusyTask DEF HandlerRaises, Busy
  <2>2. PICK e \in Errors : task' = [task EXCEPT ![<<w, s>>].pc = e]
    BY <1>3 DEF HandlerRaises
  <2>3. task' \in [Workers \X Slots -> Task]
    BY <1>3, <2>2, BusyTask DEF HandlerRaises
  <2> QED BY <1>3, <2>1, <2>3 DEF HandlerRaises, TypeOK
<1>4. CASE Delete(w, s)
  <2>1. task[<<w, s>>].msg \in Msgs
    BY <1>4, BusyTask DEF Delete, Busy
  <2> QED BY <1>4, <2>1, EndTaskType, MoveRowType DEF Delete, TypeOK
<1>5. CASE Archive(w, s)
  <2>1. task[<<w, s>>].msg \in Msgs
    BY <1>5, BusyTask DEF Archive, GivesUp, Busy
  <2> QED BY <1>5, <2>1, EndTaskType, MoveRowType DEF Archive, TypeOK
<1>6. CASE SetVt(w, s)
  BY <1>6, EndTaskType DEF SetVt, TypeOK
<1> QED BY <1>1, <1>2, <1>3, <1>4, <1>5, <1>6 DEF TaskStep

LEMMA FaultType == ASSUME TypeOK, NEW w \in Workers, FaultStep(w) PROVE TypeOK'
<1>1. CASE ReadFault(w)
  BY <1>1, SpendType, TakeType DEF ReadFault, Faults, TypeOK
<1>2. CASE ListenerFault(w) \/ Stop(w)
  BY <1>2, SpendType DEF ListenerFault, Stop, Faults, TypeOK
<1>3. CASE Crash(w)
  <2>1. held' \in [Workers -> SUBSET Lease] /\ task' \in [Workers \X Slots -> Task]
    BY <1>3 DEF Crash, TypeOK, Task
  <2> QED BY <1>3, <2>1, SpendType DEF Crash, Faults, TypeOK
<1>4. ASSUME NEW s \in Slots, DeleteFault(w, s) PROVE TypeOK'
  <2>1. task[<<w, s>>].msg \in Msgs
    BY <1>4, BusyTask DEF DeleteFault, Busy
  <2>2. task' \in [Workers \X Slots -> Task]
    <3>1. PICK e \in {"transient", "unknown"} : task' = [task EXCEPT ![<<w, s>>].pc = e]
      BY <1>4 DEF DeleteFault
    <3> QED BY <1>4, <3>1, BusyTask DEF DeleteFault, Errors
  <2>3. row' \in [Msgs -> {"unsent", "queued", "deleted", "archived"}]
    BY <1>4, <2>1, MoveRowType DEF DeleteFault, TypeOK
  <2> QED BY <1>4, <2>2, <2>3, SpendType DEF DeleteFault, Faults, TypeOK
<1>5. ASSUME NEW s \in Slots, PolicyFault(w, s) PROVE TypeOK'
  <2>1. task[<<w, s>>].msg \in Msgs
    BY <1>5, BusyTask DEF PolicyFault, GivesUp, Reschedules, Busy
  <2>2. row' \in [Msgs -> {"unsent", "queued", "deleted", "archived"}]
    BY <1>5, <2>1, MoveRowType DEF PolicyFault, TypeOK
  <2>3. visible' \in [Msgs -> BOOLEAN]
    BY <1>5 DEF PolicyFault, TypeOK
  <2> QED BY <1>5, <2>2, <2>3, SpendType, EndTaskType DEF PolicyFault, Faults, TypeOK
<1> QED BY <1>1, <1>2, <1>3, <1>4, <1>5 DEF FaultStep

LEMMA TypeStep == TypeOK /\ [Next]_vars => TypeOK'
<1> SUFFICES ASSUME TypeOK, [Next]_vars PROVE TypeOK'
  OBVIOUS
<1>1. ASSUME NEW m \in Msgs, Send(m) PROVE TypeOK'
  BY <1>1 DEF Send, TypeOK
<1>2. ASSUME NEW w \in Workers, Restart(w) PROVE TypeOK'
  BY <1>2 DEF Restart, TypeOK
<1>3. CASE UNCHANGED vars
  BY <1>3 DEF vars, TypeOK
<1> QED BY <1>1, <1>2, <1>3, ExpireType, LoopType, TaskType, FaultType DEF Next

(* Every variable keeps its type, whatever happens to the gateway.         *)
THEOREM TypeCorrect == Spec => []TypeOK
BY TypeInit, TypeStep, PTL DEF Spec

-----------------------------------------------------------------------------
(* What becomes of a message, and why.                                     *)

(* Everything a task or a batch knows of its message is still true when it *)
(* acts on it, however late: the count it carries was reached, the handler *)
(* outcome it settles on did happen.                                       *)
HonestTask(t) ==
  task[t] \in Busy =>
    /\ task[t].ct <= readCt[task[t].msg]
    /\ row[task[t].msg] # "unsent"
    /\ task[t].pc = "settling" => task[t].msg \in handled
    /\ task[t].pc = "fatal" => task[t].msg \in fatal
HonestLease(l) == l.ct <= readCt[l.msg] /\ row[l.msg] # "unsent"
Honest ==
  /\ \A t \in Workers \X Slots : HonestTask(t)
  /\ \A w \in Workers : \A l \in held[w] : HonestLease(l)

(* Nothing that a task relies on is ever taken back.                       *)
Progress ==
  /\ \A m \in Msgs : /\ row[m] # "unsent" => row'[m] # "unsent"
                     /\ readCt[m] <= readCt'[m]
  /\ handled \subseteq handled'
  /\ fatal \subseteq fatal'

LEMMA TakeProgress == ASSUME TypeOK, NEW batch, Take(batch)
                      PROVE  \A m \in Msgs : readCt[m] <= readCt'[m]
BY CapType DEF Take, TypeOK

LEMMA Monotone == TypeOK /\ [Next]_vars => Progress
<1> SUFFICES ASSUME TypeOK, [Next]_vars PROVE Progress
  OBVIOUS
<1>0. \A m \in Msgs : readCt[m] <= readCt[m]
  BY DEF TypeOK
<1>1. ASSUME NEW m \in Msgs, Send(m) \/ Expire(m) PROVE Progress
  BY <1>1, <1>0 DEF Send, Expire, Progress, TypeOK
<1>2. ASSUME NEW w \in Workers, LoopStep(w) PROVE Progress
  <2>1. CASE Read(w)
    BY <2>1, TakeProgress DEF Read, Progress
  <2>2. CASE ~Read(w)
    BY <1>2, <1>0, <2>2 DEF LoopStep, ReadNothing, Wake, NextMessage, StartTask, LeaveLoop,
                            Finalize, Progress
  <2> QED BY <2>1, <2>2
<1>3. ASSUME NEW w \in Workers, FaultStep(w) PROVE Progress
  <2>1. CASE ReadFault(w)
    BY <2>1, TakeProgress DEF ReadFault, Progress
  <2>2. CASE ListenerFault(w) \/ Stop(w) \/ Crash(w)
    BY <2>2, <1>0 DEF ListenerFault, Stop, Crash, Progress
  <2>3. ASSUME NEW s \in Slots, DeleteFault(w, s) \/ PolicyFault(w, s) PROVE Progress
    BY <2>3, <1>0 DEF DeleteFault, PolicyFault, MoveRow, Progress, TypeOK
  <2> QED BY <1>3, <2>1, <2>2, <2>3 DEF FaultStep
<1>4. ASSUME NEW w \in Workers, Restart(w) PROVE Progress
  BY <1>4, <1>0 DEF Restart, Progress
<1>5. ASSUME NEW w \in Workers, NEW s \in Slots, TaskStep(w, s) PROVE Progress
  BY <1>5, <1>0 DEF TaskStep, ParseFails, HandlerReturns, HandlerRaises, Delete, Archive,
                    SetVt, LeaveVisible, MoveRow, Progress, TypeOK
<1>6. CASE UNCHANGED vars
  BY <1>6, <1>0 DEF vars, Progress
<1> QED BY <1>1, <1>2, <1>3, <1>4, <1>5, <1>6 DEF Next

(* A busy task was busy with the same read of the same message before, or  *)
(* has just been made of a lease of its worker.                            *)
SameTask(t) ==
  /\ task[t] \in Busy
  /\ task'[t].msg = task[t].msg /\ task'[t].ct = task[t].ct
  /\ \/ task'[t].pc = task[t].pc
     \/ /\ task[t].pc = "handling" => task[t].msg \notin Malformed
        /\ \/ task'[t].pc = "settling" /\ task[t].msg \in handled'
           \/ task'[t].pc = "fatal" /\ task[t].msg \in fatal'
           \/ task'[t].pc \in {"transient", "unknown"}
NewTask(t) ==
  /\ task'[t].pc = "handling"
  /\ \E l \in held[t[1]] : task'[t].msg = l.msg /\ task'[t].ct = l.ct
TaskOrigins == \A t \in Workers \X Slots : task'[t] \in Busy => SameTask(t) \/ NewTask(t)

LEMMA IdleNotBusy == Idle \notin Busy
BY DEF Idle, Busy, Errors

LEMMA EndTaskOrigins == ASSUME TypeOK, NEW w \in Workers, NEW s \in Slots, EndTask(w, s)
                        PROVE  TaskOrigins
BY IdleNotBusy DEF EndTask, TaskOrigins, SameTask, TypeOK

LEMMA TaskOrigin == TypeOK /\ [Next]_vars => TaskOrigins
<1> SUFFICES ASSUME TypeOK, [Next]_vars PROVE TaskOrigins
  OBVIOUS
<1>1. CASE UNCHANGED task
  BY <1>1 DEF TaskOrigins, SameTask
<1>2. ASSUME NEW m \in Msgs, Expire(m) PROVE TaskOrigins
  <2> SUFFICES ASSUME NEW t \in Workers \X Slots, task'[t] \in Busy PROVE SameTask(t)
    BY DEF TaskOrigins
  <2>1. task[t] # Idle
    BY <1>2, IdleNotBusy, WorkerQueueAssumption DEF Expire, Idle
  <2>2. task[t] \in Busy
    BY <2>1 DEF TypeOK, Task
  <2> QED BY <1>2, <2>2 DEF Expire, SameTask, Busy
<1>3. ASSUME NEW w \in Workers, StartTask(w) PROVE TaskOrigins
  <2>1. PICK l \in held[w] : \E s \in Slots \ Running(w) :
          task' = [task EXCEPT ![<<w, s>>] =
               [pc |-> "handling", msg |-> l.msg, ct |-> l.ct, fresh |-> l.fresh]]
    BY <1>3 DEF StartTask
  <2>2. PICK s \in Slots \ Running(w) :
          task' = [task EXCEPT ![<<w, s>>] =
               [pc |-> "handling", msg |-> l.msg, ct |-> l.ct, fresh |-> l.fresh]]
    BY <2>1
  <2>3. NewTask(<<w, s>>)
    BY <2>2 DEF NewTask, TypeOK
  <2> QED BY <2>2, <2>3 DEF TaskOrigins, SameTask, TypeOK
<1>4. ASSUME NEW w \in Workers, Crash(w) PROVE TaskOrigins
  BY <1>4, IdleNotBusy DEF Crash, TaskOrigins, SameTask
<1>5. ASSUME NEW w \in Workers, NEW s \in Slots, TaskStep(w, s) PROVE TaskOrigins
  <2>1. CASE ParseFails(w, s) \/ Delete(w, s) \/ Archive(w, s) \/ SetVt(w, s) \/ LeaveVisible(w, s)
    BY <2>1, EndTaskOrigins DEF ParseFails, Delete, Archive, SetVt, LeaveVisible
  <2>2. CASE HandlerReturns(w, s)
    <3>1. task[<<w, s>>] \in Busy
      BY <2>2, BusyTask DEF HandlerReturns
    <3> QED BY <2>2, <3>1 DEF HandlerReturns, TaskOrigins, SameTask, TypeOK, Busy
  <2>3. CASE HandlerRaises(w, s)
    <3>1. task[<<w, s>>] \in Busy /\ task[<<w, s>>].msg \notin Malformed
      BY <2>3, BusyTask DEF HandlerRaises
    <3>2. PICK e \in Errors : /\ task' = [task EXCEPT ![<<w, s>>].pc = e]
                              /\ fatal' = IF e = "fatal" THEN fatal \cup {task[<<w, s>>].msg} ELSE fatal
      BY <2>3 DEF HandlerRaises
    <3> QED BY <3>1, <3>2 DEF TaskOrigins, SameTask, TypeOK, Busy, Errors
  <2> QED BY <1>5, <2>1, <2>2, <2>3 DEF TaskStep
<1>6. ASSUME NEW w \in Workers, NEW s \in Slots, DeleteFault(w, s) PROVE TaskOrigins
  <2>1. task[<<w, s>>] \in Busy /\ task[<<w, s>>].pc = "settling"
    BY <1>6, BusyTask DEF DeleteFault
  <2>2. PICK e \in {"transient", "unknown"} : task' = [task EXCEPT ![<<w, s>>].pc = e]
    BY <1>6 DEF DeleteFault
  <2> QED BY <2>1, <2>2 DEF TaskOrigins, SameTask, TypeOK, Busy
<1>7. ASSUME NEW w \in Workers, NEW s \in Slots, PolicyFault(w, s) PROVE TaskOrigins
  BY <1>7, EndTaskOrigins DEF PolicyFault
<1>8. CASE ~UNCHANGED task
  <2>1. ASSUME NEW m \in Msgs, Send(m) PROVE FALSE
    BY <1>8, <2>1 DEF Send
  <2>2. ASSUME NEW w \in Workers, LoopStep(w), ~StartTask(w) PROVE FALSE
    BY <1>8, <2>2 DEF LoopStep, Read, ReadNothing, Wake, NextMessage, LeaveLoop, Finalize
  <2>3. ASSUME NEW w \in Workers, ReadFault(w) \/ ListenerFault(w) \/ Stop(w) \/ Restart(w) PROVE FALSE
    BY <1>8, <2>3 DEF ReadFault, ListenerFault, Stop, Restart
  <2>4. ~UNCHANGED vars
    BY <1>8 DEF vars
  <2> QED BY <1>2, <1>3, <1>4, <1>5, <1>6, <1>7, <2>1, <2>2, <2>3, <2>4 DEF Next, FaultStep
<1> QED BY <1>1, <1>8

(* A lease in a batch was there before, or comes from a read in this step. *)
OldLease(w, l) == \E k \in held[w] : k.msg = l.msg /\ k.ct = l.ct
NewLease(l) == l.msg \in Visible /\ row' = row /\ l.ct = readCt'[l.msg]
LeaseOrigins == \A w \in Workers : \A l \in held'[w] : OldLease(w, l) \/ NewLease(l)

LEMMA LeaseOrigin == TypeOK /\ [Next]_vars => LeaseOrigins
<1> SUFFICES ASSUME TypeOK, [Next]_vars PROVE LeaseOrigins
  OBVIOUS
<1>1. CASE UNCHANGED held
  BY <1>1 DEF LeaseOrigins, OldLease
<1>2. ASSUME NEW m \in Msgs, Expire(m) PROVE LeaseOrigins
  <2>1. \A l \in Lease : /\ [l EXCEPT !.fresh = FALSE].msg = l.msg
                        /\ [l EXCEPT !.fresh = FALSE].ct = l.ct
    BY DEF Lease
  <2>2. ASSUME NEW w \in Workers, NEW l \in held'[w] PROVE OldLease(w, l)
    <3>1. PICK k \in held[w] : l = IF k.msg = m THEN [k EXCEPT !.fresh = FALSE] ELSE k
      BY <1>2 DEF Expire
    <3>2. k \in Lease
      BY DEF TypeOK
    <3>3. k.msg = l.msg /\ k.ct = l.ct
      BY <2>1, <3>1, <3>2
    <3> QED BY <3>3 DEF OldLease
  <2> QED BY <2>2 DEF LeaseOrigins
<1>3. ASSUME NEW w \in Workers, Read(w) PROVE LeaseOrigins
  <2>1. PICK batch \in Batches \ {{}} :
          /\ Take(batch)
          /\ held' = [held EXCEPT ![w] =
                 {[msg |-> m, ct |-> Bump(readCt[m]), fresh |-> TRUE] : m \in batch}]
    BY <1>3 DEF Read
  <2>2. ASSUME NEW l \in held'[w] PROVE NewLease(l)
    <3>1. PICK m \in batch : l = [msg |-> m, ct |-> Bump(readCt[m]), fresh |-> TRUE]
      BY <2>1 DEF TypeOK
    <3>2. m \in Visible
      BY DEF Batches
    <3> QED BY <1>3, <2>1, <3>1, <3>2 DEF NewLease, Take, Read, Visible
  <2> QED BY <2>1, <2>2 DEF LeaseOrigins, OldLease, TypeOK
<1>4. ASSUME NEW w \in Workers, NextMessage(w) \/ StartTask(w) \/ Crash(w) PROVE LeaseOrigins
  <2>1. \A v \in Workers : held'[v] \subseteq held[v]
    <3>1. CASE NextMessage(w) \/ Crash(w)
      BY <3>1 DEF NextMessage, Crash, TypeOK
    <3>2. CASE StartTask(w)
      <4>1. PICK l \in held[w] : held' = [held EXCEPT ![w] = @ \ {l}]
        BY <3>2 DEF StartTask
      <4> QED BY <4>1 DEF TypeOK
    <3> QED BY <1>4, <3>1, <3>2
  <2> QED BY <2>1 DEF LeaseOrigins, OldLease
<1>5. CASE ~UNCHANGED held
  <2>1. ASSUME NEW m \in Msgs, Send(m) PROVE FALSE
    BY <1>5, <2>1 DEF Send
  <2>2. ASSUME NEW w \in Workers, ReadNothing(w) \/ Wake(w) \/ LeaveLoop(w) \/ Finalize(w)
        PROVE FALSE
    BY <1>5, <2>2 DEF ReadNothing, Wake, LeaveLoop, Finalize
  <2>3. ASSUME NEW w \in Workers, ReadFault(w) \/ ListenerFault(w) \/ Stop(w) \/ Restart(w) PROVE FALSE
    BY <1>5, <2>3 DEF ReadFault, ListenerFault, Stop, Restart
  <2>4. ASSUME NEW w \in Workers, NEW s \in Slots,
               TaskStep(w, s) \/ DeleteFault(w, s) \/ PolicyFault(w, s) PROVE FALSE
    BY <1>5, <2>4 DEF TaskStep, ParseFails, HandlerReturns, HandlerRaises, Delete, Archive,
                      SetVt, LeaveVisible, DeleteFault, PolicyFault
  <2>5. ~UNCHANGED vars
    BY <1>5 DEF vars
  <2> QED BY <1>2, <1>3, <1>4, <2>1, <2>2, <2>3, <2>4, <2>5 DEF Next, LoopStep, FaultStep
<1> QED BY <1>1, <1>5

LEMMA HonestInit == Init => Honest
BY IdleNotBusy DEF Init, Honest, HonestTask

LEMMA HonestStep == TypeOK /\ Honest /\ [Next]_vars => Honest'
<1> SUFFICES ASSUME TypeOK, Honest, [Next]_vars PROVE Honest'
  OBVIOUS
<1>1. Progress /\ TaskOrigins /\ LeaseOrigins /\ TypeOK'
  BY Monotone, TaskOrigin, LeaseOrigin, TypeStep
<1>2. ASSUME NEW l \in Lease, NEW k \in Lease, HonestLease(k), l.msg = k.msg, l.ct = k.ct
      PROVE  HonestLease(l)'
  BY <1>1, <1>2 DEF HonestLease, Progress, Lease, TypeOK
<1>3. ASSUME NEW w \in Workers, NEW l \in held'[w] PROVE HonestLease(l)'
  <2>1. l \in Lease
    BY <1>1 DEF TypeOK
  <2>2. CASE OldLease(w, l)
    <3>1. PICK k \in held[w] : k.msg = l.msg /\ k.ct = l.ct
      BY <2>2 DEF OldLease
    <3>2. k \in Lease /\ HonestLease(k)
      BY DEF TypeOK, Honest
    <3> QED BY <1>2, <2>1, <3>1, <3>2
  <2>3. CASE NewLease(l)
    BY <1>1, <2>1, <2>3 DEF NewLease, HonestLease, Visible, TypeOK, Lease
  <2> QED BY <1>1, <2>2, <2>3 DEF LeaseOrigins
<1>4. ASSUME NEW t \in Workers \X Slots, task'[t] \in Busy PROVE HonestTask(t)'
  <2>1. CASE SameTask(t)
    <3>1. HonestTask(t)
      BY DEF Honest
    <3> QED BY <1>1, <2>1, <3>1 DEF SameTask, HonestTask, Progress, Busy, TypeOK
  <2>2. CASE NewTask(t)
    <3>1. PICK l \in held[t[1]] : task'[t].msg = l.msg /\ task'[t].ct = l.ct
      BY <2>2 DEF NewTask
    <3>2. l \in Lease /\ HonestLease(l)
      BY DEF TypeOK, Honest
    <3>3. HonestLease(l)'
      BY <1>2, <3>2
    <3> QED BY <2>2, <3>1, <3>3 DEF NewTask, HonestTask, HonestLease
  <2> QED BY <1>1, <1>4, <2>1, <2>2 DEF TaskOrigins
<1> QED BY <1>3, <1>4 DEF Honest, HonestTask

(* A row changes its place only by Send, or out of the queue by a task     *)
(* that may do so.                                                         *)
Settles(t, m, to) ==
  /\ task[t] \in Busy /\ task[t].msg = m
  /\ \/ to = "deleted" /\ task[t].pc = "settling"
     \/ to = "archived" /\ GivesUp(task[t])
RowChanges ==
  \A m \in Msgs : \/ row'[m] = row[m]
                  \/ row[m] = "unsent" /\ row'[m] = "queued"
                  \/ /\ row[m] = "queued"
                     /\ \E t \in Workers \X Slots : Settles(t, m, row'[m])

LEMMA RowChange == TypeOK /\ [Next]_vars => RowChanges
<1> SUFFICES ASSUME TypeOK, [Next]_vars PROVE RowChanges
  OBVIOUS
<1>1. CASE UNCHANGED row
  BY <1>1 DEF RowChanges
<1>2. ASSUME NEW m \in Msgs, Send(m) PROVE RowChanges
  BY <1>2 DEF Send, RowChanges, TypeOK
<1>3. ASSUME NEW w \in Workers, NEW s \in Slots, task[<<w, s>>].pc = "settling",
             MoveRow(task[<<w, s>>].msg, "deleted") PROVE RowChanges
  BY <1>3, BusyTask DEF MoveRow, RowChanges, Settles, TypeOK
<1>4. ASSUME NEW w \in Workers, NEW s \in Slots, GivesUp(task[<<w, s>>]),
             MoveRow(task[<<w, s>>].msg, "archived") PROVE RowChanges
  <2>1. task[<<w, s>>] \in Busy
    BY <1>4, BusyTask DEF GivesUp
  <2> QED BY <1>4, <2>1 DEF MoveRow, RowChanges, Settles, TypeOK
<1>5. CASE ~UNCHANGED row
  <2>1. ASSUME NEW m \in Msgs, Expire(m) PROVE FALSE
    BY <1>5, <2>1 DEF Expire
  <2>2. ASSUME NEW w \in Workers, LoopStep(w) \/ Restart(w) PROVE FALSE
    BY <1>5, <2>2 DEF LoopStep, Read, ReadNothing, Wake, NextMessage, StartTask, LeaveLoop,
                      Finalize, Restart
  <2>3. ASSUME NEW w \in Workers, ReadFault(w) \/ ListenerFault(w) \/ Stop(w) \/ Crash(w) PROVE FALSE
    BY <1>5, <2>3 DEF ReadFault, ListenerFault, Stop, Crash
  <2>4. ASSUME NEW w \in Workers, NEW s \in Slots,
               TaskStep(w, s) \/ DeleteFault(w, s) \/ PolicyFault(w, s) PROVE RowChanges
    BY <1>3, <1>4, <1>5, <2>4 DEF TaskStep, ParseFails, HandlerReturns, HandlerRaises, Delete,
                      Archive, SetVt, LeaveVisible, DeleteFault, PolicyFault
  <2>5. ~UNCHANGED vars
    BY <1>5 DEF vars
  <2> QED BY <1>2, <2>1, <2>2, <2>3, <2>4, <2>5 DEF Next, FaultStep
<1> QED BY <1>1, <1>5

LEMMA HopelessStays == ASSUME TypeOK, Progress, TypeOK', NEW m \in Msgs, Hopeless(m)
                       PROVE  Hopeless(m)'
BY WorkerQueueAssumption DEF Progress, Hopeless, TypeOK

(* The retry limits are compared with a count no greater than the table's. *)
LEMMA GivenUpIsHopeless == ASSUME TypeOK, Honest, NEW t \in Workers \X Slots,
                                  task[t] \in Busy, GivesUp(task[t])
                           PROVE  Hopeless(task[t].msg)
<1>1. HonestTask(t)
  BY DEF Honest
<1> QED BY <1>1, WorkerQueueAssumption, CapType DEF HonestTask, GivesUp, Hopeless, Busy, TypeOK

Outcome == DeletedWasHandled /\ ArchivedWasHopeless

LEMMA OutcomeStep == TypeOK /\ Honest /\ Outcome /\ [Next]_vars => Outcome'
<1> SUFFICES ASSUME TypeOK, Honest, Outcome, [Next]_vars, NEW m \in Msgs
             PROVE  /\ row'[m] = "deleted" => m \in handled'
                    /\ row'[m] = "archived" => Hopeless(m)'
  BY DEF Outcome, DeletedWasHandled, ArchivedWasHopeless
<1>1. Progress /\ RowChanges /\ TypeOK'
  BY Monotone, RowChange, TypeStep
<1>2. CASE row'[m] = row[m]
  BY <1>1, <1>2, HopelessStays DEF Outcome, DeletedWasHandled, ArchivedWasHopeless, Progress
<1>3. CASE row'[m] = "queued"
  BY <1>3
<1>4. ASSUME NEW t \in Workers \X Slots, Settles(t, m, row'[m])
      PROVE  /\ row'[m] = "deleted" => m \in handled'
             /\ row'[m] = "archived" => Hopeless(m)'
  <2>1. HonestTask(t)
    BY DEF Honest
  <2> QED BY <1>1, <1>4, <2>1, GivenUpIsHopeless, HopelessStays DEF Settles, HonestTask, Progress
<1> QED BY <1>1, <1>2, <1>3, <1>4 DEF RowChanges

(* What is deleted was handled and what is archived was hopeless, in every *)
(* gateway of any size, whatever its retry limits.                         *)
THEOREM OutcomeCorrect == Spec => [](DeletedWasHandled /\ ArchivedWasHopeless)
<1>1. Init => TypeOK /\ Honest /\ Outcome
  BY TypeInit, HonestInit DEF Init, Outcome, DeletedWasHandled, ArchivedWasHopeless
<1>2. TypeOK /\ Honest /\ Outcome /\ [Next]_vars => (TypeOK /\ Honest /\ Outcome)'
  BY TypeStep, HonestStep, OutcomeStep
<1>3. Outcome => DeletedWasHandled /\ ArchivedWasHopeless
  BY DEF Outcome
<1> QED BY <1>1, <1>2, <1>3, PTL DEF Spec

(* A task whose message does not decode gets no further than that, so it   *)
(* never comes to the error policy and its row stays.                      *)
Undecoded ==
  /\ \A t \in Workers \X Slots :
       task[t] \in Busy /\ task[t].msg \in Malformed => task[t].pc = "handling"
  /\ UndecodedStays

LEMMA UndecodedStep == TypeOK /\ Undecoded /\ [Next]_vars => Undecoded'
<1> SUFFICES ASSUME TypeOK, Undecoded, [Next]_vars PROVE Undecoded'
  OBVIOUS
<1>1. TaskOrigins /\ RowChanges
  BY TaskOrigin, RowChange
<1>2. ASSUME NEW t \in Workers \X Slots, task'[t] \in Busy, task'[t].msg \in Malformed
      PROVE  task'[t].pc = "handling"
  <2>1. CASE SameTask(t)
    BY <1>2, <2>1 DEF SameTask, Undecoded
  <2>2. CASE NewTask(t)
    BY <2>2 DEF NewTask
  <2> QED BY <1>1, <1>2, <2>1, <2>2 DEF TaskOrigins
<1>3. ASSUME NEW m \in Malformed PROVE row'[m] \in {"unsent", "queued"}
  <2>1. m \in Msgs /\ row[m] \in {"unsent", "queued"}
    BY WorkerQueueAssumption DEF Undecoded, UndecodedStays
  <2>2. ASSUME NEW t \in Workers \X Slots, Settles(t, m, row'[m]) PROVE FALSE
    BY <2>2 DEF Settles, GivesUp, Undecoded
  <2> QED BY <1>1, <2>1, <2>2 DEF RowChanges
<1> QED BY <1>2, <1>3 DEF Undecoded, UndecodedStays

(* A row whose body does not decode is neither deleted nor archived, however*)
(* often it has been read: no limit ends its retries (base.py:158-160).    *)
THEOREM MalformedNeverLeave == Spec => []UndecodedStays
<1>1. Init => Undecoded
  BY IdleNotBusy, WorkerQueueAssumption DEF Init, Undecoded, UndecodedStays
<1>2. Undecoded => UndecodedStays
  BY DEF Undecoded, UndecodedStays
<1> QED BY <1>1, <1>2, TypeInit, TypeStep, UndecodedStep, PTL DEF Spec

-----------------------------------------------------------------------------
(* Temporary exclusivity.                                                  *)

LEMMA ExclusiveInit == Init => ExclusiveLease
BY DEF Init, ExclusiveLease, Idle

(* Exclusivity survives a step that makes no lease fresh, moves none and   *)
(* shows no row.                                                           *)
LEMMA ExclusiveShrinks ==
  ASSUME ExclusiveLease,
         \A w \in Workers : held'[w] \subseteq held[w],
         \A t \in Workers \X Slots :
            task'[t].fresh => task[t].fresh /\ task'[t].msg = task[t].msg,
         \A w \in Workers : \A l \in held[w] : visible'[l.msg] => visible[l.msg],
         \A t \in Workers \X Slots :
            task[t].fresh /\ visible'[task[t].msg] => visible[task[t].msg]
  PROVE  ExclusiveLease'
<1>1. \A w1, w2 \in Workers : \A l1 \in held'[w1], l2 \in held'[w2] :
        l1.fresh /\ l2.fresh /\ l1.msg = l2.msg => w1 = w2 /\ l1 = l2
  BY DEF ExclusiveLease
<1>2. \A t1, t2 \in Workers \X Slots :
        task'[t1].fresh /\ task'[t2].fresh /\ task'[t1].msg = task'[t2].msg => t1 = t2
  BY DEF ExclusiveLease
<1>3. \A w \in Workers : \A l \in held'[w], t \in Workers \X Slots :
        ~(l.fresh /\ task'[t].fresh /\ l.msg = task'[t].msg)
  BY DEF ExclusiveLease
<1>4. \A w \in Workers : \A l \in held'[w] : l.fresh => ~visible'[l.msg]
  BY DEF ExclusiveLease
<1>5. \A t \in Workers \X Slots : task'[t].fresh => ~visible'[task'[t].msg]
  BY DEF ExclusiveLease
<1> QED BY <1>1, <1>2, <1>3, <1>4, <1>5 DEF ExclusiveLease

LEMMA EndTaskExclusive ==
  ASSUME TypeOK, ExclusiveLease, NEW w \in Workers, NEW s \in Slots, EndTask(w, s),
         UNCHANGED held, UNCHANGED visible \/ visible' = [visible EXCEPT ![task[<<w, s>>].msg] = FALSE]
  PROVE  ExclusiveLease'
<1>1. \A t \in Workers \X Slots :
         task'[t].fresh => task[t].fresh /\ task'[t].msg = task[t].msg
  BY DEF EndTask, Idle, TypeOK
<1>2. \A m : visible'[m] => visible[m] \/ m \notin Msgs
  BY DEF TypeOK
<1>3. \A w1 \in Workers : \A l \in held[w1] : l.msg \in Msgs
  BY DEF TypeOK, Lease
<1>4. \A t \in Workers \X Slots : task[t].fresh => task[t].msg \in Msgs
  BY DEF TypeOK, Task, Busy, Idle
<1> QED BY <1>1, <1>2, <1>3, <1>4, ExclusiveShrinks

LEMMA NewPcExclusive ==
  ASSUME TypeOK, ExclusiveLease, NEW w \in Workers, NEW s \in Slots,
         NEW p \in {"settling"} \cup Errors, task[<<w, s>>].pc # "idle",
         task' = [task EXCEPT ![<<w, s>>].pc = p], UNCHANGED held, UNCHANGED visible
  PROVE  ExclusiveLease'
<1>1. task[<<w, s>>] \in Busy
  BY BusyTask
<1>2. \A t \in Workers \X Slots :
         task'[t].fresh => task[t].fresh /\ task'[t].msg = task[t].msg
  BY <1>1 DEF TypeOK, Busy
<1> QED BY <1>2, ExclusiveShrinks

LEMMA ExclusiveRead ==
  ASSUME TypeOK, ExclusiveLease, NEW w \in Workers, Read(w) PROVE ExclusiveLease'
<1>1. PICK batch \in Batches \ {{}} :
        /\ Take(batch)
        /\ held' = [held EXCEPT ![w] =
               {[msg |-> m, ct |-> Bump(readCt[m]), fresh |-> TRUE] : m \in batch}]
  BY DEF Read
<1>2. \A m \in batch : m \in Msgs /\ visible[m]
  BY DEF Batches, Visible
<1>3. /\ \A l \in held'[w] : l.msg \in batch
      /\ \A l1, l2 \in held'[w] : l1.msg = l2.msg => l1 = l2
  <2>1. \A l \in held'[w] :
          l.msg \in batch /\ l = [msg |-> l.msg, ct |-> Bump(readCt[l.msg]), fresh |-> TRUE]
    <3>1. ASSUME NEW l \in held'[w]
          PROVE l.msg \in batch /\ l = [msg |-> l.msg, ct |-> Bump(readCt[l.msg]), fresh |-> TRUE]
      <4>1. PICK m \in batch : l = [msg |-> m, ct |-> Bump(readCt[m]), fresh |-> TRUE]
        BY <1>1 DEF TypeOK
      <4> QED BY <4>1
    <3> QED BY <3>1
  <2> QED BY <2>1
<1>4. \A v \in Workers : v # w => held'[v] = held[v]
  BY <1>1 DEF TypeOK
<1>5. UNCHANGED task
  BY DEF Read
<1>6. /\ \A v \in Workers : \A l \in held[v] : l.fresh => l.msg \in Msgs /\ l.msg \notin batch
      /\ \A t \in Workers \X Slots : task[t].fresh => task[t].msg \in Msgs /\ task[t].msg \notin batch
  BY <1>2 DEF ExclusiveLease, TypeOK, Lease, Task, Busy, Idle
<1>7. \A m \in Msgs : visible'[m] <=> visible[m] /\ m \notin batch
  BY <1>1 DEF Take
<1>8. \A w1, w2 \in Workers : \A l1 \in held'[w1], l2 \in held'[w2] :
        l1.fresh /\ l2.fresh /\ l1.msg = l2.msg => w1 = w2 /\ l1 = l2
  BY <1>3, <1>4, <1>6 DEF ExclusiveLease
<1>9. \A v \in Workers : \A l \in held'[v], t \in Workers \X Slots :
        ~(l.fresh /\ task[t].fresh /\ l.msg = task[t].msg)
  BY <1>3, <1>4, <1>6 DEF ExclusiveLease
<1>10. \A v \in Workers : \A l \in held'[v] : l.fresh => ~visible'[l.msg]
  BY <1>2, <1>3, <1>4, <1>6, <1>7 DEF ExclusiveLease
<1>11. \A t \in Workers \X Slots : task[t].fresh => ~visible'[task[t].msg]
  BY <1>6, <1>7 DEF ExclusiveLease
<1> QED BY <1>5, <1>8, <1>9, <1>10, <1>11 DEF ExclusiveLease

LEMMA ExclusiveStart ==
  ASSUME TypeOK, ExclusiveLease, NEW w \in Workers, StartTask(w) PROVE ExclusiveLease'
<1>1. PICK l \in held[w] : \E s \in Slots \ Running(w) :
        /\ task' = [task EXCEPT ![<<w, s>>] =
              [pc |-> "handling", msg |-> l.msg, ct |-> l.ct, fresh |-> l.fresh]]
        /\ held' = [held EXCEPT ![w] = @ \ {l}]
  BY DEF StartTask
<1>2. PICK s \in Slots \ Running(w) :
        /\ task' = [task EXCEPT ![<<w, s>>] =
              [pc |-> "handling", msg |-> l.msg, ct |-> l.ct, fresh |-> l.fresh]]
        /\ held' = [held EXCEPT ![w] = @ \ {l}]
  BY <1>1
<1>3. /\ task'[<<w, s>>].msg = l.msg /\ task'[<<w, s>>].fresh = l.fresh
      /\ \A t \in Workers \X Slots : t # <<w, s>> => task'[t] = task[t]
  BY <1>2 DEF TypeOK
<1>4. /\ held'[w] = held[w] \ {l}
      /\ \A v \in Workers : v # w => held'[v] = held[v]
  BY <1>2 DEF TypeOK
<1>5. UNCHANGED visible
  BY DEF StartTask
<1>6. \A w1, w2 \in Workers : \A l1 \in held'[w1], l2 \in held'[w2] :
        l1.fresh /\ l2.fresh /\ l1.msg = l2.msg => w1 = w2 /\ l1 = l2
  BY <1>4 DEF ExclusiveLease
<1>7. \A t1, t2 \in Workers \X Slots :
        task'[t1].fresh /\ task'[t2].fresh /\ task'[t1].msg = task'[t2].msg => t1 = t2
  BY <1>3 DEF ExclusiveLease
<1>8. \A v \in Workers : \A k \in held'[v], t \in Workers \X Slots :
        ~(k.fresh /\ task'[t].fresh /\ k.msg = task'[t].msg)
  BY <1>3, <1>4 DEF ExclusiveLease
<1>9. \A v \in Workers : \A k \in held'[v] : k.fresh => ~visible'[k.msg]
  BY <1>4, <1>5 DEF ExclusiveLease
<1>10. \A t \in Workers \X Slots : task'[t].fresh => ~visible'[task'[t].msg]
  BY <1>3, <1>5 DEF ExclusiveLease
<1> QED BY <1>6, <1>7, <1>8, <1>9, <1>10 DEF ExclusiveLease

LEMMA ExclusiveExpire ==
  ASSUME TypeOK, ExclusiveLease, NEW m \in Msgs, Expire(m) PROVE ExclusiveLease'
<1>1. \A w \in Workers : \A l \in held'[w] : l.fresh => l \in held[w] /\ l.msg # m
  <2>1. ASSUME NEW w \in Workers, NEW l \in held'[w], l.fresh PROVE l \in held[w] /\ l.msg # m
    <3>1. PICK k \in held[w] : l = IF k.msg = m THEN [k EXCEPT !.fresh = FALSE] ELSE k
      BY DEF Expire
    <3>2. k \in Lease
      BY DEF TypeOK
    <3>3. k.msg # m
      BY <2>1, <3>1, <3>2 DEF Lease
    <3> QED BY <3>1, <3>3
  <2> QED BY <2>1
<1>2. \A t \in Workers \X Slots : task'[t].fresh => task'[t] = task[t] /\ task[t].msg # m
  <2>1. ASSUME NEW t \in Workers \X Slots, task[t].msg = m PROVE ~task'[t].fresh
    <3>1. task[t] \in Busy
      BY <2>1, WorkerQueueAssumption DEF TypeOK, Task, Idle
    <3> QED BY <2>1, <3>1 DEF Expire, Busy
  <2>2. ASSUME NEW t \in Workers \X Slots, task[t].msg # m PROVE task'[t] = task[t]
    BY <2>2 DEF Expire
  <2> QED BY <2>1, <2>2
<1>3. \A n : n # m => (visible'[n] <=> visible[n])
  BY DEF Expire, TypeOK
<1>4. \A w1, w2 \in Workers : \A l1 \in held'[w1], l2 \in held'[w2] :
        l1.fresh /\ l2.fresh /\ l1.msg = l2.msg => w1 = w2 /\ l1 = l2
  BY <1>1 DEF ExclusiveLease
<1>5. \A t1, t2 \in Workers \X Slots :
        task'[t1].fresh /\ task'[t2].fresh /\ task'[t1].msg = task'[t2].msg => t1 = t2
  BY <1>2 DEF ExclusiveLease
<1>6. \A w \in Workers : \A l \in held'[w], t \in Workers \X Slots :
        ~(l.fresh /\ task'[t].fresh /\ l.msg = task'[t].msg)
  BY <1>1, <1>2 DEF ExclusiveLease
<1>7. \A w \in Workers : \A l \in held'[w] : l.fresh => ~visible'[l.msg]
  BY <1>1, <1>3 DEF ExclusiveLease
<1>8. \A t \in Workers \X Slots : task'[t].fresh => ~visible'[task'[t].msg]
  BY <1>2, <1>3 DEF ExclusiveLease
<1> QED BY <1>4, <1>5, <1>6, <1>7, <1>8 DEF ExclusiveLease

LEMMA ExclusiveStep == TypeOK /\ Honest /\ ExclusiveLease /\ [Next]_vars => ExclusiveLease'
<1> SUFFICES ASSUME TypeOK, Honest, ExclusiveLease, [Next]_vars PROVE ExclusiveLease'
  OBVIOUS
<1>1. ASSUME UNCHANGED held, UNCHANGED task, \A m \in Msgs : visible'[m] => visible[m]
      PROVE  ExclusiveLease'
  <2>1. \A w \in Workers : \A l \in held[w] : l.msg \in Msgs
    BY DEF TypeOK, Lease
  <2>2. \A t \in Workers \X Slots : task[t].fresh => task[t].msg \in Msgs
    BY DEF TypeOK, Task, Busy, Idle
  <2> QED BY <1>1, <2>1, <2>2, ExclusiveShrinks
<1>2. ASSUME NEW m \in Msgs, Send(m) PROVE ExclusiveLease'
  <2>1. \A w \in Workers : \A l \in held[w] : l.msg # m
    BY <1>2 DEF Send, Honest, HonestLease
  <2>2. \A t \in Workers \X Slots : task[t].fresh => task[t].msg # m
    BY <1>2 DEF Send, Honest, HonestTask, TypeOK, Task, Idle
  <2>3. \A n : n # m => visible'[n] = visible[n]
    BY <1>2 DEF Send, TypeOK
  <2> QED BY <1>2, <2>1, <2>2, <2>3, ExclusiveShrinks DEF Send
<1>3. ASSUME NEW w \in Workers, LoopStep(w) PROVE ExclusiveLease'
  <2>1. CASE ReadNothing(w) \/ Wake(w) \/ LeaveLoop(w) \/ Finalize(w)
    BY <1>1, <2>1 DEF ReadNothing, Wake, LeaveLoop, Finalize
  <2>2. CASE NextMessage(w)
    BY <2>2, ExclusiveShrinks DEF NextMessage, TypeOK
  <2> QED BY <1>3, <2>1, <2>2, ExclusiveRead, ExclusiveStart DEF LoopStep
<1>4. ASSUME NEW w \in Workers, ReadFault(w) \/ ListenerFault(w) \/ Stop(w) \/ Restart(w)
      PROVE  ExclusiveLease'
  BY <1>1, <1>4 DEF ReadFault, Take, ListenerFault, Stop, Restart
<1>5. ASSUME NEW w \in Workers, Crash(w) PROVE ExclusiveLease'
  BY <1>5, ExclusiveShrinks DEF Crash, Idle, TypeOK
<1>6. ASSUME NEW w \in Workers, NEW s \in Slots, TaskStep(w, s) PROVE ExclusiveLease'
  <2>1. CASE ParseFails(w, s) \/ Delete(w, s) \/ Archive(w, s) \/ SetVt(w, s) \/ LeaveVisible(w, s)
    BY <2>1, EndTaskExclusive DEF ParseFails, Delete, Archive, SetVt, LeaveVisible
  <2>2. CASE HandlerReturns(w, s)
    BY <2>2, NewPcExclusive DEF HandlerReturns
  <2>3. CASE HandlerRaises(w, s)
    <3>1. PICK e \in Errors : task' = [task EXCEPT ![<<w, s>>].pc = e]
      BY <2>3 DEF HandlerRaises
    <3> QED BY <2>3, <3>1, NewPcExclusive DEF HandlerRaises
  <2> QED BY <1>6, <2>1, <2>2, <2>3 DEF TaskStep
<1>7. ASSUME NEW w \in Workers, NEW s \in Slots, DeleteFault(w, s) PROVE ExclusiveLease'
  <2>1. PICK e \in {"transient", "unknown"} : task' = [task EXCEPT ![<<w, s>>].pc = e]
    BY <1>7 DEF DeleteFault
  <2> QED BY <1>7, <2>1, NewPcExclusive DEF DeleteFault, Errors
<1>8. ASSUME NEW w \in Workers, NEW s \in Slots, PolicyFault(w, s) PROVE ExclusiveLease'
  BY <1>8, EndTaskExclusive DEF PolicyFault
<1>9. CASE UNCHANGED vars
  BY <1>1, <1>9 DEF vars
<1> QED BY <1>2, <1>3, <1>4, <1>5, <1>6, <1>7, <1>8, <1>9, ExclusiveExpire DEF Next, FaultStep

(* While its vt runs, a message is held in one place only, however many    *)
(* processes read the queue and whatever stale tasks do to its row.        *)
THEOREM LeaseIsExclusive == Spec => []ExclusiveLease
<1>1. Init => TypeOK /\ Honest /\ ExclusiveLease
  BY TypeInit, HonestInit, ExclusiveInit
<1>2. TypeOK /\ Honest /\ ExclusiveLease /\ [Next]_vars => (TypeOK /\ Honest /\ ExclusiveLease)'
  BY TypeStep, HonestStep, ExclusiveStep
<1> QED BY <1>1, <1>2, PTL DEF Spec

-----------------------------------------------------------------------------
(* The promise of AtLeastOnceQueue is kept.                                *)

In(place) == {m \in Msgs : row[m] = place}
HopelessSet == {m \in Msgs : Hopeless(m)}

LEMMA AtLeastOnceInit == Init => AtLeastOnce!AInit
<1> SUFFICES ASSUME Init PROVE AtLeastOnce!AInit
  OBVIOUS
<1>1. \A m \in Msgs : ~Hopeless(m) /\ row[m] = "unsent"
  BY WorkerQueueAssumption DEF Init, Hopeless
<1> QED BY <1>1 DEF AtLeastOnce!AInit, Init

(* A step that moves one row, and teaches nothing about any message.       *)
LEMMA RowMoves ==
  ASSUME TypeOK, NEW m \in Msgs, NEW to \in {"queued", "deleted", "archived"},
         row' = [row EXCEPT ![m] = to], UNCHANGED <<readCt, handled, fatal>>
  PROVE  /\ HopelessSet' = HopelessSet
         /\ In(to)' = In(to) \cup {m}
         /\ \A p \in {"queued", "deleted", "archived"} \ {to} : In(p)' = In(p) \ {m}
BY DEF HopelessSet, Hopeless, In, TypeOK

LEMMA SendPuts == ASSUME TypeOK, NEW m \in Msgs, Send(m) PROVE AtLeastOnce!Put(m)
<1>1. In("deleted")' = In("deleted") /\ In("archived")' = In("archived")
      /\ In("queued")' = In("queued") \cup {m} /\ HopelessSet' = HopelessSet
  <2>1. /\ HopelessSet' = HopelessSet
        /\ In("queued")' = In("queued") \cup {m}
        /\ \A p \in {"queued", "deleted", "archived"} \ {"queued"} : In(p)' = In(p) \ {m}
    BY RowMoves DEF Send
  <2>2. m \notin In("deleted") /\ m \notin In("archived")
    BY DEF Send, In
  <2> QED BY <2>1, <2>2
<1> QED BY <1>1 DEF Send, AtLeastOnce!Put, AtLeastOnce!Known, In, HopelessSet

LEMMA DeleteAcks ==
  ASSUME TypeOK, NEW m \in Msgs, m \in handled, row[m] # "unsent", MoveRow(m, "deleted"),
         UNCHANGED <<readCt, handled, fatal>>
  PROVE  AtLeastOnce!Ack(m) \/ UNCHANGED AtLeastOnce!avars
<1>1. CASE row[m] = "queued"
  <2>1. In("deleted")' = In("deleted") \cup {m} /\ In("archived")' = In("archived")
        /\ In("queued")' = In("queued") \ {m} /\ HopelessSet' = HopelessSet
    <3>1. row' = [row EXCEPT ![m] = "deleted"]
      BY <1>1 DEF MoveRow, TypeOK
    <3>2. /\ HopelessSet' = HopelessSet
          /\ In("deleted")' = In("deleted") \cup {m}
          /\ \A p \in {"queued", "deleted", "archived"} \ {"deleted"} : In(p)' = In(p) \ {m}
      BY <3>1, RowMoves
    <3>3. m \notin In("archived")
      BY <1>1 DEF In
    <3> QED BY <3>2, <3>3
  <2> QED BY <1>1, <2>1 DEF AtLeastOnce!Ack, In, HopelessSet
<1>2. CASE row[m] # "queued"
  <2>1. UNCHANGED row
    BY <1>2 DEF MoveRow, TypeOK
  <2> QED BY <2>1 DEF AtLeastOnce!avars, Hopeless
<1> QED BY <1>1, <1>2

LEMMA ArchiveGivesUp ==
  ASSUME TypeOK, NEW m \in Msgs, Hopeless(m), MoveRow(m, "archived"),
         UNCHANGED <<readCt, handled, fatal>>
  PROVE  AtLeastOnce!GiveUp(m) \/ UNCHANGED AtLeastOnce!avars
<1>1. CASE row[m] = "queued"
  <2>1. In("archived")' = In("archived") \cup {m} /\ In("deleted")' = In("deleted")
        /\ In("queued")' = In("queued") \ {m} /\ HopelessSet' = HopelessSet
    <3>1. row' = [row EXCEPT ![m] = "archived"]
      BY <1>1 DEF MoveRow, TypeOK
    <3>2. /\ HopelessSet' = HopelessSet
          /\ In("archived")' = In("archived") \cup {m}
          /\ \A p \in {"queued", "deleted", "archived"} \ {"archived"} : In(p)' = In(p) \ {m}
      BY <3>1, RowMoves
    <3>3. m \notin In("deleted")
      BY <1>1 DEF In
    <3> QED BY <3>2, <3>3
  <2> QED BY <1>1, <2>1 DEF AtLeastOnce!GiveUp, In, HopelessSet
<1>2. CASE row[m] # "queued"
  <2>1. UNCHANGED row
    BY <1>2 DEF MoveRow, TypeOK
  <2> QED BY <2>1 DEF AtLeastOnce!avars, Hopeless
<1> QED BY <1>1, <1>2

LEMMA TakeDespairs ==
  ASSUME TypeOK, NEW batch \in SUBSET Visible, Take(batch), UNCHANGED <<row, handled, fatal>>
  PROVE  \E b \in SUBSET Msgs : AtLeastOnce!Despair(b)
<1>1. \A m \in Msgs : m \notin batch => (Hopeless(m)' <=> Hopeless(m))
  BY DEF Take, Hopeless
<1>2. \A m \in batch : m \in Msgs /\ row[m] = "queued"
  BY DEF Visible
<1>3. \A m \in Msgs : Hopeless(m) => Hopeless(m)'
  BY CapType, WorkerQueueAssumption DEF Take, Hopeless, TypeOK
<1> DEFINE b == {m \in batch : Hopeless(m)'}
<1>4. HopelessSet' = HopelessSet \cup b /\ b \in SUBSET Msgs
  BY <1>1, <1>2, <1>3 DEF HopelessSet
<1>5. b \subseteq AtLeastOnce!Known
  BY <1>2 DEF AtLeastOnce!Known
<1>6. AtLeastOnce!Despair(b)
  BY <1>4, <1>5 DEF AtLeastOnce!Despair, HopelessSet
<1> QED BY <1>4, <1>6

LEMMA AtLeastOnceStep ==
  TypeOK /\ Honest /\ [Next]_vars => [AtLeastOnce!ANext]_(AtLeastOnce!avars)
<1> SUFFICES ASSUME TypeOK, Honest, [Next]_vars
             PROVE  AtLeastOnce!ANext \/ UNCHANGED AtLeastOnce!avars
  OBVIOUS
<1>1. ASSUME UNCHANGED <<row, readCt, handled, fatal>> PROVE UNCHANGED AtLeastOnce!avars
  BY <1>1 DEF AtLeastOnce!avars, Hopeless
<1>2. ASSUME NEW m \in Msgs, Send(m) PROVE AtLeastOnce!ANext
  BY <1>2, SendPuts DEF AtLeastOnce!ANext
<1>3. ASSUME NEW m \in Msgs, Expire(m) PROVE UNCHANGED AtLeastOnce!avars
  BY <1>1, <1>3 DEF Expire
<1>4. ASSUME NEW w \in Workers, Read(w) \/ ReadFault(w) PROVE AtLeastOnce!ANext
  <2>1. PICK batch \in SUBSET Visible : Take(batch)
    BY <1>4 DEF Read, ReadFault, Batches
  <2>2. UNCHANGED <<row, handled, fatal>>
    BY <1>4 DEF Read, ReadFault
  <2> QED BY <2>1, <2>2, TakeDespairs DEF AtLeastOnce!ANext
<1>5. ASSUME NEW w \in Workers, LoopStep(w) \/ Restart(w), ~Read(w)
      PROVE  UNCHANGED AtLeastOnce!avars
  BY <1>1, <1>5 DEF LoopStep, ReadNothing, Wake, NextMessage, StartTask, LeaveLoop, Finalize, Restart
<1>6. ASSUME NEW w \in Workers, ListenerFault(w) \/ Stop(w) \/ Crash(w)
      PROVE  UNCHANGED AtLeastOnce!avars
  BY <1>1, <1>6 DEF ListenerFault, Stop, Crash
<1>7. ASSUME NEW w \in Workers, NEW s \in Slots, task[<<w, s>>].pc # "idle"
      PROVE  /\ task[<<w, s>>] \in Busy /\ task[<<w, s>>].msg \in Msgs
             /\ HonestTask(<<w, s>>)
  BY <1>7, BusyTask DEF Busy, Honest
<1>8. ASSUME NEW w \in Workers, NEW s \in Slots, task[<<w, s>>].pc = "settling",
             MoveRow(task[<<w, s>>].msg, "deleted"), UNCHANGED <<readCt, handled, fatal>>
      PROVE  AtLeastOnce!ANext \/ UNCHANGED AtLeastOnce!avars
  BY <1>7, <1>8, DeleteAcks DEF HonestTask, AtLeastOnce!ANext
<1>9. ASSUME NEW w \in Workers, NEW s \in Slots, GivesUp(task[<<w, s>>]),
             MoveRow(task[<<w, s>>].msg, "archived"), UNCHANGED <<readCt, handled, fatal>>
      PROVE  AtLeastOnce!ANext \/ UNCHANGED AtLeastOnce!avars
  <2>1. task[<<w, s>>] \in Busy /\ task[<<w, s>>].msg \in Msgs
    BY <1>7, <1>9 DEF GivesUp
  <2> QED BY <1>9, <2>1, GivenUpIsHopeless, ArchiveGivesUp DEF AtLeastOnce!ANext
<1>10. ASSUME NEW w \in Workers, NEW s \in Slots, HandlerReturns(w, s) PROVE AtLeastOnce!ANext
  <2>1. task[<<w, s>>].msg \in Msgs /\ row[task[<<w, s>>].msg] # "unsent"
    BY <1>7, <1>10 DEF HandlerReturns, HonestTask
  <2>2. AtLeastOnce!Attempt(task[<<w, s>>].msg)
    BY <1>10, <2>1 DEF HandlerReturns, AtLeastOnce!Attempt, AtLeastOnce!Known, Hopeless, TypeOK
  <2> QED BY <2>1, <2>2 DEF AtLeastOnce!ANext
<1>11. ASSUME NEW w \in Workers, NEW s \in Slots, HandlerRaises(w, s)
       PROVE  AtLeastOnce!ANext \/ UNCHANGED AtLeastOnce!avars
  <2> DEFINE m == task[<<w, s>>].msg
  <2>1. m \in Msgs /\ row[m] # "unsent"
    BY <1>7, <1>11 DEF HandlerRaises, HonestTask
  <2>2. CASE fatal' = fatal
    BY <1>1, <1>11, <2>2 DEF HandlerRaises
  <2>3. CASE fatal' = fatal \cup {m}
    <3>1. HopelessSet' = HopelessSet \cup {m}
      BY <1>11, <2>1, <2>3 DEF HandlerRaises, HopelessSet, Hopeless
    <3>2. AtLeastOnce!Attempt(m)
      BY <1>11, <2>1, <3>1 DEF HandlerRaises, AtLeastOnce!Attempt, AtLeastOnce!Known, HopelessSet, TypeOK
    <3> QED BY <2>1, <3>2 DEF AtLeastOnce!ANext
  <2> QED BY <1>11, <2>2, <2>3 DEF HandlerRaises
<1>12. ASSUME NEW w \in Workers, NEW s \in Slots, TaskStep(w, s)
       PROVE  AtLeastOnce!ANext \/ UNCHANGED AtLeastOnce!avars
  BY <1>1, <1>8, <1>9, <1>10, <1>11, <1>12 DEF TaskStep, ParseFails, Delete, Archive, SetVt, LeaveVisible
<1>13. ASSUME NEW w \in Workers, NEW s \in Slots, DeleteFault(w, s) \/ PolicyFault(w, s)
       PROVE  AtLeastOnce!ANext \/ UNCHANGED AtLeastOnce!avars
  BY <1>1, <1>8, <1>9, <1>13 DEF DeleteFault, PolicyFault
<1>14. CASE UNCHANGED vars
  BY <1>1, <1>14 DEF vars
<1> QED BY <1>2, <1>3, <1>4, <1>5, <1>6, <1>12, <1>13, <1>14 DEF Next, LoopStep, FaultStep

(* Reads, visibility timeouts, stale tasks, crashes and failed settlements *)
(* never make the queue do anything an at-least-once queue may not do.     *)
THEOREM PromiseKept == Spec => KeepsPromise
<1>1. Init => TypeOK /\ Honest
  BY TypeInit, HonestInit
<1>2. TypeOK /\ Honest /\ [Next]_vars => (TypeOK /\ Honest)'
  BY TypeStep, HonestStep
<1> QED BY <1>1, <1>2, AtLeastOnceInit, AtLeastOnceStep, PTL DEF Spec, KeepsPromise, AtLeastOnce!ASpec
=============================================================================
