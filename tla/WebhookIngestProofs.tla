------------------------ MODULE WebhookIngestProofs ------------------------
(***************************************************************************)
(* Proofs about WebhookIngest, for every set of events, every finite       *)
(* number of requests at once and every budget of faults.                  *)
(***************************************************************************)
EXTENDS WebhookIngest, FiniteSetTheorems, TLAPS

-----------------------------------------------------------------------------
(* Type correctness.                                                       *)

LEMMA TypeInit == Init => TypeOK
BY WebhookIngestAssumption DEF Init, TypeOK, Handler

LEMMA SpendType == ASSUME TypeOK, NEW f \in Faults, Spend(f)
                   PROVE  budget' \in [Faults -> Nat]
BY DEF Spend, TypeOK

(* A request that is not idle works on an event.                           *)
LEMMA BusyHandler == ASSUME TypeOK, NEW h \in Handlers, handler[h].pc # "idle"
                     PROVE  /\ handler[h].ev \in Events
                            /\ handler[h].pc # "answer" => handler[h].status = 0
BY DEF TypeOK, Handler, Idle

LEMMA GoToType == ASSUME TypeOK, NEW h \in Handlers,
                         handler[h].pc \notin {"idle", "answer"},
                         NEW pc \in {"build", "check", "send", "mark", "confirm"}, GoTo(h, pc)
                  PROVE  /\ handler' \in [Handlers -> Handler]
                         /\ handler'[h] = [pc |-> pc, ev |-> handler[h].ev, status |-> 0]
<1>1. [handler[h] EXCEPT !.pc = pc] = [pc |-> pc, ev |-> handler[h].ev, status |-> 0]
  BY DEF TypeOK, Handler, Idle
<1>2. [pc |-> pc, ev |-> handler[h].ev, status |-> 0] \in Handler
  BY BusyHandler DEF Handler
<1> QED BY <1>1, <1>2 DEF GoTo, TypeOK

LEMMA RespondType == ASSUME TypeOK, NEW h \in Handlers, handler[h].pc # "idle",
                            NEW status \in Statuses, Respond(h, status)
                     PROVE  /\ handler' \in [Handlers -> Handler]
                            /\ handler'[h] = [pc |-> "answer", ev |-> handler[h].ev,
                                              status |-> status]
<1>1. [pc |-> "answer", ev |-> handler[h].ev, status |-> status] \in Handler
  BY BusyHandler DEF Handler
<1> QED BY <1>1 DEF Respond, TypeOK

(* What every step of a request does to the requests and to the records.   *)
(* Its own request goes on, or answers; the others stay as they are.       *)
Others(h) == \A g \in Handlers \ {h} : handler'[g] = handler[g]

LEMMA OthersStay ==
  ASSUME TypeOK, NEW h \in Handlers, HandlerStep(h) \/ FaultStep(h)
  PROVE  Others(h)
<1>1. CASE Build(h)
  BY <1>1 DEF Build, GoTo, Respond, TypeOK, Others
<1>2. CASE Check(h) \/ Send(h) \/ Mark(h) \/ Confirm(h) \/ Hear(h)
  BY <1>2 DEF Check, Send, Mark, Finish, Confirm, Hear, GoTo, Respond, TypeOK, Others
<1>3. CASE FaultStep(h)
  BY <1>3 DEF FaultStep, BuildFault, CheckFault, SendFault, MarkFault, ConfirmFault, LoseAnswer,
              Fail, Respond, TypeOK, Others
<1> QED BY <1>1, <1>2, <1>3 DEF HandlerStep

LEMMA CopyType == ASSUME TypeOK, NEW e \in Events, AddCopy(e)
                  PROVE  /\ copies' \in [Events -> Nat]
                         /\ copies'[e] = copies[e] + 1
                         /\ \A d \in Events \ {e} : copies'[d] = copies[d]
BY DEF AddCopy, TypeOK

LEMMA StepType == ASSUME TypeOK, NEW h \in Handlers, HandlerStep(h) PROVE TypeOK'
<1>1. CASE Build(h)
  <2>1. handler[h].pc \notin {"idle", "answer"}
    BY <1>1 DEF Build, At
  <2>2. handler' \in [Handlers -> Handler]
    <3>1. GoTo(h, "check") \/ Respond(h, 204) \/ Respond(h, 404)
      BY <1>1 DEF Build
    <3>2. CASE GoTo(h, "check")
      BY <2>1, <3>2, GoToType
    <3>3. CASE \E status \in Statuses : Respond(h, status)
      BY <2>1, <3>3, RespondType
    <3> QED BY <3>1, <3>2, <3>3 DEF Statuses
  <2> QED BY <1>1, <2>2 DEF Build, TypeOK
<1>2. CASE Check(h)
  <2>1. handler[h].pc \notin {"idle", "answer"}
    BY <1>2 DEF Check, At
  <2>2. handler' \in [Handlers -> Handler]
    <3>1. Respond(h, 200) \/ GoTo(h, "send")
      BY <1>2 DEF Check
    <3>2. CASE GoTo(h, "send")
      BY <2>1, <3>2, GoToType
    <3>3. CASE \E status \in Statuses : Respond(h, status)
      BY <2>1, <3>3, RespondType
    <3> QED BY <3>1, <3>2, <3>3 DEF Statuses
  <2> QED BY <1>2, <2>2 DEF Check, TypeOK
<1>3. CASE Send(h)
  <2>1. handler[h].pc \notin {"idle", "answer"}
    BY <1>3 DEF Send, At
  <2>2. handler' \in [Handlers -> Handler]
    BY <1>3, <2>1, GoToType DEF Send
  <2>3. copies' \in [Events -> Nat]
    BY <1>3, <2>1, BusyHandler, CopyType DEF Send
  <2> QED BY <1>3, <2>2, <2>3 DEF Send, TypeOK
<1>4. CASE Mark(h)
  <2>1. handler[h].pc \notin {"idle", "answer"}
    BY <1>4 DEF Mark, At
  <2>2. handler' \in [Handlers -> Handler]
    <3>1. Respond(h, 204) \/ GoTo(h, "confirm")
      BY <1>4 DEF Mark, Finish
    <3>2. CASE GoTo(h, "confirm")
      BY <2>1, <3>2, GoToType
    <3>3. CASE \E status \in Statuses : Respond(h, status)
      BY <2>1, <3>3, RespondType
    <3> QED BY <3>1, <3>2, <3>3 DEF Statuses
  <2> QED BY <1>4, <2>1, <2>2, BusyHandler DEF Mark, TypeOK
<1>5. CASE Confirm(h)
  <2>1. handler[h].pc # "idle" /\ 204 \in Statuses /\ Respond(h, 204)
    BY <1>5 DEF Confirm, At, Statuses
  <2>2. handler' \in [Handlers -> Handler]
    BY <2>1, RespondType
  <2> QED BY <1>5, <2>2 DEF Confirm, TypeOK
<1>6. CASE Hear(h)
  BY <1>6, BusyHandler DEF Hear, At, TypeOK, Handler
<1> QED BY <1>1, <1>2, <1>3, <1>4, <1>5, <1>6 DEF HandlerStep

LEMMA FailType == ASSUME TypeOK, NEW h \in Handlers, handler[h].pc # "idle", Fail(h)
                  PROVE  /\ handler' \in [Handlers -> Handler]
                         /\ \E status \in {500, 503} :
                              handler'[h] = [pc |-> "answer", ev |-> handler[h].ev,
                                             status |-> status]
<1>1. PICK status \in {500, 503} : Respond(h, status)
  BY DEF Fail
<1>2. status \in Statuses
  BY DEF Statuses
<1> QED BY <1>1, <1>2, RespondType

LEMMA FaultType == ASSUME TypeOK, NEW h \in Handlers, FaultStep(h) PROVE TypeOK'
<1>1. CASE BuildFault(h) \/ CheckFault(h) \/ ConfirmFault(h)
  <2>1. handler' \in [Handlers -> Handler]
    BY <1>1, FailType DEF BuildFault, CheckFault, ConfirmFault, At
  <2>2. budget' \in [Faults -> Nat]
    BY <1>1, SpendType DEF BuildFault, CheckFault, ConfirmFault, Faults
  <2>3. UNCHANGED <<due, acked, copies, marked>>
    BY <1>1 DEF BuildFault, CheckFault, ConfirmFault
  <2> QED BY <2>1, <2>2, <2>3 DEF TypeOK
<1>2. CASE SendFault(h)
  <2>1. handler[h].pc # "idle" /\ Fail(h)
    BY <1>2 DEF SendFault, At
  <2>4. handler' \in [Handlers -> Handler]
    BY <2>1, FailType, Zenon
  <2>5. handler[h].ev \in Events
    BY <2>1, BusyHandler
  <2>2. budget' \in [Faults -> Nat]
    BY <1>2, SpendType DEF SendFault, Faults
  <2>3. copies' \in [Events -> Nat]
    BY <1>2, <2>5, CopyType DEF SendFault, TypeOK
  <2> QED BY <1>2, <2>2, <2>3, <2>4 DEF SendFault, TypeOK
<1>3. CASE MarkFault(h)
  <2>1. handler[h].pc # "idle" /\ Fail(h)
    BY <1>3 DEF MarkFault, At
  <2>4. handler' \in [Handlers -> Handler]
    BY <2>1, FailType, Zenon
  <2>5. handler[h].ev \in Events
    BY <2>1, BusyHandler
  <2>2. budget' \in [Faults -> Nat]
    BY <1>3, SpendType DEF MarkFault, Faults
  <2> QED BY <1>3, <2>2, <2>4, <2>5 DEF MarkFault, TypeOK
<1>4. CASE LoseAnswer(h)
  <2>1. budget' \in [Faults -> Nat]
    BY <1>4, SpendType DEF LoseAnswer, Faults
  <2> QED BY <1>4, <2>1 DEF LoseAnswer, TypeOK, Handler
<1> QED BY <1>1, <1>2, <1>3, <1>4 DEF FaultStep

LEMMA TypeStep == TypeOK /\ [Next]_vars => TypeOK'
<1> SUFFICES ASSUME TypeOK, [Next]_vars PROVE TypeOK'
  OBVIOUS
<1>1. ASSUME NEW e \in Events, Happen(e) PROVE TypeOK'
  BY <1>1 DEF Happen, TypeOK
<1>2. ASSUME NEW e \in Events, Post(e) PROVE TypeOK'
  <2>1. [pc |-> "build", ev |-> e, status |-> 0] \in Handler
    BY DEF Handler
  <2> QED BY <1>2, <2>1 DEF Post, TypeOK
<1>3. CASE Crash
  BY <1>3, SpendType DEF Crash, Faults, TypeOK, Handler
<1>4. CASE UNCHANGED vars
  BY <1>4 DEF vars, TypeOK
<1> QED BY <1>1, <1>2, <1>3, <1>4, StepType, FaultType DEF Next

(* Every variable keeps its type, whatever is posted and whatever fails.   *)
THEOREM TypeCorrect == Spec => []TypeOK
BY TypeInit, TypeStep, PTL DEF Spec

-----------------------------------------------------------------------------
(* Nothing is acknowledged before it is in the queue.  The invariant that  *)
(* is inductive says so of every request that is past its send, and that a *)
(* request past its build works on a message.                              *)

HonestRequest(h) ==
  /\ handler[h].pc \in {"check", "send", "mark", "confirm"} => handler[h].ev \in Messages
  /\ handler[h].pc \in {"mark", "confirm"} => copies[handler[h].ev] > 0
  /\ handler[h].status \in {200, 204} =>
       \/ handler[h].ev \in Foreign
       \/ handler[h].ev \in Messages /\ copies[handler[h].ev] > 0

HonestRecords ==
  /\ \A e \in marked : e \in Messages /\ copies[e] > 0
  /\ \A e \in acked \cap Messages : copies[e] > 0

Honest == (\A h \in Handlers : HonestRequest(h)) /\ HonestRecords

(* Rows are only ever added, so what is true of the requests that stand    *)
(* still and of the records stays true.                                    *)
CopiesGrow == \A e \in Events : copies'[e] >= copies[e]

LEMMA OthersHonest ==
  ASSUME TypeOK, TypeOK', Honest, CopiesGrow, NEW g \in Handlers,
         handler'[g] = handler[g]
  PROVE  HonestRequest(g)'
<1>1. CASE handler[g] = Idle
  BY <1>1 DEF HonestRequest, Idle
<1>2. CASE handler[g].ev \in Events
  <2>1. copies[handler[g].ev] > 0 => copies'[handler[g].ev] > 0
    BY <1>2 DEF CopiesGrow, TypeOK
  <2> QED BY <2>1 DEF Honest, HonestRequest
<1> QED BY <1>1, <1>2 DEF TypeOK, Handler

LEMMA RecordsHonest ==
  ASSUME TypeOK, TypeOK', Honest, CopiesGrow, UNCHANGED <<marked, acked>>
  PROVE  HonestRecords'
<1>1. \A e \in Events : copies[e] > 0 => copies'[e] > 0
  BY DEF CopiesGrow, TypeOK
<1>2. marked' = marked /\ acked' = acked /\ Messages \subseteq Events
  BY DEF Messages
<1> QED BY <1>1, <1>2 DEF Honest, HonestRecords

LEMMA StepsGrow ==
  ASSUME TypeOK, NEW h \in Handlers, HandlerStep(h) \/ FaultStep(h)
  PROVE  CopiesGrow
<1>1. CASE Send(h) \/ SendFault(h)
  <2>1. handler[h].ev \in Events
    BY <1>1, BusyHandler DEF Send, SendFault, At
  <2> QED BY <1>1, <2>1, CopyType DEF Send, SendFault, CopiesGrow, TypeOK
<1>2. CASE UNCHANGED copies
  BY <1>2 DEF CopiesGrow, TypeOK
<1> QED BY <1>1, <1>2 DEF HandlerStep, FaultStep, Build, Check, Mark, Confirm, Hear,
                          BuildFault, CheckFault, MarkFault, ConfirmFault, LoseAnswer

(* Where a request goes, step by step, and with which event and answer.    *)
Goes(h, pc) == handler'[h] = [pc |-> pc, ev |-> handler[h].ev, status |-> 0]
Answers(h, statuses) ==
  \E status \in statuses :
    handler'[h] = [pc |-> "answer", ev |-> handler[h].ev, status |-> status]

LEMMA StepGoes ==
  ASSUME TypeOK, NEW h \in Handlers
  PROVE  /\ Build(h) => \/ handler[h].ev \in Messages /\ Goes(h, "check")
                        \/ handler[h].ev \in Foreign /\ Answers(h, {204})
                        \/ Answers(h, {404})
         /\ Check(h) => \/ handler[h].ev \in marked /\ Answers(h, {200})
                        \/ handler[h].ev \notin marked /\ Goes(h, "send")
         /\ Send(h) => Goes(h, "mark")
         /\ Mark(h) => Goes(h, "confirm") \/ Answers(h, {204})
         /\ Confirm(h) => Answers(h, {204})
         /\ Hear(h) \/ LoseAnswer(h) => handler'[h] = Idle
<1>1. \A pc \in {"check", "send", "mark", "confirm"} :
        GoTo(h, pc) /\ handler[h].pc \notin {"idle", "answer"} => Goes(h, pc)
  BY GoToType DEF Goes
<1>2. \A status \in Statuses :
        Respond(h, status) /\ handler[h].pc # "idle" => Answers(h, {status})
  BY RespondType DEF Answers
<1>3. ASSUME Build(h)
      PROVE  \/ handler[h].ev \in Messages /\ Goes(h, "check")
             \/ handler[h].ev \in Foreign /\ Answers(h, {204})
             \/ Answers(h, {404})
  BY <1>1, <1>2, <1>3 DEF Build, At, Statuses
<1>4. ASSUME Check(h)
      PROVE  \/ handler[h].ev \in marked /\ Answers(h, {200})
             \/ handler[h].ev \notin marked /\ Goes(h, "send")
  BY <1>1, <1>2, <1>4 DEF Check, At, Statuses
<1>5. Send(h) => Goes(h, "mark")
  BY <1>1 DEF Send, At
<1>6. Mark(h) => Goes(h, "confirm") \/ Answers(h, {204})
  BY <1>1, <1>2 DEF Mark, Finish, At, Statuses
<1>7. Confirm(h) => Answers(h, {204})
  BY <1>2 DEF Confirm, At, Statuses
<1>8. Hear(h) \/ LoseAnswer(h) => handler'[h] = Idle
  BY DEF Hear, LoseAnswer, At, TypeOK
<1> QED BY <1>3, <1>4, <1>5, <1>6, <1>7, <1>8

(* When the request that moved is honest where it has come to.             *)
LEMMA GoesHonest ==
  ASSUME NEW h, NEW pc \in {"check", "send", "mark", "confirm"}, Goes(h, pc),
         handler[h].ev \in Messages,
         pc \in {"mark", "confirm"} => copies'[handler[h].ev] > 0
  PROVE  HonestRequest(h)'
BY DEF Goes, HonestRequest

LEMMA AnswersHonest ==
  ASSUME NEW h, NEW statuses, Answers(h, statuses),
         statuses \cap {200, 204} # {} =>
           \/ handler[h].ev \in Foreign
           \/ handler[h].ev \in Messages /\ copies'[handler[h].ev] > 0
  PROVE  HonestRequest(h)'
<1>1. PICK status \in statuses :
        handler'[h] = [pc |-> "answer", ev |-> handler[h].ev, status |-> status]
  BY DEF Answers
<1> QED BY <1>1 DEF HonestRequest

LEMMA FaultGoes ==
  ASSUME TypeOK, NEW h \in Handlers, FaultStep(h)
  PROVE  /\ handler[h].pc # "idle"
         /\ Answers(h, {500, 503}) \/ handler'[h] = Idle
<1>1. Fail(h) /\ handler[h].pc # "idle" => Answers(h, {500, 503})
  BY FailType DEF Answers
<1> QED BY <1>1 DEF FaultStep, BuildFault, CheckFault, SendFault, MarkFault, ConfirmFault,
                    LoseAnswer, At, TypeOK

LEMMA HonestInit == Init => Honest
BY DEF Init, Honest, HonestRequest, HonestRecords, Idle

LEMMA HonestStep == TypeOK /\ Honest /\ [Next]_vars => Honest'
<1> SUFFICES ASSUME TypeOK, Honest, [Next]_vars PROVE Honest'
  OBVIOUS
<1>0. TypeOK'
  BY TypeStep
<1>1. ASSUME NEW h \in Handlers, HandlerStep(h) PROVE Honest'
  <2>1. CopiesGrow /\ Others(h)
    BY <1>1, StepsGrow, OthersStay
  <2>2. \A g \in Handlers \ {h} : HonestRequest(g)'
    BY <1>0, <2>1, OthersHonest DEF Others
  <2>3. HonestRequest(h) /\ (handler[h].pc # "idle" => handler[h].ev \in Events)
    BY BusyHandler DEF Honest
  <2>4. CASE Build(h)
    <3>1. HonestRequest(h)'
      BY <2>4, StepGoes, GoesHonest, AnswersHonest
    <3> QED BY <1>0, <2>1, <2>2, <2>4, <3>1, RecordsHonest DEF Build, Honest
  <2>5. CASE Check(h)
    <3>1. handler[h].ev \in Messages /\ (handler[h].ev \in marked => copies'[handler[h].ev] > 0)
      BY <2>3, <2>5 DEF Check, At, HonestRequest, Honest, HonestRecords
    <3>2. HonestRequest(h)'
      BY <2>5, <3>1, StepGoes, GoesHonest, AnswersHonest
    <3> QED BY <1>0, <2>1, <2>2, <2>5, <3>2, RecordsHonest DEF Check, Honest
  <2>6. CASE Send(h)
    <3>1. handler[h].ev \in Messages /\ copies'[handler[h].ev] > 0
      BY <2>3, <2>6, CopyType DEF Send, At, HonestRequest, TypeOK
    <3>2. HonestRequest(h)'
      BY <2>6, <3>1, StepGoes, GoesHonest
    <3> QED BY <1>0, <2>1, <2>2, <2>6, <3>2, RecordsHonest DEF Send, Honest
  <2>7. CASE Mark(h)
    <3>1. handler[h].ev \in Messages /\ copies'[handler[h].ev] > 0
      BY <2>3, <2>7 DEF Mark, At, HonestRequest
    <3>2. HonestRequest(h)'
      BY <2>7, <3>1, StepGoes, GoesHonest, AnswersHonest
    <3>3. HonestRecords'
      BY <2>3, <2>7 DEF Mark, At, Honest, HonestRecords, HonestRequest
    <3> QED BY <2>2, <3>2, <3>3 DEF Honest
  <2>8. CASE Confirm(h)
    <3>1. handler[h].ev \in Messages /\ copies'[handler[h].ev] > 0
      BY <2>3, <2>8 DEF Confirm, At, HonestRequest
    <3>2. HonestRequest(h)'
      BY <2>8, <3>1, StepGoes, AnswersHonest
    <3> QED BY <1>0, <2>1, <2>2, <2>8, <3>2, RecordsHonest DEF Confirm, Honest
  <2>9. CASE Hear(h)
    <3>1. HonestRequest(h)'
      BY <2>9, StepGoes DEF HonestRequest, Idle
    <3>2. HonestRecords'
      BY <2>3, <2>9 DEF Hear, Honest, HonestRecords, HonestRequest, Messages
    <3> QED BY <2>2, <3>1, <3>2 DEF Honest
  <2> QED BY <1>1, <2>4, <2>5, <2>6, <2>7, <2>8, <2>9 DEF HandlerStep
<1>2. ASSUME NEW h \in Handlers, FaultStep(h) PROVE Honest'
  <2>1. CopiesGrow /\ Others(h)
    BY <1>2, StepsGrow, OthersStay
  <2>2. \A g \in Handlers \ {h} : HonestRequest(g)'
    BY <1>0, <2>1, OthersHonest DEF Others
  <2>3. HonestRequest(h)'
    <3>1. CASE Answers(h, {500, 503})
      BY <3>1, AnswersHonest
    <3>2. CASE handler'[h] = Idle
      BY <3>2 DEF HonestRequest, Idle
    <3> QED BY <1>2, <3>1, <3>2, FaultGoes
  <2>4. HonestRecords'
    <3>1. CASE MarkFault(h)
      <4>1. HonestRequest(h)
        BY DEF Honest
      <4> QED BY <3>1, <4>1 DEF MarkFault, At, Honest, HonestRecords, HonestRequest
    <3>2. CASE UNCHANGED <<marked, acked>>
      BY <1>0, <2>1, <3>2, RecordsHonest
    <3> QED BY <1>2, <3>1, <3>2 DEF FaultStep, BuildFault, CheckFault, SendFault,
                                   ConfirmFault, LoseAnswer
  <2> QED BY <2>2, <2>3, <2>4 DEF Honest
<1>3. ASSUME NEW e \in Events, Happen(e) PROVE Honest'
  BY <1>3 DEF Happen, Honest, HonestRequest, HonestRecords
<1>4. ASSUME NEW e \in Events, Post(e) PROVE Honest'
  <2>1. \A g \in Handlers : HonestRequest(g)'
    BY <1>4 DEF Post, Honest, HonestRequest, TypeOK
  <2> QED BY <1>4, <2>1 DEF Post, Honest, HonestRecords
<1>5. CASE Crash
  <2>1. \A g \in Handlers : HonestRequest(g)'
    BY <1>5 DEF Crash, Honest, HonestRequest, Idle
  <2> QED BY <1>5, <2>1 DEF Crash, Honest, HonestRecords
<1>6. CASE UNCHANGED vars
  BY <1>6 DEF vars, Honest, HonestRequest, HonestRecords
<1> QED BY <1>1, <1>2, <1>3, <1>4, <1>5, <1>6 DEF Next

LEMMA HonestIsAcknowledged == TypeOK /\ Honest => AcknowledgedIsQueued
<1>1. ASSUME Honest, NEW e \in Messages, e \in Answered  PROVE copies[e] > 0
  <2>1. PICK h \in Handlers : handler[h].status \in {200, 204} /\ e = handler[h].ev
    BY <1>1 DEF Answered
  <2>2. e \notin Foreign
    BY DEF Messages
  <2> QED BY <1>1, <2>1, <2>2 DEF Honest, HonestRequest
<1> QED BY <1>1 DEF Honest, HonestRecords, AcknowledgedIsQueued

(* A message is in the queue before its key is marked, before a request    *)
(* answers 2xx and before its source stops posting it: for any number of   *)
(* overlapping requests, errors, lost answers and crashes.                 *)
THEOREM NothingLost == Spec => []AcknowledgedIsQueued
BY TypeInit, TypeStep, HonestInit, HonestStep, HonestIsAcknowledged, PTL DEF Spec

-----------------------------------------------------------------------------
(* Every row beyond the first is explained.  While the key of an event is  *)
(* not marked, each of its rows belongs to a request that is about to mark *)
(* it or was lost to a fault; once it is marked, only the requests that    *)
(* had looked it up before can still add rows.                             *)

Doing(pc, e) == {h \in Handlers : handler[h].pc = pc /\ handler[h].ev = e}
Count(pc, e) == Cardinality(Doing(pc, e))
Excuses == Cardinality(Handlers) * Spent("crash") + Spent("db")

CopyBound(e) ==
  IF e \in marked
  THEN copies[e] + Count("send", e) <= Cardinality(Handlers) + Excuses
  ELSE copies[e] <= Count("mark", e) + Excuses
Explained == \A e \in Events : CopyBound(e) /\ (e \notin Messages => copies[e] = 0)

LEMMA CountType ==
  /\ Cardinality(Handlers) \in Nat
  /\ \A e, pc : /\ IsFiniteSet(Doing(pc, e)) /\ Count(pc, e) \in Nat
                /\ Count(pc, e) <= Cardinality(Handlers)
<1>1. IsFiniteSet(Handlers) /\ Cardinality(Handlers) \in Nat
  BY WebhookIngestAssumption, FS_CardinalityType
<1>2. ASSUME NEW e, NEW pc
      PROVE  /\ IsFiniteSet(Doing(pc, e)) /\ Count(pc, e) \in Nat
             /\ Count(pc, e) <= Cardinality(Handlers)
  <2>1. Doing(pc, e) \in SUBSET Handlers
    BY DEF Doing
  <2> QED BY <1>1, <2>1, FS_Subset, FS_CardinalityType DEF Count
<1> QED BY <1>1, <1>2

(* No request both sends and marks.                                        *)
LEMMA CountsFit ==
  ASSUME NEW e PROVE Count("mark", e) + Count("send", e) <= Cardinality(Handlers)
<1> DEFINE M == Doing("mark", e)
           S == Doing("send", e)
<1>1. M \cap S = {} /\ M \cup S \in SUBSET Handlers
  BY DEF Doing
<1>2. IsFiniteSet(M) /\ IsFiniteSet(S) /\ IsFiniteSet(Handlers)
  BY CountType, WebhookIngestAssumption
<1>3. Cardinality(M \cup S) = Cardinality(M) + Cardinality(S) - Cardinality(M \cap S)
  BY <1>2, FS_Union
<1>4. Cardinality(M \cap S) = 0
  BY <1>1, FS_EmptySet
<1>5. Cardinality(M \cup S) <= Cardinality(Handlers)
  BY <1>1, <1>2, FS_Subset
<1> QED BY <1>3, <1>4, <1>5, CountType DEF Count

(* One request that moves changes a count by one at most.                  *)
LEMMA CountMoves ==
  ASSUME TypeOK, TypeOK', NEW h \in Handlers, Others(h), NEW e, NEW pc
  PROVE  Count(pc, e)' = Count(pc, e)
           + (IF handler'[h].pc = pc /\ handler'[h].ev = e THEN 1 ELSE 0)
           - (IF handler[h].pc = pc /\ handler[h].ev = e THEN 1 ELSE 0)
<1> DEFINE D == Doing(pc, e)
<1>1. IsFiniteSet(D) /\ Cardinality(D) \in Nat
  BY CountType DEF Count
<1>2. Doing(pc, e)' = IF handler'[h].pc = pc /\ handler'[h].ev = e THEN D \cup {h} ELSE D \ {h}
  BY DEF Doing, Others
<1>3. h \in D <=> handler[h].pc = pc /\ handler[h].ev = e
  BY DEF Doing
<1>4. /\ Cardinality(D \cup {h}) = IF h \in D THEN Cardinality(D) ELSE Cardinality(D) + 1
      /\ Cardinality(D \ {h}) = IF h \in D THEN Cardinality(D) - 1 ELSE Cardinality(D)
  BY <1>1, FS_AddElement, FS_RemoveElement
<1>5. Count(pc, e)' = Cardinality(Doing(pc, e)') /\ Count(pc, e) = Cardinality(D)
  BY DEF Count
<1> QED BY <1>1, <1>2, <1>3, <1>4, <1>5

(* Faults are only ever spent.                                             *)
LEMMA ExcusesType == ASSUME TypeOK PROVE Excuses \in Int /\ \A f \in Faults : Spent(f) \in Int
<1>1. \A f \in Faults : Spent(f) \in Int
  BY WebhookIngestAssumption DEF Spent, TypeOK
<1> QED BY <1>1, CountType DEF Excuses, Faults

LEMMA ExcusesGrow ==
  ASSUME TypeOK, TypeOK', NEW f \in Faults, Spend(f)
  PROVE  /\ f = "db" => Excuses' = Excuses + 1
         /\ f = "crash" => Excuses' = Excuses + Cardinality(Handlers)
         /\ f \in {"call", "answer"} => Excuses' = Excuses
<1> DEFINE n == Cardinality(Handlers)
<1>1. n \in Nat /\ \A g \in Faults : Spent(g) \in Int
  BY CountType, ExcusesType
<1>2. \A g \in Faults : Spent(g)' = IF g = f THEN Spent(g) + 1 ELSE Spent(g)
  <2> SUFFICES ASSUME NEW g \in Faults
               PROVE  Spent(g)' = IF g = f THEN Spent(g) + 1 ELSE Spent(g)
    OBVIOUS
  <2>1. budget'[g] = IF g = f THEN budget[g] - 1 ELSE budget[g]
    BY DEF Spend, TypeOK
  <2>2. Budget[g] \in Nat /\ budget[g] \in Nat
    BY WebhookIngestAssumption DEF TypeOK
  <2> QED BY <2>1, <2>2 DEF Spent
<1>3. Excuses = n * Spent("crash") + Spent("db")
  BY DEF Excuses
<1>4. Excuses' = n * Spent("crash")' + Spent("db")'
  BY DEF Excuses
<1>5. \A a, k \in Int : k * (a + 1) = k * a + k
  OBVIOUS
<1> QED BY <1>1, <1>2, <1>3, <1>4, <1>5 DEF Faults

LEMMA ExplainedInit == Init => Explained
<1> SUFFICES ASSUME Init, NEW e \in Events PROVE CopyBound(e) /\ copies[e] = 0
  BY DEF Explained
<1>1. copies[e] = 0 /\ e \notin marked /\ TypeOK /\ budget = Budget
  BY TypeInit DEF Init
<1>2. Spent("crash") = 0 /\ Spent("db") = 0
  BY <1>1, WebhookIngestAssumption DEF Spent, Faults
<1>3. Excuses = 0
  BY <1>2, CountType DEF Excuses
<1> QED BY <1>1, <1>3, CountType DEF CopyBound

(* The counts that no move of this step concerns.                          *)
LEMMA CountsStay ==
  ASSUME TypeOK, TypeOK', NEW h \in Handlers, Others(h), NEW e, NEW pc,
         handler[h].pc # pc, handler'[h].pc # pc
  PROVE  Count(pc, e)' = Count(pc, e)
BY CountMoves, CountType

(* A step that neither sends nor marks leaves the bound as it was, and a    *)
(* fault more only widens it.                                              *)
LEMMA BoundKept ==
  ASSUME TypeOK, TypeOK', NEW e \in Events, CopyBound(e), UNCHANGED <<copies, marked>>,
         Count("mark", e)' = Count("mark", e), Count("send", e)' <= Count("send", e),
         Count("send", e)' \in Int, Excuses' \in Int, Excuses' >= Excuses
  PROVE  CopyBound(e)'
<1>1. /\ copies[e] \in Nat /\ Count("mark", e) \in Nat /\ Count("send", e) \in Nat
      /\ Cardinality(Handlers) \in Nat /\ Excuses \in Int
  BY CountType, ExcusesType DEF TypeOK
<1>2. CASE e \in marked
  <2>1. copies[e] + Count("send", e) <= Cardinality(Handlers) + Excuses
    BY <1>2 DEF CopyBound
  <2>2. copies[e] + Count("send", e)' <= Cardinality(Handlers) + Excuses'
    BY <1>1, <2>1
  <2> QED BY <1>2, <2>2 DEF CopyBound
<1>3. CASE e \notin marked
  <2>1. copies[e] <= Count("mark", e) + Excuses
    BY <1>3 DEF CopyBound
  <2>2. copies[e] <= Count("mark", e)' + Excuses'
    BY <1>1, <2>1
  <2> QED BY <1>3, <2>2 DEF CopyBound
<1> QED BY <1>2, <1>3

LEMMA Arrives ==
  ASSUME NEW h
  PROVE  /\ \A pc : Goes(h, pc) => handler'[h].pc = pc /\ handler'[h].ev = handler[h].ev
         /\ \A statuses : Answers(h, statuses) => handler'[h].pc = "answer"
         /\ handler'[h] = Idle => handler'[h].pc = "idle"
<1>1. \A pc : Goes(h, pc) => handler'[h].pc = pc /\ handler'[h].ev = handler[h].ev
  BY DEF Goes
<1>2. ASSUME NEW statuses, Answers(h, statuses) PROVE handler'[h].pc = "answer"
  <2>1. PICK status \in statuses :
          handler'[h] = [pc |-> "answer", ev |-> handler[h].ev, status |-> status]
    BY <1>2 DEF Answers
  <2> QED BY <2>1
<1>3. handler'[h] = Idle => handler'[h].pc = "idle"
  BY DEF Idle
<1> QED BY <1>1, <1>2, <1>3

LEMMA StepBound ==
  ASSUME TypeOK, TypeOK', NEW h \in Handlers, HandlerStep(h), NEW e \in Events, CopyBound(e)
  PROVE  CopyBound(e)'
<1> DEFINE d == handler[h].ev
<1>1. Others(h) /\ UNCHANGED budget
  BY OthersStay DEF HandlerStep, Build, Check, Send, Mark, Confirm, Hear
<1>2. Excuses' = Excuses /\ Excuses \in Int
  BY <1>1, ExcusesType DEF Excuses, Spent
<1>3. /\ copies[e] \in Nat /\ Count("mark", e) \in Nat /\ Count("send", e) \in Nat
      /\ Cardinality(Handlers) \in Nat
      /\ Count("mark", e) + Count("send", e) <= Cardinality(Handlers)
  BY CountType, CountsFit DEF TypeOK
<1>4. CASE Build(h) \/ Confirm(h) \/ Hear(h)
  <2>1. handler[h].pc \notin {"mark", "send"} /\ handler'[h].pc \notin {"mark", "send"}
    <3>1. handler[h].pc \in {"build", "confirm", "answer"}
      BY <1>4 DEF Build, Confirm, Hear, At
    <3>2. \/ Goes(h, "check") \/ Answers(h, {204}) \/ Answers(h, {404})
          \/ handler'[h] = Idle
      BY <1>4, StepGoes
    <3>3. handler'[h].pc \in {"check", "answer", "idle"}
      BY <3>2, Arrives
    <3> QED BY <3>1, <3>3
  <2>2. Count("mark", e)' = Count("mark", e) /\ Count("send", e)' = Count("send", e)
    BY <1>1, <2>1, CountsStay
  <2> QED BY <1>2, <1>3, <1>4, <2>2, BoundKept DEF Build, Confirm, Hear
<1>5. CASE Check(h)
  <2>1. handler[h].pc = "check" /\ UNCHANGED <<copies, marked>>
    BY <1>5 DEF Check, At
  <2>2. CASE d \in marked /\ Answers(h, {200})
    <3>1. handler'[h].pc = "answer"
      BY <2>2 DEF Answers
    <3>2. Count("mark", e)' = Count("mark", e) /\ Count("send", e)' = Count("send", e)
      BY <1>1, <2>1, <3>1, CountsStay
    <3> QED BY <1>2, <1>3, <2>1, <3>2, BoundKept
  <2>3. CASE d \notin marked /\ Goes(h, "send")
    <3>1. handler'[h].pc = "send" /\ handler'[h].ev = d
      BY <2>3 DEF Goes
    <3>2. Count("mark", e)' = Count("mark", e)
      BY <1>1, <2>1, <3>1, CountsStay
    <3>3. CASE e = d
      BY <1>2, <2>1, <2>3, <3>2, <3>3 DEF CopyBound
    <3>4. CASE e # d
      <4>1. Count("send", e)' = Count("send", e)
        BY <1>1, <1>3, <2>1, <3>1, <3>4, CountMoves
      <4> QED BY <1>2, <1>3, <2>1, <3>2, <4>1, BoundKept
    <3> QED BY <3>3, <3>4
  <2> QED BY <1>5, <2>2, <2>3, StepGoes
<1>6. CASE Send(h)
  <2>1. /\ handler[h].pc = "send" /\ d \in Events /\ UNCHANGED marked
        /\ handler'[h].pc = "mark" /\ handler'[h].ev = d
    <3>1. handler[h].pc = "send" /\ UNCHANGED marked /\ Goes(h, "mark")
      BY <1>6, StepGoes DEF Send, At
    <3> QED BY <3>1, Arrives, BusyHandler
  <2>2. copies'[e] = copies[e] + (IF e = d THEN 1 ELSE 0)
    BY <1>3, <1>6, <2>1, CopyType DEF Send
  <2>3. /\ Count("mark", e)' = Count("mark", e) + (IF e = d THEN 1 ELSE 0)
        /\ Count("send", e)' = Count("send", e) - (IF e = d THEN 1 ELSE 0)
    BY <1>1, <1>3, <2>1, CountMoves
  <2> QED BY <1>2, <1>3, <2>1, <2>2, <2>3 DEF CopyBound
<1>7. CASE Mark(h)
  <2>1. /\ handler[h].pc = "mark" /\ marked' = marked \cup {d} /\ UNCHANGED copies
        /\ handler'[h].pc \notin {"mark", "send"}
    <3>1. handler[h].pc = "mark" /\ marked' = marked \cup {d} /\ UNCHANGED copies
      BY <1>7 DEF Mark, At
    <3>2. Goes(h, "confirm") \/ Answers(h, {204})
      BY <1>7, StepGoes
    <3>3. handler'[h].pc \in {"confirm", "answer"}
      BY <3>2, Arrives
    <3> QED BY <3>1, <3>3
  <2>2. Count("send", e)' = Count("send", e)
    BY <1>1, <2>1, CountsStay
  <2>3. CASE e = d
    BY <1>2, <1>3, <2>1, <2>2, <2>3 DEF CopyBound
  <2>4. CASE e # d
    <3>1. Count("mark", e)' = Count("mark", e)
      BY <1>1, <1>3, <2>1, <2>4, CountMoves
    <3> QED BY <1>2, <2>1, <2>2, <2>4, <3>1 DEF CopyBound
  <2> QED BY <2>3, <2>4
<1> QED BY <1>4, <1>5, <1>6, <1>7 DEF HandlerStep

LEMMA FaultBound ==
  ASSUME TypeOK, TypeOK', NEW h \in Handlers, FaultStep(h), NEW e \in Events, CopyBound(e)
  PROVE  CopyBound(e)'
<1> DEFINE d == handler[h].ev
<1>1. Others(h) /\ handler'[h].pc \in {"answer", "idle"}
  <2>1. Answers(h, {500, 503}) \/ handler'[h] = Idle
    BY FaultGoes
  <2> QED BY <2>1, OthersStay, Arrives
<1>2. Excuses \in Int
  BY ExcusesType
<1>3. /\ copies[e] \in Nat /\ Count("mark", e) \in Nat /\ Count("send", e) \in Nat
      /\ Cardinality(Handlers) \in Nat /\ copies'[e] \in Nat
      /\ Count("mark", e) + Count("send", e) <= Cardinality(Handlers)
  BY CountType, CountsFit DEF TypeOK
<1>4. CASE BuildFault(h) \/ CheckFault(h) \/ ConfirmFault(h) \/ LoseAnswer(h)
  <2>1. handler[h].pc \notin {"mark", "send"} /\ UNCHANGED <<copies, marked>>
    BY <1>4 DEF BuildFault, CheckFault, ConfirmFault, LoseAnswer, At
  <2>2. Count("mark", e)' = Count("mark", e) /\ Count("send", e)' = Count("send", e)
    BY <1>1, <2>1, CountsStay
  <2>3. \E f \in Faults \ {"crash"} : Spend(f)
    BY <1>4 DEF BuildFault, CheckFault, ConfirmFault, LoseAnswer, Faults
  <2>4. Excuses' \in Int /\ Excuses' >= Excuses
    BY <1>2, <2>3, ExcusesGrow DEF Faults
  <2> QED BY <1>3, <2>1, <2>2, <2>4, BoundKept
<1>5. CASE SendFault(h)
  <2>1. /\ handler[h].pc = "send" /\ UNCHANGED marked
        /\ copies'[e] <= copies[e] + (IF e = d THEN 1 ELSE 0)
    BY <1>3, <1>5, BusyHandler, CopyType DEF SendFault, At
  <2>2. Excuses' = Excuses + 1
    BY <1>5, ExcusesGrow DEF SendFault, Faults
  <2>3. Count("mark", e)' = Count("mark", e)
    BY <1>1, <2>1, CountsStay
  <2>4. Count("send", e)' = Count("send", e) - (IF e = d THEN 1 ELSE 0)
    BY <1>1, <1>3, <2>1, CountMoves
  <2> QED BY <1>2, <1>3, <2>1, <2>2, <2>3, <2>4 DEF CopyBound
<1>6. CASE MarkFault(h)
  <2>1. /\ handler[h].pc = "mark" /\ UNCHANGED copies
        /\ marked' = marked \cup {d} \/ marked' = marked
    BY <1>6 DEF MarkFault, At
  <2>2. Excuses' = Excuses + 1
    BY <1>6, ExcusesGrow DEF MarkFault, Faults
  <2>3. Count("send", e)' = Count("send", e)
    BY <1>1, <2>1, CountsStay
  <2>4. Count("mark", e)' = Count("mark", e) - (IF e = d THEN 1 ELSE 0)
    BY <1>1, <1>3, <2>1, CountMoves
  <2> QED BY <1>2, <1>3, <2>1, <2>2, <2>3, <2>4 DEF CopyBound
<1> QED BY <1>4, <1>5, <1>6 DEF FaultStep

(* A crash may lose every mark that was about to happen, one per request.   *)
LEMMA CrashBound ==
  ASSUME TypeOK, TypeOK', Crash, NEW e \in Events, CopyBound(e)
  PROVE  CopyBound(e)'
<1>1. \A pc : IsFiniteSet(Doing(pc, e)) /\ Count(pc, e) \in Nat
  BY CountType
<1>2. Doing("send", e)' \in SUBSET Doing("send", e) /\ Doing("mark", e)' \in SUBSET Doing("mark", e)
  BY DEF Crash, Doing, Idle
<1>3. /\ Count("send", e)' \in Nat /\ Count("send", e)' <= Count("send", e)
      /\ Count("mark", e)' \in Nat
  BY <1>1, <1>2, FS_Subset, FS_CardinalityType DEF Count
<1>4. /\ Count("mark", e) <= Cardinality(Handlers) /\ Cardinality(Handlers) \in Nat
      /\ copies[e] \in Nat /\ Excuses \in Int
  BY CountType, ExcusesType DEF TypeOK
<1>5. Excuses' = Excuses + Cardinality(Handlers)
  BY ExcusesGrow DEF Crash, Faults
<1> QED BY <1>1, <1>3, <1>4, <1>5 DEF Crash, CopyBound

(* What is no message is never sent.                                       *)
LEMMA ForeignStay ==
  ASSUME TypeOK, Honest, Next, NEW e \in Events \ Messages, copies[e] = 0
  PROVE  copies'[e] = 0
<1>1. ASSUME NEW h \in Handlers, Send(h) \/ SendFault(h) PROVE copies'[e] = 0
  <2>1. handler[h].ev \in Messages /\ handler[h].ev \in Events
    BY <1>1, BusyHandler DEF Send, SendFault, At, Honest, HonestRequest
  <2> QED BY <1>1, <2>1, CopyType DEF Send, SendFault
<1>2. CASE UNCHANGED copies
  BY <1>2
<1> QED BY <1>1, <1>2 DEF Next, HandlerStep, FaultStep, Happen, Post, Build, Check, Mark, Confirm,
                          Hear, BuildFault, CheckFault, MarkFault, ConfirmFault, LoseAnswer, Crash

LEMMA ExplainedStep == TypeOK /\ Honest /\ Explained /\ [Next]_vars => Explained'
<1> SUFFICES ASSUME TypeOK, Honest, Explained, [Next]_vars, NEW e \in Events
             PROVE  CopyBound(e)' /\ (e \notin Messages => copies'[e] = 0)
  BY DEF Explained, Messages
<1>0. TypeOK' /\ CopyBound(e) /\ (e \notin Messages => copies[e] = 0)
  BY TypeStep DEF Explained
<1>1. CASE \E h \in Handlers : HandlerStep(h) \/ FaultStep(h)
  BY <1>0, <1>1, StepBound, FaultBound, ForeignStay DEF Next
<1>2. CASE Crash
  BY <1>0, <1>2, CrashBound, ForeignStay DEF Next
<1>3. CASE \E d \in Events : Post(d)
  <2>1. PICK h \in Handlers : handler[h].pc = "idle" /\ handler'[h].pc = "build" /\ Others(h)
    BY <1>3 DEF Post, At, TypeOK, Others
  <2>2. /\ UNCHANGED <<copies, marked, budget>>
        /\ Count("mark", e)' = Count("mark", e) /\ Count("send", e)' = Count("send", e)
    BY <1>0, <1>3, <2>1, CountsStay DEF Post
  <2> QED BY <1>0, <2>2 DEF CopyBound, Excuses, Spent
<1>4. CASE UNCHANGED <<copies, marked, handler, budget>>
  BY <1>0, <1>4 DEF CopyBound, Excuses, Spent, Count, Doing
<1> QED BY <1>1, <1>2, <1>3, <1>4 DEF Next, Happen, vars

LEMMA ExplainedIsBounded == TypeOK /\ Explained => CopiesAreExplained
<1> SUFFICES ASSUME TypeOK, Explained, NEW e \in Events
             PROVE  copies[e] <= IF e \in Messages
                                 THEN Cardinality(Handlers) * (1 + Spent("crash")) + Spent("db")
                                 ELSE 0
  BY DEF CopiesAreExplained
<1> DEFINE n == Cardinality(Handlers)
<1>1. /\ n \in Nat /\ Spent("crash") \in Int /\ Spent("db") \in Int /\ copies[e] \in Nat
      /\ Count("mark", e) \in Nat /\ Count("send", e) \in Nat /\ Count("mark", e) <= n
  BY CountType, ExcusesType DEF Faults, TypeOK
<1>2. CopyBound(e) /\ (e \notin Messages => copies[e] = 0)
  BY DEF Explained
<1>3. copies[e] <= n + Excuses /\ Excuses \in Int
  BY <1>1, <1>2, ExcusesType DEF CopyBound
<1>4. \A a, k \in Int : k * (1 + a) = k + k * a
  OBVIOUS
<1>5. n * (1 + Spent("crash")) = n + n * Spent("crash")
  BY <1>1, <1>4
<1> HIDE DEF n
<1> QED BY <1>1, <1>2, <1>3, <1>5 DEF Excuses, n

(* There are never more rows of an event than requests at once, plus as     *)
(* many for each crash, plus one for each Postgres error; what is no        *)
(* message has none: whatever the interleaving, and however often the       *)
(* source posts.                                                           *)
THEOREM CopiesExplained == Spec => []CopiesAreExplained
BY TypeInit, TypeStep, HonestInit, HonestStep, ExplainedInit, ExplainedStep, ExplainedIsBounded,
   PTL DEF Spec

=============================================================================
