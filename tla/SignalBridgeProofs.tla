------------------------- MODULE SignalBridgeProofs -------------------------
(***************************************************************************)
(* Proofs about SignalBridge, for any number of calls and of lost          *)
(* connections: a future never outlives its call, and a result reaches     *)
(* another call only after one of the same session has given up.           *)
(***************************************************************************)
EXTENDS SignalBridge, SequenceTheorems, TLAPS

-----------------------------------------------------------------------------
(* What the seven actions on the callers' side and the connection do to    *)
(* the sequences.                                                          *)

LEMMA DiscardType ==
  ASSUME TypeOK, NEW s \in Sends, Discard(s)
  PROVE  /\ pending' \in Seq(Sends)
         /\ Len(pending') <= Len(pending)
         /\ Len(pending) <= 1 /\ (\A i \in 1..Len(pending) : pending[i] = s) => pending' = <<>>
<1> USE DEF TypeOK
<1> Len(pending) \in Nat
  BY LenProperties
<1>1. CASE UNCHANGED pending /\ \A i \in 1..Len(pending) : pending[i] # s
  <2>1. (\A i \in 1..Len(pending) : pending[i] = s) => Len(pending) = 0
    BY <1>1
  <2> QED BY <1>1, <2>1, EmptySeq
<1>2. ASSUME NEW i \in 1..Len(pending),
             pending' = SubSeq(pending, 1, i - 1) \o SubSeq(pending, i + 1, Len(pending))
      PROVE  /\ pending' \in Seq(Sends)
             /\ Len(pending') <= Len(pending)
             /\ Len(pending) <= 1 => pending' = <<>>
  <2> DEFINE a == SubSeq(pending, 1, i - 1)
             b == SubSeq(pending, i + 1, Len(pending))
  <2>1. \A j \in 1..Len(pending) : pending[j] \in Sends
    BY ElementOfSeq
  <2>2. a \in Seq(Sends) /\ Len(a) = i - 1
    BY <2>1, SubSeqProperties
  <2>3. b \in Seq(Sends) /\ Len(b) = Len(pending) - i
    BY <2>1, SubSeqProperties
  <2> HIDE DEF a, b
  <2>4. a \o b \in Seq(Sends) /\ Len(a \o b) = Len(a) + Len(b)
    BY <2>2, <2>3, ConcatProperties
  <2>5. Len(a \o b) = Len(pending) - 1
    BY <2>2, <2>3, <2>4
  <2>6. Len(pending) <= 1 => a \o b = <<>>
    BY <2>4, <2>5, EmptySeq
  <2>7. pending' = a \o b
    BY <1>2 DEF a, b
  <2> QED BY <2>4, <2>5, <2>6, <2>7
<1> QED BY <1>1, <1>2 DEF Discard

LEMMA PrefixType ==
  ASSUME TypeOK, NEW n \in 0..Len(commands), commands' = SubSeq(commands, 1, n)
  PROVE  /\ commands' \in Seq(Command) /\ Len(commands') = n
         /\ \A i \in 1..n : commands'[i] = commands[i]
<1>1. Len(commands) \in Nat /\ \A i \in 1..n : commands[i] \in Command
  BY LenProperties, ElementOfSeq DEF TypeOK
<1>2. /\ SubSeq(commands, 1, n) \in Seq(Command)
      /\ Len(SubSeq(commands, 1, n)) = IF 1 <= n THEN n - 1 + 1 ELSE 0
      /\ \A i \in 1 .. n - 1 + 1 : SubSeq(commands, 1, n)[i] = commands[1 + i - 1]
  BY <1>1, SubSeqProperties
<1> QED BY <1>1, <1>2

-----------------------------------------------------------------------------
(* Type correctness.                                                       *)

LEMMA AnswerType == TypeOK => Lost \notin Reply /\ NoAnswer \notin Reply
BY SignalBridgeAssumption DEF TypeOK, Lost, NoAnswer, Reply

LEMMA CallerType == ASSUME TypeOK, NEW s \in Sends, Caller(s) PROVE TypeOK'
<1> USE DEF TypeOK
<1>1. CASE Refuse(s)
  BY <1>1 DEF Refuse
<1>2. CASE Write(s)
  <2>1. pending' \in Seq(Sends)
    BY <1>2, AppendProperties DEF Write
  <2>2. commands' \in Seq(Command)
    BY <1>2, AppendProperties DEF Write, Command
  <2> QED BY <1>2, <2>1, <2>2 DEF Write
<1>3. CASE Drain(s)
  BY <1>3 DEF Drain
<1>4. CASE DrainFails(s) \/ TimeOut(s)
  <2>1. GiveUp(s)
    BY <1>4 DEF DrainFails, TimeOut
  <2>2. pending' \in Seq(Sends)
    BY <2>1, DiscardType DEF GiveUp
  <2> QED BY <2>1, <2>2 DEF GiveUp
<1>5. CASE Return(s)
  <2>1. answer[s].ok \in BOOLEAN
    <3>1. answer[s] \in Reply \/ answer[s] = NoAnswer \/ answer[s] = Lost
      OBVIOUS
    <3>2. answer[s] \in Reply => answer[s].ok \in BOOLEAN
      BY DEF Reply
    <3>3. NoAnswer.ok \in BOOLEAN /\ Lost.ok \in BOOLEAN
      BY DEF NoAnswer, Lost
    <3> QED BY <3>1, <3>2, <3>3
  <2>2. (CASE answer[s] = Lost -> "transient"
           [] answer[s] # Lost /\ answer[s].ok -> "ok"
           [] answer[s] # Lost /\ ~answer[s].ok -> "fatal") \in {"transient", "ok", "fatal"}
    BY <2>1, Zenon
  <2> QED BY <1>5, <2>2 DEF Return
<1> QED BY <1>1, <1>2, <1>3, <1>4, <1>5 DEF Caller, Resumed

LEMMA HangUpType ==
  ASSUME TypeOK, HangUp
  PROVE  /\ pending' = <<>> /\ pending' \in Seq(Sends)
         /\ answer' \in [Sends -> Reply \cup {NoAnswer, Lost}]
         /\ replies' = <<>> /\ replies' \in Seq(Reply)
         /\ commands' \in Seq(Command)
         /\ up' = FALSE /\ UNCHANGED <<state, opened, holder, session, accepted>>
<1>1. PICK n \in 0..Len(commands) : commands' = SubSeq(commands, 1, n)
  BY DEF HangUp
<1>2. commands' \in Seq(Command)
  BY <1>1, PrefixType
<1>3. answer' \in [Sends -> Reply \cup {NoAnswer, Lost}]
  BY DEF HangUp, FailPending, TypeOK
<1> QED BY <1>2, <1>3, EmptySeq DEF HangUp, FailPending

LEMMA TypeStep == TypeOK /\ [Next]_vars => TypeOK'
<1> SUFFICES ASSUME TypeOK, [Next]_vars PROVE TypeOK'
  OBVIOUS
<1>1. CASE UNCHANGED vars
  BY <1>1 DEF TypeOK, vars
<1>2. CASE \E s \in Sends : Caller(s)
  BY <1>2, CallerType
<1>3. CASE Connect
  BY <1>3, SignalBridgeAssumption DEF Connect, TypeOK, Sessions
<1>4. CASE ReadResult
  <2>1. replies' \in Seq(Reply) /\ Head(replies) \in Reply
    BY <1>4, HeadTailProperties DEF ReadResult, TypeOK
  <2>2. pending # <<>> => Tail(pending) \in Seq(Sends) /\ Head(pending) \in Sends
    BY HeadTailProperties DEF TypeOK
  <2>3. pending' \in Seq(Sends) /\ answer' \in [Sends -> Reply \cup {NoAnswer, Lost}]
    BY <1>4, <2>1, <2>2 DEF ReadResult, TypeOK
  <2> QED BY <1>4, <2>1, <2>3 DEF ReadResult, TypeOK
<1>5. CASE Drop \/ Close
  <2>1. HangUp /\ stopping' \in BOOLEAN
    BY <1>5 DEF Drop, Close, TypeOK
  <2> QED BY <2>1, HangUpType DEF TypeOK
<1>6. CASE Handle
  <2>1. commands' \in Seq(Command) /\ Head(commands) \in Command
    BY <1>6, HeadTailProperties DEF Handle, TypeOK
  <2>2. PICK ok \in BOOLEAN, sent \in BOOLEAN :
          /\ accepted' = IF sent THEN accepted \cup {Head(commands).of} ELSE accepted
          /\ replies' = IF up /\ Head(commands).session = session
                        THEN Append(replies, [of |-> Head(commands).of,
                                              session |-> session, ok |-> ok])
                        ELSE replies
    BY <1>6 DEF Handle
  <2>3. Head(commands).of \in Sends
    BY <2>1 DEF Command
  <2>4. [of |-> Head(commands).of, session |-> session, ok |-> ok] \in Reply
    BY <2>3 DEF Reply, TypeOK
  <2>5. replies' \in Seq(Reply)
    BY <2>2, <2>4, AppendProperties DEF TypeOK
  <2> QED BY <1>6, <2>1, <2>2, <2>3, <2>5 DEF Handle, TypeOK
<1> QED BY <1>1, <1>2, <1>3, <1>4, <1>5, <1>6 DEF Next

LEMMA TypeInit == Init => TypeOK
<1> SUFFICES ASSUME Init PROVE TypeOK
  OBVIOUS
<1>1. 0 \in Sessions /\ session \in Sessions
  BY SignalBridgeAssumption DEF Init, Sessions
<1>2. /\ state \in [Sends -> {"new", "writing", "awaiting", "ok", "fatal", "transient"}]
      /\ opened \in [Sends -> Sessions]
  BY <1>1 DEF Init
<1>3. answer \in [Sends -> Reply \cup {NoAnswer, Lost}]
  BY DEF Init
<1>4. pending \in Seq(Sends) /\ commands \in Seq(Command) /\ replies \in Seq(Reply)
  BY EmptySeq DEF Init
<1>5. up \in BOOLEAN /\ stopping \in BOOLEAN /\ accepted \subseteq Sends
      /\ holder \in Sends \cup {None}
  BY DEF Init
<1> QED BY <1>1, <1>2, <1>3, <1>4, <1>5 DEF TypeOK

(* Every variable keeps to its type (sig_bot_manager.py:62-215;            *)
(* main.rs:180-340).                                                       *)
THEOREM TypeCorrect == Spec => []TypeOK
BY TypeInit, TypeStep, PTL DEF Spec

-----------------------------------------------------------------------------
(* The lock and the futures.                                               *)

(* A future that is pending is unresolved, and so is that of a new call.   *)
Lock ==
  /\ PendingIsTheHolder
  /\ \A i \in 1..Len(pending) : Unresolved(pending[i])
  /\ \A s \in Sends : state[s] = "new" => Unresolved(s)

LEMMA EmptyQueue == TypeOK /\ PendingIsTheHolder /\ holder = None => pending = <<>>
<1> SUFFICES ASSUME TypeOK, PendingIsTheHolder, holder = None PROVE pending = <<>>
  OBVIOUS
<1>1. Len(pending) \in Nat /\ \A i \in 1..Len(pending) : pending[i] \in Sends
  BY LenProperties, ElementOfSeq DEF TypeOK
<1>2. Len(pending) = 0
  BY <1>1, SignalBridgeAssumption DEF PendingIsTheHolder
<1> QED BY <1>2, EmptySeq DEF TypeOK

LEMMA GiveUpEmpties ==
  ASSUME TypeOK, PendingIsTheHolder, NEW s \in Sends, InFlight(s), GiveUp(s)
  PROVE  pending' = <<>> /\ holder = s
<1>1. holder = s
  BY DEF PendingIsTheHolder
<1>2. Len(pending) <= 1 /\ \A i \in 1..Len(pending) : pending[i] = s
  BY <1>1 DEF PendingIsTheHolder
<1> QED BY <1>1, <1>2, DiscardType DEF GiveUp

LEMMA HangUpLock == ASSUME TypeOK, Lock, HangUp PROVE Lock'
<1>1. pending' = <<>> /\ UNCHANGED <<state, holder>>
  BY HangUpType
<1>2. \A s \in Sends : state[s] = "new" => answer'[s] = NoAnswer
  <2> TAKE s \in Sends
  <2> HAVE state[s] = "new"
  <2>1. \A i \in 1..Len(pending) : pending[i] # s
    BY DEF Lock, PendingIsTheHolder, InFlight
  <2> QED BY <2>1 DEF HangUp, FailPending, Lock, Unresolved, TypeOK
<1> QED BY <1>1, <1>2, EmptySeq DEF Lock, PendingIsTheHolder, InFlight, Unresolved

LEMMA ReadLock == ASSUME TypeOK, Lock, ReadResult PROVE Lock'
<1>1. CASE pending = <<>>
  BY <1>1 DEF ReadResult, Lock, PendingIsTheHolder, InFlight, Unresolved
<1>2. CASE pending # <<>>
  <2>1. /\ Len(pending) = 1 /\ pending[1] = holder /\ Head(pending) = pending[1]
        /\ pending[1] \in Sends
    <3>1. Len(pending) \in Nat \ {0} /\ \A i \in 1..Len(pending) : pending[i] \in Sends
      BY <1>2, EmptySeq, ElementOfSeq DEF TypeOK
    <3>2. Len(pending) = 1
      <4>1. Len(pending) <= 1
        BY DEF Lock, PendingIsTheHolder
      <4> QED BY <3>1, <4>1
    <3>3. pending[1] \in Sends /\ pending[1] = holder
      BY <3>1, <3>2, 1 \in 1..1 DEF Lock, PendingIsTheHolder
    <3>4. Head(pending) = pending[1]
      OBVIOUS
    <3> QED BY <3>2, <3>3, <3>4
  <2>2. Len(pending') = 0
    BY <1>2, <2>1, HeadTailProperties DEF ReadResult, TypeOK
  <2>3. state[holder] # "new"
    BY <2>1 DEF Lock, PendingIsTheHolder, InFlight
  <2>4. \A s \in Sends : s # holder => answer'[s] = answer[s]
    BY <1>2, <2>1 DEF ReadResult, TypeOK
  <2> QED BY <2>2, <2>3, <2>4 DEF ReadResult, Lock, PendingIsTheHolder, InFlight, Unresolved
<1> QED BY <1>1, <1>2

LEMMA CallerLock == ASSUME TypeOK, Lock, NEW s \in Sends, Caller(s) PROVE Lock'
<1> USE SignalBridgeAssumption DEF Lock, PendingIsTheHolder, InFlight, Unresolved
<1>1. CASE Refuse(s)
  BY <1>1 DEF Refuse, TypeOK
<1>2. CASE Write(s)
  <2>1. pending = <<>>
    BY <1>2, EmptyQueue DEF Write
  <2>2. Len(pending') = 1 /\ pending'[1] = s
    BY <1>2, <2>1 DEF Write
  <2>3. \A t \in Sends : holder' = t <=> InFlight(t)'
    BY <1>2 DEF Write, TypeOK
  <2>4. \A t \in Sends : state'[t] = "new" => state[t] = "new"
    BY <1>2 DEF Write, TypeOK
  <2>5. holder' = s /\ UNCHANGED answer /\ answer[s] = NoAnswer
    BY <1>2 DEF Write
  <2> QED BY <2>2, <2>3, <2>4, <2>5
<1>3. CASE Drain(s)
  BY <1>3 DEF Drain, TypeOK
<1>4. CASE DrainFails(s) \/ TimeOut(s)
  <2>1. GiveUp(s) /\ InFlight(s)
    BY <1>4 DEF DrainFails, TimeOut
  <2>2. pending' = <<>> /\ holder = s
    BY <2>1, GiveUpEmpties
  <2> QED BY <2>1, <2>2, EmptySeq DEF GiveUp, TypeOK
<1>5. CASE Return(s)
  <2>1. holder = s
    BY <1>5 DEF Return
  <2>2. Len(pending) \in Nat /\ \A i \in 1..Len(pending) : pending[i] # s
    BY <1>5, LenProperties DEF Return, TypeOK
  <2>3. Len(pending) = 0
    BY <2>1, <2>2
  <2>4. \A t \in Sends : state'[t] \notin {"writing", "awaiting"}
    BY <1>5, <2>1 DEF Return, TypeOK
  <2>5. holder' = None /\ UNCHANGED <<pending, answer>>
    BY <1>5 DEF Return
  <2>6. \A t \in Sends : state'[t] = "new" => state[t] = "new"
    BY <1>5 DEF Return, TypeOK
  <2> QED BY <2>3, <2>4, <2>5, <2>6
<1> QED BY <1>1, <1>2, <1>3, <1>4, <1>5 DEF Caller, Resumed

LEMMA LockStep == TypeOK /\ Lock /\ [Next]_vars => Lock'
<1> SUFFICES ASSUME TypeOK, Lock, [Next]_vars PROVE Lock'
  OBVIOUS
<1>1. CASE UNCHANGED vars
  BY <1>1 DEF vars, Lock, PendingIsTheHolder, InFlight, Unresolved
<1>2. CASE Connect \/ Handle
  BY <1>2 DEF Connect, Handle, Lock, PendingIsTheHolder, InFlight, Unresolved
<1>3. CASE Drop \/ Close
  BY <1>3, HangUpLock DEF Drop, Close
<1> QED BY <1>1, <1>2, <1>3, ReadLock, CallerLock DEF Next

LEMMA LockInit == Init => Lock
BY SignalBridgeAssumption, EmptySeq
   DEF Init, Lock, PendingIsTheHolder, InFlight, Unresolved

(* No call leaves its future behind for another's result, whenever waits   *)
(* time out and connections are lost (sig_bot_manager.py:96-127, 193-211). *)
THEOREM PendingAlwaysTheHolder == Spec => []PendingIsTheHolder
<1>1. Lock => PendingIsTheHolder
  BY DEF Lock
<1> QED BY <1>1, TypeInit, TypeStep, LockInit, LockStep, PTL DEF Spec

-----------------------------------------------------------------------------
(* Commands, results and answers.                                          *)

(* The command of a call is under way once, or its result is, or some call *)
(* has got that result; and no two of these.                               *)
CommandsSound ==
  \A i \in 1..Len(commands) :
    /\ state[commands[i].of] # "new" /\ opened[commands[i].of] = commands[i].session
    /\ \A j \in 1..Len(commands) : commands[j].of = commands[i].of => j = i
    /\ \A j \in 1..Len(replies) : replies[j].of # commands[i].of
    /\ \A s \in Sends : answer[s].of # commands[i].of

RepliesSound ==
  \A i \in 1..Len(replies) :
    /\ up /\ replies[i].session = session
    /\ state[replies[i].of] # "new" /\ opened[replies[i].of] = session
    /\ replies[i].ok => replies[i].of \in accepted
    /\ \A j \in 1..Len(replies) : replies[j].of = replies[i].of => j = i
    /\ \A s \in Sends : answer[s].of # replies[i].of

Sound(s) ==
  answer[s] \in Reply =>
    /\ answer[s].ok => answer[s].of \in accepted
    /\ answer[s].session = opened[s]
    /\ state[answer[s].of] # "new" /\ opened[answer[s].of] = opened[s]
    /\ answer[s].of # s => ~InFlight(answer[s].of) /\ InDoubt(s)

Ended(s) ==
  /\ state[s] \in {"ok", "fatal"} => answer[s] \in Reply
  /\ state[s] = "ok" => answer[s].ok

PendingHere == pending # <<>> => up /\ opened[holder] = session

Track ==
  /\ CommandsSound /\ RepliesSound /\ PendingHere
  /\ \A s \in Sends : Sound(s) /\ Ended(s)

IInv == TypeOK /\ Lock /\ Track

(* A call that has begun stays in its session; one that has given up, or   *)
(* ended, never waits again.                                               *)
Monotone ==
  \A s \in Sends :
    /\ state[s] # "new" => state'[s] # "new" /\ opened'[s] = opened[s]
    /\ state[s] = "transient" => state'[s] = "transient"
    /\ state[s] # "new" /\ ~InFlight(s) => ~InFlight(s)'

LEMMA DoubtStays ==
  ASSUME TypeOK, Monotone, NEW s \in Sends, state[s] # "new", InDoubt(s)
  PROVE  InDoubt(s)'
<1>1. PICK t \in Sends \ {s} : state[t] = "transient" /\ opened[t] = opened[s]
  BY DEF InDoubt
<1>2. state'[t] = "transient" /\ opened'[t] = opened[t] /\ opened'[s] = opened[s]
  BY <1>1 DEF Monotone
<1> QED BY <1>1, <1>2 DEF InDoubt

LEMMA SoundStays ==
  ASSUME TypeOK, Lock, Monotone, NEW s \in Sends, Sound(s),
         answer'[s] = answer[s], accepted \subseteq accepted'
  PROVE  Sound(s)'
<1> SUFFICES ASSUME answer[s] \in Reply PROVE Sound(s)'
  BY DEF Sound
<1>1. state[s] # "new"
  BY AnswerType DEF Lock, Unresolved
<1>2. answer[s].of \in Sends
  BY DEF Reply
<1>3. CASE answer[s].of = s
  BY <1>1, <1>2, <1>3 DEF Sound, Monotone
<1>4. CASE answer[s].of # s
  <2>1. InDoubt(s)'
    BY <1>1, <1>4, DoubtStays DEF Sound
  <2> QED BY <1>1, <1>2, <1>4, <2>1 DEF Sound, Monotone
<1> QED BY <1>3, <1>4

LEMMA CallerMonotone ==
  ASSUME TypeOK, NEW s \in Sends, Caller(s)
  PROVE  /\ Monotone
         /\ UNCHANGED <<answer, up, session, replies, accepted>>
<1> USE DEF TypeOK, Monotone, InFlight
<1>1. CASE Refuse(s) \/ Write(s) \/ Drain(s)
  BY <1>1 DEF Refuse, Write, Drain
<1>2. CASE DrainFails(s) \/ TimeOut(s)
  BY <1>2 DEF DrainFails, TimeOut, GiveUp
<1>3. CASE Return(s)
  <2>1. state'[s] \notin {"new", "writing", "awaiting"}
    <3>1. state'[s] \in {"transient", "ok", "fatal"}
      BY <1>3, CallerType DEF Return, Caller, Resumed
    <3> QED BY <3>1
  <2>2. \A t \in Sends : t # s => state'[t] = state[t]
    BY <1>3 DEF Return
  <2> QED BY <1>3, <2>1, <2>2 DEF Return
<1> QED BY <1>1, <1>2, <1>3 DEF Caller, Resumed

LEMMA Elements ==
  ASSUME TypeOK
  PROVE  /\ Len(commands) \in Nat /\ \A i \in 1..Len(commands) : commands[i] \in Command
         /\ Len(replies) \in Nat /\ \A i \in 1..Len(replies) : replies[i] \in Reply
         /\ \A s \in Sends : answer[s].of \in Sends => answer[s] \in Reply
<1>1. \A s \in Sends : answer[s].of \in Sends => answer[s] \in Reply
  <2>1. NoAnswer.of = None /\ Lost.of = None
    BY DEF NoAnswer, Lost
  <2> QED BY <2>1, SignalBridgeAssumption DEF TypeOK
<1> QED BY <1>1, LenProperties, ElementOfSeq DEF TypeOK

(* A step that lengthens neither queue and gives no call a result keeps    *)
(* what they say of each other.                                            *)
LEMMA CommandsStay ==
  ASSUME TypeOK, Monotone, CommandsSound, TypeOK',
         UNCHANGED <<commands, replies>>,
         \A s \in Sends : answer'[s] = answer[s]
  PROVE  CommandsSound'
<1> SUFFICES ASSUME NEW i \in 1..Len(commands)
             PROVE  /\ state'[commands[i].of] # "new"
                    /\ opened'[commands[i].of] = commands[i].session
                    /\ \A j \in 1..Len(commands) : commands[j].of = commands[i].of => j = i
                    /\ \A j \in 1..Len(replies) : replies[j].of # commands[i].of
                    /\ \A s \in Sends : answer[s].of # commands[i].of
  BY DEF CommandsSound
<1>1. commands[i].of \in Sends
  BY Elements DEF Command
<1> QED BY <1>1 DEF CommandsSound, Monotone

LEMMA RepliesStay ==
  ASSUME TypeOK, Monotone, RepliesSound, TypeOK',
         UNCHANGED <<replies, up, session>>, accepted \subseteq accepted',
         \A s \in Sends : answer'[s] = answer[s]
  PROVE  RepliesSound'
<1> SUFFICES ASSUME NEW i \in 1..Len(replies)
             PROVE  /\ up /\ replies[i].session = session
                    /\ state'[replies[i].of] # "new" /\ opened'[replies[i].of] = session
                    /\ replies[i].ok => replies[i].of \in accepted'
                    /\ \A j \in 1..Len(replies) : replies[j].of = replies[i].of => j = i
                    /\ \A s \in Sends : answer[s].of # replies[i].of
  BY DEF RepliesSound
<1>1. replies[i].of \in Sends
  BY Elements DEF Reply
<1> QED BY <1>1 DEF RepliesSound, Monotone

LEMMA CallerTrack ==
  ASSUME TypeOK, Lock, Track, NEW s \in Sends, Caller(s)
  PROVE  Track'
<1>1. Monotone /\ UNCHANGED <<answer, up, session, replies, accepted>>
  BY CallerMonotone
<1>2. TypeOK'
  BY CallerType
<1>3. RepliesSound'
  BY <1>1, <1>2, RepliesStay DEF Track
<1>4. \A t \in Sends : Sound(t)'
  BY <1>1, SoundStays DEF Track
<1>5. CommandsSound'
  <2>1. CASE UNCHANGED commands
    BY <1>1, <1>2, <2>1, CommandsStay DEF Track
  <2>2. CASE Write(s)
    <3> DEFINE c == [of |-> s, session |-> session]
    <3>1. c \in Command
      BY DEF Command, TypeOK
    <3>2. /\ Len(commands') = Len(commands) + 1 /\ commands'[Len(commands) + 1] = c
          /\ \A i \in 1..Len(commands) : commands'[i] = commands[i]
      BY <2>2, <3>1, AppendProperties DEF Write, TypeOK
    <3>3. /\ \A i \in 1..Len(commands) : commands[i].of # s
          /\ \A i \in 1..Len(replies) : replies[i].of # s
      BY <2>2 DEF Write, Track, CommandsSound, RepliesSound
    <3>4. \A t \in Sends : answer[t].of # s
      BY <2>2, Elements DEF Write, Track, Sound
    <3>5. state'[s] # "new" /\ opened'[s] = session
      BY <2>2 DEF Write, TypeOK
    <3>6. Len(commands) \in Nat /\ \A i \in 1..Len(commands) : commands[i].of \in Sends
      BY Elements DEF Command
    <3>7. ASSUME NEW i \in 1..Len(commands')
          PROVE  /\ state'[commands'[i].of] # "new"
                 /\ opened'[commands'[i].of] = commands'[i].session
                 /\ \A j \in 1..Len(commands') : commands'[j].of = commands'[i].of => j = i
                 /\ \A j \in 1..Len(replies) : replies[j].of # commands'[i].of
                 /\ \A t \in Sends : answer[t].of # commands'[i].of
      <4>1. CASE i = Len(commands) + 1
        BY <3>2, <3>3, <3>4, <3>5, <3>6, <4>1
      <4>2. CASE i \in 1..Len(commands)
        <5>1. /\ state'[commands[i].of] # "new"
              /\ opened'[commands[i].of] = commands[i].session
          BY <1>1, <3>6, <4>2 DEF Track, CommandsSound, Monotone
        <5>2. ASSUME NEW j \in 1..Len(commands'), commands'[j].of = commands'[i].of
              PROVE  j = i
          <6>1. commands'[i] = commands[i] /\ commands[i].of # s
            BY <3>2, <3>3, <4>2
          <6>2. commands'[Len(commands) + 1].of = s
            BY <3>2
          <6>3. j \in 1..Len(commands)
            BY <3>2, <3>6, <5>2, <6>1, <6>2
          <6>4. commands[j].of = commands[i].of
            BY <3>2, <5>2, <6>1, <6>3
          <6> QED BY <4>2, <6>3, <6>4 DEF Track, CommandsSound
        <5> QED BY <3>2, <4>2, <5>1, <5>2 DEF Track, CommandsSound
      <4> QED BY <3>2, <3>6, <4>1, <4>2
    <3> QED BY <1>1, <3>7 DEF CommandsSound
  <2>3. UNCHANGED commands \/ Write(s)
    BY DEF Caller, Resumed, Refuse, Drain, DrainFails, TimeOut, GiveUp, Return
  <2> QED BY <2>1, <2>2, <2>3
<1>6. PendingHere'
  <2>1. CASE Refuse(s) \/ Drain(s)
    BY <2>1 DEF Track, PendingHere, Refuse, Drain
  <2>2. CASE Write(s)
    BY <2>2 DEF PendingHere, Write, TypeOK
  <2>3. CASE DrainFails(s) \/ TimeOut(s)
    <3>1. GiveUp(s) /\ InFlight(s)
      BY <2>3 DEF DrainFails, TimeOut, InFlight
    <3>2. pending' = <<>>
      BY <3>1, GiveUpEmpties DEF Lock
    <3> QED BY <3>2 DEF PendingHere
  <2>4. CASE Return(s)
    <3>1. Lock' /\ holder' = None
      BY <2>4, CallerLock DEF Return
    <3>2. Len(pending') \in Nat /\ (Len(pending') = 0 => pending' = <<>>)
          /\ \A i \in 1..Len(pending') : pending'[i] \in Sends
      BY <1>2, LenProperties, ElementOfSeq, EmptySeq DEF TypeOK
    <3>3. pending' = <<>>
      BY <3>1, <3>2, SignalBridgeAssumption DEF Lock, PendingIsTheHolder
    <3> QED BY <3>3 DEF PendingHere
  <2> QED BY <2>1, <2>2, <2>3, <2>4 DEF Caller, Resumed
<1>7. \A t \in Sends : Ended(t)'
  <2> SUFFICES ASSUME NEW t \in Sends PROVE Ended(t)'
    OBVIOUS
  <2>1. CASE ~Return(s) \/ t # s
    <3>1. state'[t] \in {"ok", "fatal"} => state'[t] = state[t]
      BY <2>1 DEF Caller, Resumed, Refuse, Write, Drain, DrainFails, TimeOut, GiveUp, Return, TypeOK
    <3>2. Ended(t) /\ answer'[t] = answer[t]
      BY <1>1 DEF Track
    <3> QED BY <3>1, <3>2 DEF Ended
  <2>2. CASE Return(s) /\ t = s
    <3>1. answer[s] # NoAnswer
      BY <2>2 DEF Return, Unresolved
    <3>2. CASE answer[s] = Lost
      <4>1. state'[s] = "transient"
        BY <2>2, <3>2 DEF Return, TypeOK
      <4> QED BY <2>2, <4>1 DEF Ended
    <3>3. CASE answer[s] # Lost
      <4>1. answer[s] \in Reply /\ answer[s].ok \in BOOLEAN
        <5>1. answer[s] \in Reply
          BY <3>1, <3>3 DEF TypeOK
        <5> QED BY <5>1 DEF Reply
      <4>2. CASE answer[s].ok
        BY <1>1, <2>2, <4>1, <4>2 DEF Ended
      <4>3. CASE ~answer[s].ok
        <5>1. (CASE answer[s] = Lost -> "transient"
                 [] answer[s] # Lost /\ answer[s].ok -> "ok"
                 [] answer[s] # Lost /\ ~answer[s].ok -> "fatal") = "fatal"
          BY <3>3, <4>3, Zenon
        <5>2. state'[s] = "fatal"
          BY <2>2, <5>1 DEF Return, TypeOK
        <5> QED BY <1>1, <2>2, <4>1, <5>2 DEF Ended
      <4> QED BY <4>1, <4>2, <4>3
    <3> QED BY <3>2, <3>3
  <2> QED BY <2>1, <2>2
<1> QED BY <1>3, <1>4, <1>5, <1>6, <1>7 DEF Track

LEMMA ConnectTrack == ASSUME TypeOK, Lock, Track, TypeOK', Connect PROVE Track'
<1>1. pending = <<>> /\ replies = <<>>
  <2>1. Len(replies) \in Nat /\ (Len(replies) = 0 => replies = <<>>)
    BY Elements, EmptySeq DEF TypeOK
  <2>2. Len(replies) = 0
    BY <2>1 DEF Connect, Track, RepliesSound
  <2> QED BY <2>1, <2>2 DEF Connect, Track, PendingHere
<1>2. Monotone /\ UNCHANGED <<commands, replies, pending, answer, accepted, state>>
  BY DEF Connect, Monotone, InFlight
<1>3. CommandsSound'
  BY <1>2, CommandsStay DEF Track
<1>4. RepliesSound' /\ PendingHere'
  BY <1>1, <1>2, EmptySeq DEF RepliesSound, PendingHere
<1>5. \A s \in Sends : Sound(s)'
  BY <1>2, SoundStays DEF Track
<1>6. \A s \in Sends : Ended(s)'
  BY <1>2 DEF Track, Ended
<1> QED BY <1>3, <1>4, <1>5, <1>6 DEF Track

LEMMA HangUpTrack == ASSUME TypeOK, Lock, Track, TypeOK', HangUp PROVE Track'
<1>1. /\ pending' = <<>> /\ replies' = <<>>
      /\ UNCHANGED <<state, opened, accepted>>
  BY HangUpType
<1>2. Monotone
  BY <1>1 DEF Monotone, InFlight
<1>3. \A s \in Sends : answer'[s] = Lost \/ answer'[s] = answer[s]
  BY DEF HangUp, FailPending
<1>4. Lost.of = None /\ Lost \notin Reply
  BY AnswerType DEF Lost
<1>5. PICK n \in 0..Len(commands) : commands' = SubSeq(commands, 1, n)
  BY DEF HangUp
<1>6. Len(commands') = n /\ \A i \in 1..n : commands'[i] = commands[i]
  BY <1>5, PrefixType
<1>7. \A i \in 1..n : i \in 1..Len(commands) /\ commands[i].of \in Sends
  BY <1>5, Elements DEF Command
<1>8. CommandsSound'
  <2>1. \A i \in 1..n, s \in Sends : answer'[s].of # commands[i].of
    BY <1>3, <1>4, <1>7, SignalBridgeAssumption DEF Track, CommandsSound
  <2>2. \A i \in 1..n : \A j \in 1..n : commands[j].of = commands[i].of => j = i
    BY <1>7 DEF Track, CommandsSound
  <2>3. \A i \in 1..n : /\ state[commands[i].of] # "new"
                        /\ opened[commands[i].of] = commands[i].session
    BY <1>7 DEF Track, CommandsSound
  <2> QED BY <1>1, <1>6, <2>1, <2>2, <2>3, EmptySeq DEF CommandsSound
<1>9. RepliesSound' /\ PendingHere'
  BY <1>1, EmptySeq DEF RepliesSound, PendingHere
<1>10. ASSUME NEW s \in Sends PROVE Sound(s)' /\ Ended(s)'
  <2>1. CASE answer'[s] = answer[s]
    <3>1. Sound(s)'
      BY <1>1, <1>2, <2>1, SoundStays DEF Track
    <3> QED BY <1>1, <2>1, <3>1 DEF Track, Ended
  <2>2. CASE answer'[s] # answer[s]
    <3>1. answer'[s] = Lost /\ \E i \in 1..Len(pending) : pending[i] = s
      BY <2>2 DEF HangUp, FailPending
    <3>2. InFlight(s)
      BY <3>1 DEF Lock, PendingIsTheHolder
    <3> QED BY <1>1, <1>4, <3>1, <3>2 DEF Sound, Ended, InFlight
  <2> QED BY <2>1, <2>2
<1> QED BY <1>8, <1>9, <1>10 DEF Track

LEMMA HandleTrack == ASSUME TypeOK, Lock, Track, TypeOK', Handle PROVE Track'
<1> DEFINE c == Head(commands)
<1>1. /\ Len(commands) \in Nat \ {0} /\ c = commands[1] /\ c \in Command
      /\ c.of \in Sends /\ 1 \in 1..Len(commands)
  <2>1. Len(commands) \in Nat \ {0} /\ commands \in Seq(Command) /\ commands # <<>>
    BY EmptySeq, Elements DEF Handle, TypeOK
  <2>2. c = commands[1]
    BY <2>1
  <2>3. 1 \in 1..Len(commands) /\ commands[1] \in Command
    BY <2>1, Elements
  <2> QED BY <2>1, <2>2, <2>3 DEF Command
<1>2. /\ Len(commands') = Len(commands) - 1
      /\ \A i \in 1..Len(commands') : commands'[i] = commands[i + 1]
                                      /\ i + 1 \in 1..Len(commands)
  BY <1>1, HeadTailProperties DEF Handle, TypeOK
<1>3. PICK ok \in BOOLEAN, sent \in BOOLEAN :
        /\ ok => sent
        /\ accepted' = IF sent THEN accepted \cup {c.of} ELSE accepted
        /\ replies' = IF up /\ c.session = session
                      THEN Append(replies, [of |-> c.of, session |-> session, ok |-> ok])
                      ELSE replies
  BY DEF Handle
<1> DEFINE r == [of |-> c.of, session |-> session, ok |-> ok]
<1>4. /\ state[c.of] # "new" /\ opened[c.of] = c.session
      /\ \A j \in 1..Len(replies) : replies[j].of # c.of
      /\ \A s \in Sends : answer[s].of # c.of
      /\ \A j \in 1..Len(commands) : commands[j].of = c.of => j = 1
  BY <1>1 DEF Track, CommandsSound
<1>5. Monotone /\ accepted \subseteq accepted' /\ (ok => c.of \in accepted')
  BY <1>3 DEF Handle, Monotone, InFlight
<1>6. /\ UNCHANGED <<state, opened, answer, holder, pending, up, session>>
      /\ r \in Reply /\ r.of = c.of /\ r.session = session /\ r.ok = ok
  BY <1>1 DEF Handle, Reply, TypeOK
<1> HIDE DEF c, r
<1>7. Len(replies) \in Nat /\ \A j \in 1..Len(replies) : replies[j].of \in Sends
  BY Elements DEF Reply
<1>8. ASSUME NEW i \in 1..Len(commands')
      PROVE  /\ commands'[i] = commands[i + 1] /\ i + 1 \in 1..Len(commands)
             /\ commands[i + 1].of # c.of
  BY <1>1, <1>2, <1>4
<1>9. ASSUME NEW i \in 1..Len(commands')
      PROVE  /\ state[commands'[i].of] # "new"
             /\ opened[commands'[i].of] = commands'[i].session
             /\ \A s \in Sends : answer[s].of # commands'[i].of
  BY <1>8 DEF Track, CommandsSound
<1>10. ASSUME NEW i \in 1..Len(commands'), NEW j \in 1..Len(commands'),
             commands'[j].of = commands'[i].of
      PROVE  j = i
  <2>1. j + 1 = i + 1
    BY <1>8, <1>10 DEF Track, CommandsSound
  <2> QED BY <1>1, <1>2, <2>1
<1>11. CASE replies' = replies
  <2>1. RepliesSound'
    BY <1>5, <1>6, <1>11, RepliesStay DEF Track
  <2>2. CommandsSound'
    BY <1>6, <1>8, <1>9, <1>10, <1>11 DEF Track, CommandsSound
  <2>3. \A s \in Sends : Sound(s)' /\ Ended(s)'
    BY <1>5, <1>6, SoundStays DEF Track, Ended
  <2> QED BY <1>6, <2>1, <2>2, <2>3 DEF Track, PendingHere
<1>12. CASE up /\ c.session = session /\ replies' = Append(replies, r)
  <2>1. /\ Len(replies') = Len(replies) + 1 /\ replies'[Len(replies) + 1] = r
        /\ \A i \in 1..Len(replies) : replies'[i] = replies[i]
    BY <1>6, <1>12, AppendProperties DEF TypeOK
  <2>2. ASSUME NEW i \in 1..Len(replies')
        PROVE  /\ up /\ replies'[i].session = session
               /\ state[replies'[i].of] # "new" /\ opened[replies'[i].of] = session
               /\ replies'[i].ok => replies'[i].of \in accepted'
               /\ \A s \in Sends : answer[s].of # replies'[i].of
    <3>1. CASE i = Len(replies) + 1
      BY <1>4, <1>5, <1>6, <1>12, <2>1, <3>1
    <3>2. CASE i \in 1..Len(replies)
      BY <1>5, <2>1, <3>2 DEF Track, RepliesSound
    <3> QED BY <1>7, <2>1, <3>1, <3>2
  <2>3. ASSUME NEW i \in 1..Len(replies'), NEW j \in 1..Len(replies'),
               replies'[j].of = replies'[i].of
        PROVE  j = i
    <3>1. replies'[Len(replies) + 1].of = c.of
      BY <1>6, <2>1
    <3>2. \A k \in 1..Len(replies) : replies'[k].of # c.of /\ replies'[k] = replies[k]
      BY <1>4, <2>1
    <3>3. CASE i \in 1..Len(replies) /\ j \in 1..Len(replies)
      BY <2>3, <3>2, <3>3 DEF Track, RepliesSound
    <3>4. CASE i = Len(replies) + 1 \/ j = Len(replies) + 1
      BY <1>7, <2>1, <2>3, <3>1, <3>2, <3>4
    <3> QED BY <1>7, <2>1, <3>3, <3>4
  <2>4. RepliesSound'
    BY <1>6, <2>2, <2>3 DEF RepliesSound
  <2>5. ASSUME NEW i \in 1..Len(commands'), NEW j \in 1..Len(replies')
        PROVE  replies'[j].of # commands'[i].of
    <3>1. CASE j = Len(replies) + 1
      BY <1>6, <1>8, <2>1, <3>1
    <3>2. CASE j \in 1..Len(replies)
      <4>1. replies'[j] = replies[j] /\ commands'[i] = commands[i + 1]
            /\ i + 1 \in 1..Len(commands)
        BY <1>8, <2>1, <3>2
      <4>2. replies[j].of # commands[i + 1].of
        BY <3>2, <4>1 DEF Track, CommandsSound
      <4> QED BY <4>1, <4>2
    <3> QED BY <1>7, <2>1, <3>1, <3>2
  <2>6. CommandsSound'
    BY <1>6, <1>9, <1>10, <2>5 DEF CommandsSound
  <2>7. \A s \in Sends : Sound(s)' /\ Ended(s)'
    BY <1>5, <1>6, SoundStays DEF Track, Ended
  <2> QED BY <1>6, <2>4, <2>6, <2>7 DEF Track, PendingHere
<1> QED BY <1>3, <1>11, <1>12 DEF c, r

(* The result goes to the call that waits; if it is not its own, the call  *)
(* it is of has given up, or returned another's: then one before has.      *)
LEMMA ReadTrack == ASSUME TypeOK, Lock, Track, TypeOK', ReadResult PROVE Track'
<1> DEFINE r == Head(replies)
<1>1. /\ Len(replies) \in Nat \ {0} /\ r = replies[1] /\ r \in Reply
      /\ r.of \in Sends /\ 1 \in 1..Len(replies) /\ up
  <2>1. Len(replies) \in Nat \ {0} /\ replies \in Seq(Reply) /\ replies # <<>> /\ up
    BY EmptySeq, Elements DEF ReadResult, TypeOK
  <2>2. r = replies[1]
    BY <2>1
  <2>3. 1 \in 1..Len(replies) /\ replies[1] \in Reply
    BY <2>1, Elements
  <2> QED BY <2>1, <2>2, <2>3 DEF Reply
<1>2. /\ Len(replies') = Len(replies) - 1
      /\ \A i \in 1..Len(replies') : replies'[i] = replies[i + 1]
                                     /\ i + 1 \in 1..Len(replies)
  BY <1>1, HeadTailProperties DEF ReadResult, TypeOK
<1>3. /\ r.session = session /\ state[r.of] # "new" /\ opened[r.of] = session
      /\ r.ok => r.of \in accepted
      /\ \A j \in 1..Len(replies) : replies[j].of = r.of => j = 1
      /\ \A s \in Sends : answer[s].of # r.of
  BY <1>1 DEF Track, RepliesSound
<1>4. \A i \in 1..Len(commands) : commands[i].of # r.of
  BY <1>1 DEF Track, CommandsSound
<1>5. UNCHANGED <<state, opened, holder, up, session, commands, accepted>>
  BY DEF ReadResult
<1>6. Monotone
  BY <1>5 DEF Monotone, InFlight
<1>7. \A s \in Sends :
        answer'[s] = answer[s] \/ (pending # <<>> /\ s = holder /\ answer'[s] = r)
  <2>1. CASE pending = <<>>
    BY <2>1 DEF ReadResult
  <2>2. CASE pending # <<>>
    <3>1. Len(pending) \in Nat \ {0}
      BY <2>2, EmptySeq, LenProperties DEF TypeOK
    <3>2. Head(pending) = holder
      BY <3>1, 1 \in 1..Len(pending) DEF Lock, PendingIsTheHolder
    <3> QED BY <2>2, <3>2 DEF ReadResult, TypeOK
  <2> QED BY <2>1, <2>2
<1> HIDE DEF r
<1>8. CommandsSound'
  <2>1. ASSUME NEW i \in 1..Len(commands), NEW j \in 1..Len(replies')
        PROVE  replies'[j].of # commands[i].of
    <3>1. replies'[j] = replies[j + 1] /\ j + 1 \in 1..Len(replies)
      BY <1>2
    <3>2. CommandsSound
      BY DEF Track
    <3>3. replies[j + 1].of # commands[i].of
      BY <3>1, <3>2 DEF CommandsSound
    <3> QED BY <3>1, <3>3
  <2>2. ASSUME NEW i \in 1..Len(commands), NEW s \in Sends
        PROVE  answer'[s].of # commands[i].of
    BY <1>4, <1>7 DEF Track, CommandsSound
  <2> QED BY <1>5, <2>1, <2>2 DEF Track, CommandsSound
<1>9. RepliesSound'
  <2>1. ASSUME NEW i \in 1..Len(replies')
        PROVE  /\ up /\ replies'[i].session = session
               /\ state[replies'[i].of] # "new" /\ opened[replies'[i].of] = session
               /\ replies'[i].ok => replies'[i].of \in accepted
    <3>1. replies'[i] = replies[i + 1] /\ i + 1 \in 1..Len(replies)
      BY <1>2
    <3>2. RepliesSound
      BY DEF Track
    <3>3. /\ up /\ replies[i + 1].session = session
          /\ state[replies[i + 1].of] # "new" /\ opened[replies[i + 1].of] = session
          /\ replies[i + 1].ok => replies[i + 1].of \in accepted
      BY <3>1, <3>2 DEF RepliesSound
    <3> QED BY <3>1, <3>3
  <2>2. ASSUME NEW i \in 1..Len(replies'), NEW j \in 1..Len(replies'),
               replies'[j].of = replies'[i].of
        PROVE  j = i
    <3>1. j + 1 = i + 1
      BY <1>2, <2>2 DEF Track, RepliesSound
    <3> QED BY <1>1, <1>2, <3>1
  <2>3. ASSUME NEW i \in 1..Len(replies'), NEW s \in Sends
        PROVE  answer'[s].of # replies'[i].of
    <3>1. replies'[i] = replies[i + 1] /\ i + 1 \in 1..Len(replies) /\ i + 1 # 1
      BY <1>1, <1>2
    <3>2. replies[i + 1].of # r.of /\ answer[s].of # replies[i + 1].of
      BY <1>3, <3>1 DEF Track, RepliesSound
    <3> QED BY <1>7, <3>1, <3>2
  <2> QED BY <1>5, <2>1, <2>2, <2>3 DEF RepliesSound
<1>10. PendingHere'
  <2>1. pending' # <<>> => pending # <<>>
    BY DEF ReadResult
  <2> QED BY <1>5, <2>1 DEF Track, PendingHere
<1>11. ASSUME NEW s \in Sends PROVE Sound(s)' /\ Ended(s)'
  <2>1. CASE answer'[s] = answer[s]
    <3>1. Sound(s)'
      BY <1>5, <1>6, <2>1, SoundStays DEF Track
    <3> QED BY <1>5, <2>1, <3>1 DEF Track, Ended
  <2>2. CASE pending # <<>> /\ s = holder /\ answer'[s] = r
    <3>1. InFlight(s) /\ opened[s] = session
      BY <2>2 DEF Lock, PendingIsTheHolder, Track, PendingHere
    <3>2. Ended(s)'
      BY <1>5, <3>1 DEF Ended, InFlight
    <3>3. ASSUME r.of # s PROVE ~InFlight(r.of) /\ InDoubt(s)
      <4>1. ~InFlight(r.of)
        BY <1>1, <2>2, <3>1, <3>3 DEF Lock, PendingIsTheHolder
      <4>2. state[r.of] \in {"ok", "fatal", "transient"}
        BY <1>1, <1>3, <4>1 DEF TypeOK, InFlight
      <4>3. CASE state[r.of] = "transient"
        <5>1. r.of \in Sends \ {s} /\ opened[r.of] = opened[s]
          BY <1>1, <1>3, <3>1, <3>3
        <5> QED BY <4>1, <4>3, <5>1, Zenon DEF InDoubt
      <4>4. CASE state[r.of] \in {"ok", "fatal"}
        <5>1. answer[r.of] \in Reply /\ answer[r.of].of # r.of
          BY <1>1, <1>3, <4>4 DEF Track, Ended
        <5>2. InDoubt(r.of)
          BY <1>1, <5>1 DEF Track, Sound
        <5>3. PICK u \in Sends \ {r.of} : state[u] = "transient" /\ opened[u] = opened[r.of]
          BY <5>2 DEF InDoubt
        <5>4. u # s
          BY <3>1, <5>3 DEF InFlight
        <5>5. u \in Sends \ {s} /\ opened[u] = opened[s]
          BY <1>3, <3>1, <5>3, <5>4
        <5> QED BY <4>1, <5>3, <5>5, Zenon DEF InDoubt
      <4> QED BY <4>2, <4>3, <4>4
    <3>4. Sound(s)'
      BY <1>3, <1>5, <2>2, <3>1, <3>3 DEF Sound, InDoubt, InFlight
    <3> QED BY <3>2, <3>4
  <2> QED BY <1>7, <2>1, <2>2
<1> QED BY <1>8, <1>9, <1>10, <1>11 DEF Track

LEMMA InvInit == Init => IInv
<1> SUFFICES ASSUME Init PROVE IInv
  OBVIOUS
<1>1. TypeOK /\ Lock
  BY TypeInit, LockInit
<1>2. CommandsSound /\ RepliesSound /\ PendingHere
  BY EmptySeq DEF Init, CommandsSound, RepliesSound, PendingHere
<1>3. \A s \in Sends : answer[s] \notin Reply /\ state[s] = "new"
  BY <1>1, AnswerType DEF Init
<1>4. \A s \in Sends : Sound(s) /\ Ended(s)
  BY <1>3 DEF Sound, Ended
<1> QED BY <1>1, <1>2, <1>4 DEF IInv, Track

LEMMA InvStep == IInv /\ [Next]_vars => IInv'
<1> SUFFICES ASSUME IInv, [Next]_vars PROVE IInv'
  OBVIOUS
<1> USE DEF IInv
<1>1. TypeOK' /\ Lock'
  BY TypeStep, LockStep
<1>2. CASE UNCHANGED vars
  <2>1. CommandsSound' /\ RepliesSound' /\ PendingHere'
    BY <1>2 DEF vars, Track, CommandsSound, RepliesSound, PendingHere
  <2>2. \A s \in Sends : Sound(s)' /\ Ended(s)'
    BY <1>2 DEF vars, Track, Sound, Ended, InDoubt, InFlight
  <2> QED BY <1>1, <2>1, <2>2 DEF Track
<1>3. CASE Drop \/ Close
  BY <1>1, <1>3, HangUpTrack DEF Drop, Close
<1>4. CASE \E s \in Sends : Caller(s)
  BY <1>1, <1>4, CallerTrack
<1>5. CASE Connect \/ ReadResult \/ Handle
  BY <1>1, <1>5, ConnectTrack, ReadTrack, HandleTrack
<1> QED BY <1>1, <1>2, <1>3, <1>4, <1>5 DEF Next

(* However replies are delayed, lost and dropped, a call can get another's *)
(* result only if a third of the same session has given up waiting         *)
(* (sig_bot_manager.py:96-127, 193-211).                                   *)
THEOREM StraysFollowATimeout == Spec => []StrayRepliesFollowATimeout
<1>1. ASSUME IInv PROVE StrayRepliesFollowATimeout
  <2> SUFFICES ASSUME NEW s \in Sends, answer[s].of \notin {None, s}
               PROVE  /\ answer[s].session = opened[s]
                      /\ ~InFlight(answer[s].of) /\ opened[answer[s].of] = opened[s]
                      /\ InDoubt(s)
    BY DEF StrayRepliesFollowATimeout
  <2>1. answer[s] \in Reply
    BY <1>1 DEF IInv, TypeOK, NoAnswer, Lost
  <2> QED BY <1>1, <2>1 DEF IInv, Track, Sound
<1> QED BY <1>1, InvInit, InvStep, PTL DEF Spec

(* A call that returns ok has had its message accepted by Signal, or else  *)
(* some call of its session has given up before (sig_transport.py:42-51).  *)
THEOREM OkAlwaysAccepted == Spec => []OkMeansAccepted
<1>1. ASSUME IInv PROVE OkMeansAccepted
  <2> SUFFICES ASSUME NEW s \in Sends, state[s] = "ok" PROVE s \in accepted \/ InDoubt(s)
    BY DEF OkMeansAccepted
  <2>1. answer[s] \in Reply /\ answer[s].ok
    BY <1>1 DEF IInv, Track, Ended
  <2> QED BY <1>1, <2>1 DEF IInv, Track, Sound
<1> QED BY <1>1, InvInit, InvStep, PTL DEF Spec

-----------------------------------------------------------------------------
(* The refinement of RequestReply.                                         *)

Made == {s \in Sends : state[s] # "new"}
Told == [s \in Sends |-> IF state[s] \in Outcomes THEN state[s] ELSE "none"]
Doubted == {s \in Sends : opened[s] # 0 /\ InDoubt(s)}

(* Sessions are counted from 1, and a call has written in one if it waits, *)
(* in none if it is new.                                                   *)
Unopened ==
  /\ up => session # 0
  /\ \A s \in Sends : /\ state[s] = "new" => opened[s] = 0
                      /\ InFlight(s) => opened[s] # 0

LEMMA UnopenedStep == ASSUME TypeOK, Unopened, [Next]_vars PROVE Unopened'
<1>1. ASSUME NEW s \in Sends, Caller(s) PROVE Unopened'
  <2>1. UNCHANGED <<up, session>> /\ Monotone
    BY <1>1, CallerMonotone
  <2>2. CASE Write(s)
    <3>1. /\ state'[s] = "writing" /\ opened'[s] = session /\ session # 0
          /\ \A t \in Sends \ {s} : state'[t] = state[t] /\ opened'[t] = opened[t]
      BY <2>2 DEF Write, TypeOK, Unopened
    <3> QED BY <2>1, <3>1 DEF Unopened, InFlight
  <2>3. CASE ~Write(s)
    <3>1. opened' = opened
      BY <1>1, <2>3 DEF Caller, Resumed, Refuse, Drain, DrainFails, TimeOut, GiveUp, Return
    <3>2. \A t \in Sends : /\ state'[t] = "new" => state[t] = "new"
                           /\ InFlight(t)' => InFlight(t)
      <4>1. CASE Drain(s)
        BY <4>1 DEF Drain, InFlight, TypeOK
      <4>2. CASE ~Drain(s)
        <5>1. /\ state'[s] \in Outcomes
              /\ \A t \in Sends \ {s} : state'[t] = state[t]
          <6>1. CASE Refuse(s) \/ DrainFails(s) \/ TimeOut(s)
            BY <6>1 DEF Refuse, DrainFails, TimeOut, GiveUp, TypeOK, Outcomes
          <6>2. CASE Return(s)
            BY <6>2 DEF Return, TypeOK, Outcomes
          <6> QED BY <1>1, <2>3, <4>2, <6>1, <6>2 DEF Caller, Resumed
        <5> QED BY <5>1 DEF InFlight, Outcomes
      <4> QED BY <4>1, <4>2
    <3> QED BY <2>1, <3>1, <3>2 DEF Unopened
  <2> QED BY <2>2, <2>3
<1>2. CASE Connect
  BY <1>2 DEF Connect, Unopened, InFlight, TypeOK, Sessions
<1>3. CASE ReadResult \/ Drop \/ Close \/ Handle \/ UNCHANGED vars
  BY <1>3 DEF ReadResult, Drop, Close, HangUp, Handle, vars, Unopened, InFlight
<1> QED BY <1>1, <1>2, <1>3 DEF Next

(* A call comes into doubt by another that has given up, and stays in it.  *)
LEMMA DoubtMoves ==
  ASSUME TypeOK, Unopened, Unopened', Monotone
  PROVE  Promise!Doubt
<1>1. ASSUME NEW s \in Doubted PROVE s \in Doubted'
  <2>1. s \in Sends /\ state[s] # "new" /\ InDoubt(s) /\ opened[s] # 0
    BY DEF Doubted, Unopened
  <2>2. InDoubt(s)'
    BY <2>1, DoubtStays
  <2>3. opened'[s] = opened[s]
    BY <2>1 DEF Monotone
  <2> QED BY <2>1, <2>2, <2>3 DEF Doubted
<1>2. ASSUME NEW s \in Doubted'
      PROVE  s \in Made' /\ \E t \in Sends \ {s} : Told'[t] = "transient"
  <2>1. s \in Sends /\ InDoubt(s)' /\ state'[s] # "new"
    BY <1>2 DEF Doubted, Unopened
  <2>2. PICK t \in Sends \ {s} : state'[t] = "transient"
    BY <2>1 DEF InDoubt
  <2>3. Told'[t] = "transient"
    BY <2>2 DEF Told, Outcomes
  <2> QED BY <2>1, <2>3 DEF Made
<1> QED BY <1>1, <1>2 DEF Promise!Doubt, Doubted, Made, Told
(* A step that leaves the calls alone, and one that ends the call s.       *)
LEMMA PromiseStutters ==
  ASSUME UNCHANGED <<accepted, opened>>,
         \A s \in Sends : \/ state'[s] = state[s]
                          \/ state[s] = "writing" /\ state'[s] = "awaiting"
  PROVE  UNCHANGED Promise!absVars
<1>1. Made' = Made /\ Told' = Told
  BY DEF Made, Told, Outcomes
<1>2. \A s \in Sends : state'[s] = "transient" <=> state[s] = "transient"
  OBVIOUS
<1>3. Doubted' = Doubted
  BY <1>2 DEF Doubted, InDoubt
<1> QED BY <1>1, <1>3 DEF Promise!absVars, Made, Told, Doubted

LEMMA PromiseTells ==
  ASSUME TypeOK, Promise!Doubt, UNCHANGED <<accepted, opened>>, NEW s \in Sends, InFlight(s),
         NEW o \in Outcomes, state' = [state EXCEPT ![s] = o],
         o = "ok" => s \in accepted \cup Doubted
  PROVE  Promise!Next
<1>1. s \in Made /\ Told[s] = "none"
  BY DEF Made, Told, InFlight, Outcomes
<1>2. Made' = Made /\ Told' = [Told EXCEPT ![s] = o]
  BY DEF Made, Told, InFlight, Outcomes, TypeOK
<1> QED BY <1>1, <1>2 DEF Promise!Next, Promise!Tell, Made, Told, Doubted

LEMMA CallerPromise ==
  ASSUME IInv, Unopened, Unopened', NEW s \in Sends, Caller(s)
  PROVE  Promise!Next \/ UNCHANGED Promise!absVars
<1>1. TypeOK /\ Monotone /\ UNCHANGED accepted
  BY CallerMonotone DEF IInv
<1>2. Promise!Doubt
  BY <1>1, DoubtMoves
<1>3. CASE Refuse(s)
  <2>1. s \notin Made /\ Made' = Made \cup {s} /\ Told' = [Told EXCEPT ![s] = "transient"]
    BY <1>1, <1>3 DEF Refuse, Made, Told, TypeOK, Outcomes
  <2> QED BY <1>1, <1>2, <2>1 DEF Promise!Next, Promise!Refuse, Made, Told
<1>4. CASE Write(s)
  <2>1. s \notin Made /\ Made' = Made \cup {s} /\ Told' = Told
    BY <1>1, <1>4 DEF Write, Made, Told, TypeOK, Outcomes
  <2> QED BY <1>1, <1>2, <2>1 DEF Promise!Next, Promise!Make, Made, Told
<1>5. CASE Drain(s)
  <2>1. \A t \in Sends : \/ state'[t] = state[t]
                         \/ state[t] = "writing" /\ state'[t] = "awaiting"
    BY <1>1, <1>5 DEF Drain, TypeOK
  <2>2. UNCHANGED opened
    BY <1>5 DEF Drain
  <2> QED BY <1>1, <2>1, <2>2, PromiseStutters
<1>6. CASE DrainFails(s) \/ TimeOut(s)
  <2>1. InFlight(s) /\ state' = [state EXCEPT ![s] = "transient"] /\ UNCHANGED opened
    BY <1>6 DEF DrainFails, TimeOut, GiveUp, InFlight
  <2>2. "transient" \in Outcomes /\ "transient" # "ok"
    BY DEF Outcomes
  <2> QED BY <1>1, <1>2, <2>1, <2>2, PromiseTells
<1>7. CASE Return(s)
  <2>1. PICK o \in Outcomes : /\ state' = [state EXCEPT ![s] = o]
                              /\ o = "ok" => answer[s] # Lost /\ answer[s].ok
    BY <1>7 DEF Return, Outcomes
  <2>2. InFlight(s) /\ ~Unresolved(s) /\ UNCHANGED opened
    BY <1>7 DEF Return, InFlight
  <2>3. ASSUME o = "ok" PROVE s \in accepted \cup Doubted
    <3>1. answer[s] \in Reply /\ answer[s].ok
      BY <1>1, <2>1, <2>2, <2>3 DEF TypeOK, Unresolved
    <3>2. s \in accepted \/ InDoubt(s)
      BY <3>1 DEF IInv, Track, Sound
    <3> QED BY <2>2, <3>2 DEF Unopened, Doubted
  <2> QED BY <1>1, <1>2, <2>1, <2>2, <2>3, PromiseTells
<1> QED BY <1>3, <1>4, <1>5, <1>6, <1>7 DEF Caller, Resumed

LEMMA HandlePromise ==
  ASSUME IInv, Unopened, Unopened', Handle
  PROVE  Promise!Next \/ UNCHANGED Promise!absVars
<1> DEFINE s == Head(commands).of
<1>1. UNCHANGED <<state, opened>> /\ commands # <<>>
  BY DEF Handle
<1>2. s \in Made
  <2>1. 1 \in 1..Len(commands) /\ Head(commands) = commands[1] /\ commands[1] \in Command
    BY <1>1, Elements, EmptySeq, HeadTailProperties DEF IInv, TypeOK
  <2> QED BY <2>1 DEF IInv, Track, CommandsSound, Command, Made
<1>3. accepted' = accepted \/ accepted' = accepted \cup {s}
  BY DEF Handle
<1>4. CASE accepted' = accepted
  BY <1>1, <1>4, PromiseStutters
<1>5. CASE accepted' = accepted \cup {s} /\ s \notin accepted
  <2>1. Made' = Made /\ Told' = Told
    BY <1>1 DEF Made, Told
  <2>2. Monotone
    BY <1>1 DEF Monotone, InFlight
  <2>3. Promise!Doubt
    BY <2>2, DoubtMoves DEF IInv
  <2> QED BY <1>2, <1>5, <2>1, <2>3 DEF Promise!Next, Promise!Perform, Made, Told
<1> QED BY <1>3, <1>4, <1>5

LEMMA PromiseStep ==
  ASSUME IInv, Unopened, Unopened', [Next]_vars
  PROVE  [Promise!Next]_(Promise!absVars)
<1>1. CASE \E s \in Sends : Caller(s)
  BY <1>1, CallerPromise
<1>2. CASE Handle
  BY <1>2, HandlePromise
<1>3. CASE Connect \/ ReadResult \/ Drop \/ Close \/ UNCHANGED vars
  <2>1. UNCHANGED <<state, opened, accepted>>
    BY <1>3 DEF Connect, ReadResult, Drop, Close, HangUp, vars
  <2> QED BY <2>1, PromiseStutters
<1> QED BY <1>1, <1>2, <1>3 DEF Next

LEMMA PromiseInit == Init => Promise!Init /\ Unopened
<1> SUFFICES ASSUME Init PROVE Promise!Init /\ Unopened
  OBVIOUS
<1>1. Promise!Init
  BY DEF Init, Promise!Init, Outcomes
<1>2. Unopened
  BY DEF Init, Unopened, InFlight
<1> QED BY <1>1, <1>2

(* The connection implements RequestReply with the exception of the calls  *)
(* in doubt: however results are delayed and dropped, no call that Signal  *)
(* has not accepted is reported as delivered before another call of its    *)
(* session has given up, and no outcome changes (sig_bot_manager.py:96-127,*)
(* sig_transport.py:32-51).                                                *)
THEOREM ConnectionKeepsPromise == Spec => KeepsPromise
<1>1. IInv /\ Unopened /\ [Next]_vars => Unopened' /\ [Promise!Next]_(Promise!absVars)
  BY UnopenedStep, PromiseStep DEF IInv
<1> QED BY <1>1, PromiseInit, InvInit, InvStep, PTL DEF Spec, KeepsPromise, Promise!Spec

=============================================================================
