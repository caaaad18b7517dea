---------------------- MODULE SimplexConnectionProofs ----------------------
(***************************************************************************)
(* Proofs about SimplexConnection, for any number of sends and of lost     *)
(* connections: every call gets its own reply, and the connection          *)
(* implements RequestReply.                                                *)
(***************************************************************************)
EXTENDS SimplexConnection, TLAPS

-----------------------------------------------------------------------------
(* Type correctness.                                                       *)

LEMMA IssuedType == ASSUME TypeOK, NEW c \in Callers PROVE Issued(c) \in Command
BY DEF TypeOK, Issued, Command, Sessions

LEMMA SettleType == ASSUME TypeOK, NEW c \in Callers,
                           NEW o \in {"new", "waiting"} \cup Ended, Settle(c, o)
                    PROVE  /\ state' \in [Callers -> {"new", "waiting"} \cup Ended]
                           /\ answer' \in [Callers -> Reply \cup {Nothing, Lost}]
BY DEF Settle, TypeOK

LEMMA CallerType == ASSUME TypeOK, NEW c \in Callers, Caller(c) PROVE TypeOK'
<1> USE DEF TypeOK, connVars, cliVars, callVars
<1>1. CASE Refuse(c)
  BY <1>1, SettleType DEF Refuse, Ended
<1>2. CASE Write(c)
  <2>1. pending' \subseteq Entry
    BY <1>2, IssuedType DEF Write, CorrId, Entry
  <2>2. commands' \subseteq Command
    BY <1>2, IssuedType DEF Write
  <2> QED BY <1>2, <2>1, <2>2 DEF Write
<1>3. CASE WriteFails(c)
  BY <1>3, SettleType DEF WriteFails, Ended
<1>4. CASE TimeOut(c)
  BY <1>4, SettleType DEF TimeOut, Ended
<1>5. CASE Return(c)
  <2>1. answer[c] \in Reply \cup {Lost}
    BY <1>5 DEF Return
  <2>2. OutcomeOf(answer[c]) \in Ended
    BY <2>1 DEF OutcomeOf, Reply, Lost, Ended
  <2> QED BY <1>5, <2>2, SettleType DEF Return
<1> QED BY <1>1, <1>2, <1>3, <1>4, <1>5 DEF Caller

LEMMA ReaderType == ASSUME TypeOK, Dispatch \/ ReaderEnds PROVE TypeOK'
<1> USE DEF TypeOK, connVars, cliVars, callVars
<1>1. CASE Dispatch
  <2>1. PICK r \in replies :
          /\ replies' = replies \ {r}
          /\ \/ \E p \in pending :
                  /\ p.corr = r.corr
                  /\ pending' = pending \ {p}
                  /\ answer' = IF answer[p.by] = Nothing
                               THEN [answer EXCEPT ![p.by] = r] ELSE answer
                  /\ UNCHANGED inbound
             \/ /\ \A p \in pending : p.corr # r.corr
                /\ Emit(ItemsOf(r))
                /\ UNCHANGED <<pending, answer>>
    BY <1>1 DEF Dispatch
  <2>2. answer' \in [Callers -> Reply \cup {Nothing, Lost}]
    BY <2>1
  <2>3. ItemsOf(r) \subseteq Item
    BY DEF ItemsOf, Item
  <2>4. inbound' \subseteq Item
    BY <2>1, <2>3 DEF Emit
  <2> QED BY <1>1, <2>1, <2>2, <2>4 DEF Dispatch
<1>2. CASE ReaderEnds
  BY <1>2 DEF ReaderEnds
<1> QED BY <1>1, <1>2

LEMMA CliType == ASSUME TypeOK, Handle \/ Lose PROVE TypeOK'
<1> USE DEF TypeOK, connVars, cliVars, callVars
<1>1. CASE Handle
  <2>1. PICK c \in commands, result \in {"ok", "error"} :
          /\ commands' = commands \ {c}
          /\ accepted' = IF result = "ok" /\ c.of \in Sends
                         THEN accepted \cup {c.of} ELSE accepted
          /\ replies' = IF wire = "open" /\ c.session = session
                        THEN replies \cup {[corr |-> CorrId(c), of |-> c.of, result |-> result]}
                        ELSE replies
    BY <1>1 DEF Handle
  <2>2. [corr |-> CorrId(c), of |-> c.of, result |-> result] \in Reply
    BY DEF CorrId, Command, Reply
  <2> QED BY <1>1, <2>1, <2>2 DEF Handle
<1>2. CASE Lose
  BY <1>2 DEF Lose, LoseWire
<1> QED BY <1>1, <1>2

LEMMA RunType == ASSUME TypeOK, Connect \/ ConnectFails \/ Connection PROVE TypeOK'
<1> USE DEF TypeOK, connVars, cliVars, callVars
<1> Run \in Callers
  BY DEF Callers
<1>1. CASE Connect
  <2>1. session' \in Sessions
    BY <1>1, SimplexAssumption DEF Connect, Sessions
  <2> QED BY <1>1, <2>1, SettleType DEF Connect
<1>2. CASE ConnectFails
  BY <1>2 DEF ConnectFails
<1>3. CASE SetUp
  BY <1>3, SettleType DEF SetUp
<1>4. CASE LoopEnds
  BY <1>4 DEF LoopEnds, TakeDown
<1>5. CASE SessionClosed
  BY <1>5 DEF SessionClosed, FailPending
<1>6. CASE Retry
  BY <1>6 DEF Retry
<1> QED BY <1>1, <1>2, <1>3, <1>4, <1>5, <1>6 DEF Connection

LEMMA CloseType == ASSUME TypeOK, Close \/ CloseUnconnected \/ SocketClosed PROVE TypeOK'
<1> USE DEF TypeOK, connVars, cliVars, callVars
<1>1. CASE Close
  BY <1>1 DEF Close, LoseWire
<1>2. CASE CloseUnconnected \/ SocketClosed
  <2>1. Cancel
    BY <1>2 DEF CloseUnconnected, SocketClosed
  <2>2. /\ state' \in [Callers -> {"new", "waiting"} \cup Ended]
        /\ answer' \in [Callers -> Reply \cup {Nothing, Lost}]
    BY <2>1, SettleType DEF Cancel, Callers, Ended
  <2>3. skipped' \in BOOLEAN
    <3>1. CASE UNCHANGED skipped
      BY <3>1
    <3>2. CASE skipped' = (skipped \/ run = "closing")
      BY <3>2, Zenon
    <3> QED BY <2>1, <3>1, <3>2, Zenon DEF Cancel
  <2>4. /\ up' \in BOOLEAN /\ reading' \in BOOLEAN
        /\ run' \in {"closing", "ended"} /\ stage' \in 1..3
        /\ replies' \subseteq Reply
    <3>1. CASE run \in {"connecting", "setup", "reading"} /\ TakeDown /\ stage' = 1
      BY <3>1, 1 \in 1..3 DEF TakeDown
    <3>2. CASE run' = "ended" /\ UNCHANGED <<stage, up, reading, replies>>
      BY <3>2
    <3> QED BY <2>1, <3>1, <3>2 DEF Cancel
  <2>5. closer' = "done" /\ UNCHANGED <<pending, wire, session, commands, accepted, inbound>>
    BY <1>2, <2>1 DEF CloseUnconnected, SocketClosed, Cancel
  <2> QED BY <2>2, <2>3, <2>4, <2>5
<1> QED BY <1>1, <1>2

LEMMA TypeStep == TypeOK /\ [Next]_vars => TypeOK'
<1> SUFFICES ASSUME TypeOK, [Next]_vars PROVE TypeOK'
  OBVIOUS
<1>1. CASE UNCHANGED vars
  BY <1>1 DEF TypeOK, vars, connVars, cliVars, callVars
<1>2. CASE Next
  BY <1>2, CallerType, ReaderType, CliType, RunType, CloseType DEF Next
<1> QED BY <1>1, <1>2

LEMMA TypeInit == Init => TypeOK
<1> SUFFICES ASSUME Init PROVE TypeOK
  OBVIOUS
<1>1. state \in [Callers -> {"new", "waiting"} \cup Ended]
  BY DEF Init, Ended
<1>2. answer \in [Callers -> Reply \cup {Nothing, Lost}]
  BY DEF Init
<1>3. session \in Sessions
  BY SimplexAssumption DEF Init, Sessions
<1>4. stage \in 1..3
  BY DEF Init
<1> QED BY <1>1, <1>2, <1>3, <1>4 DEF Init, TypeOK

(* Every variable keeps to its type (all of sx_bot_manager.py:62-272).     *)
THEOREM TypeCorrect == Spec => []TypeOK
BY TypeInit, TypeStep, PTL DEF Spec

-----------------------------------------------------------------------------
(* The inductive invariant.                                                *)

(* The corrId names whose command it was, on its way out and back.         *)
IdsNameTheirCaller ==
  /\ \A p \in pending : p.corr.of = p.by
  /\ \A r \in replies : r.corr.of = r.of

(* A send is accepted once, and only an accepted one is answered ok.       *)
Honest ==
  /\ \A r \in replies : r.result = "ok" /\ r.of \in Sends => r.of \in accepted
  /\ \A s \in Sends : answer[s] \in Reply /\ answer[s].result = "ok" => s \in accepted
  /\ \A c \in commands : c.of \in Sends =>
       /\ state[c.of] # "new" /\ c.of \notin accepted
       /\ \A d \in commands : d.of = c.of => d = c
  /\ \A s \in accepted : state[s] # "new"

(* How the states of the connection, of _run() and of close() go together. *)
Phases ==
  /\ up => run \in {"setup", "reading"}
  /\ reading => up
  /\ closer = "done" => run \in {"closing", "ended"}
  /\ skipped => run = "ended" /\ closer = "done"
  /\ state[Run] \in {"new", "waiting"} => run = "setup"

(* Whoever waits is either pending or answered; _fail_pending left nobody. *)
Covered ==
  /\ \A p \in pending : answer[p.by] = Nothing
  /\ \A c \in Callers : state[c] = "new" => answer[c] = Nothing
  /\ \A c \in Callers : state[c] = "waiting" /\ answer[c] = Nothing =>
       \E p \in pending : p.by = c
  /\ run \in {"sleeping", "connecting", "ended"} /\ ~skipped => pending = {}

IInv == TypeOK /\ IdsNameTheirCaller /\ RepliesMatch /\ Honest /\ Phases
        /\ PendingIsAwaited /\ Covered

LEMMA InvInit == Init => IInv
<1> SUFFICES ASSUME Init PROVE IInv
  OBVIOUS
<1>1. TypeOK
  BY TypeInit
<1>2. \A c \in Callers : answer[c] = Nothing /\ answer[c] \notin Reply
  BY DEF Init, Nothing, Reply
<1>3. \A c \in Callers : state[c] # "waiting"
  BY DEF Init
<1>4. Run \in Callers /\ Sends \subseteq Callers
  BY DEF Callers
<1>5. IdsNameTheirCaller /\ PendingIsAwaited
  BY DEF Init, IdsNameTheirCaller, PendingIsAwaited
<1>6. RepliesMatch
  BY <1>2 DEF RepliesMatch
<1>7. Honest
  BY <1>2, <1>4 DEF Init, Honest
<1>8. Phases
  BY <1>4 DEF Init, Phases
<1>9. Covered
  BY <1>2, <1>3 DEF Init, Covered
<1> QED BY <1>1, <1>5, <1>6, <1>7, <1>8, <1>9 DEF IInv

LEMMA CallerInv == ASSUME IInv, NEW c \in Callers, Caller(c) PROVE IInv'
<1> USE DEF IInv
<1>0. TypeOK'
  BY CallerType
<1>a. Run \in Callers /\ Sends \subseteq Callers
  BY DEF Callers
<1>b. ASSUME NEW o \in Ended, Settle(c, o)
      PROVE  /\ state' = [state EXCEPT ![c] = o]
             /\ answer' = [answer EXCEPT ![c] = Nothing]
             /\ Nothing \notin Reply
  BY <1>b DEF Settle, Nothing, Reply
<1>1. CASE Refuse(c) \/ WriteFails(c)
  <2>1. /\ state[c] = "new"
        /\ Settle(c, "transient")
        /\ UNCHANGED <<pending, connVars, cliVars, inbound>>
    BY <1>1 DEF Refuse, WriteFails
  <2>2. /\ state' = [state EXCEPT ![c] = "transient"]
        /\ answer' = [answer EXCEPT ![c] = Nothing]
        /\ Nothing \notin Reply
    BY <2>1, <1>b DEF Ended
  <2>3. IdsNameTheirCaller' /\ RepliesMatch' /\ Honest'
    BY <2>1, <2>2, <1>a DEF IdsNameTheirCaller, RepliesMatch, Honest, TypeOK, cliVars, connVars
  <2>4. Phases' /\ PendingIsAwaited' /\ Covered'
    BY <2>1, <2>2, <1>a DEF Phases, PendingIsAwaited, Covered, TypeOK, connVars, Entry
  <2> QED BY <1>0, <2>3, <2>4
<1>2. CASE Write(c)
  <2>1. PICK id \in Command :
          /\ id = Issued(c)
          /\ pending' = {p \in pending : p.corr # id} \cup {[corr |-> id, by |-> c]}
    BY <1>2, IssuedType DEF Write, CorrId
  <2>2. id.of = c
    BY <2>1 DEF Issued
  <2>3. \A p \in pending : p.by # c
    BY <1>2 DEF Write, PendingIsAwaited, Phases
  <2>4. pending' = pending \cup {[corr |-> id, by |-> c]}
    BY <2>1, <2>2, <2>3 DEF IdsNameTheirCaller
  <2>5. IdsNameTheirCaller' /\ RepliesMatch'
    BY <1>2, <2>4, <2>2 DEF Write, IdsNameTheirCaller, RepliesMatch, connVars
  <2>6. Honest'
    <3>1. commands' \in {commands, commands \cup {id}}
      BY <1>2, <2>1 DEF Write
    <3>2. \A d \in commands : d.of \in Sends => d.of # c
      BY <1>2 DEF Write, Honest
    <3>3. c \in Sends => c \notin accepted
      BY <1>2 DEF Write, Honest
    <3> QED BY <1>2, <2>2, <3>1, <3>2, <3>3, <1>a DEF Write, Honest, TypeOK
  <2>7. Phases'
    BY <1>2 DEF Write, Phases, TypeOK, connVars
  <2>8. PendingIsAwaited'
    BY <1>2, <2>3, <2>4, <1>a DEF Write, PendingIsAwaited, TypeOK, connVars, Entry
  <2>9. Covered'
    <3>1. answer' = answer /\ state' = [state EXCEPT ![c] = "waiting"] /\ answer[c] = Nothing
      BY <1>2 DEF Write, Covered
    <3>2. run' = run /\ run \in {"setup", "reading"}
      BY <1>2 DEF Write, Phases, connVars
    <3>3. [corr |-> id, by |-> c] \in pending' /\ [corr |-> id, by |-> c].by = c
      BY <2>4
    <3>4. \A p \in pending' : answer'[p.by] = Nothing
      BY <2>4, <3>1 DEF Covered
    <3>5. \A d \in Callers \ {c} : state'[d] = state[d]
      BY <3>1 DEF TypeOK
    <3>6. \A d \in Callers : state'[d] = "waiting" /\ answer'[d] = Nothing =>
            \E p \in pending' : p.by = d
      BY <2>4, <3>1, <3>3, <3>5 DEF Covered
    <3>7. \A d \in Callers : state'[d] = "new" => answer'[d] = Nothing
      BY <3>1, <3>5 DEF Covered
    <3> QED BY <3>2, <3>4, <3>6, <3>7 DEF Covered
  <2> QED BY <1>0, <2>5, <2>6, <2>7, <2>8, <2>9
<1>3. CASE TimeOut(c)
  <2>2. /\ state' = [state EXCEPT ![c] = "transient"]
        /\ answer' = [answer EXCEPT ![c] = Nothing]
        /\ Nothing \notin Reply
    BY <1>3, <1>b DEF Ended, TimeOut
  <2>3. IdsNameTheirCaller' /\ RepliesMatch' /\ Honest'
    BY <1>3, <2>2, <1>a DEF TimeOut, IdsNameTheirCaller, RepliesMatch, Honest, TypeOK, cliVars
  <2>4. Phases' /\ PendingIsAwaited' /\ Covered'
    BY <1>3, <2>2, <1>a DEF TimeOut, Phases, PendingIsAwaited, Covered, TypeOK, connVars, Entry
  <2> QED BY <1>0, <2>3, <2>4
<1>4. CASE Return(c)
  <2>1. answer[c] \in Reply \cup {Lost} /\ answer[c] # Nothing
    BY <1>4 DEF Return, TypeOK
  <2>2. PICK o \in Ended : Settle(c, o)
    BY <1>4, <2>1 DEF Return, OutcomeOf, Reply, Lost, Ended
  <2>3. /\ state' = [state EXCEPT ![c] = o]
        /\ answer' = [answer EXCEPT ![c] = Nothing]
        /\ Nothing \notin Reply
    BY <2>2, <1>b
  <2>4. \A p \in pending : p.by # c
    BY <2>1 DEF Covered
  <2>5. IdsNameTheirCaller' /\ RepliesMatch' /\ Honest'
    BY <1>4, <2>3, <1>a DEF Return, IdsNameTheirCaller, RepliesMatch, Honest, TypeOK, cliVars, Ended
  <2>6. Phases' /\ PendingIsAwaited' /\ Covered'
    BY <1>4, <2>3, <2>4, <1>a DEF Return, Phases, PendingIsAwaited, Covered, TypeOK, connVars, Entry, Ended
  <2> QED BY <1>0, <2>5, <2>6
<1> QED BY <1>1, <1>2, <1>3, <1>4 DEF Caller


LEMMA DispatchInv == ASSUME IInv, Dispatch PROVE IInv'
<1> USE DEF IInv
<1>0. TypeOK'
  BY ReaderType
<1>a. Run \in Callers /\ Sends \subseteq Callers /\ Nothing \notin Reply
  BY DEF Callers, Nothing, Reply
<1>b. /\ UNCHANGED <<state, connVars, commands, accepted>>
      /\ reading /\ up /\ closer # "done"
  BY DEF Dispatch, Phases
<1>1. PICK r \in replies :
        /\ replies' = replies \ {r}
        /\ \/ \E p \in pending :
                /\ p.corr = r.corr
                /\ pending' = pending \ {p}
                /\ answer' = IF answer[p.by] = Nothing
                             THEN [answer EXCEPT ![p.by] = r] ELSE answer
                /\ UNCHANGED inbound
           \/ /\ \A p \in pending : p.corr # r.corr
              /\ Emit(ItemsOf(r))
              /\ UNCHANGED <<pending, answer>>
  BY DEF Dispatch
<1>2. CASE \E p \in pending : p.corr = r.corr
  <2>1. PICK p \in pending :
          /\ p.corr = r.corr
          /\ pending' = pending \ {p}
          /\ answer' = [answer EXCEPT ![p.by] = r]
    BY <1>1, <1>2 DEF Covered
  <2>2. r.of = p.by /\ p.by \in Callers /\ r \in Reply
    BY <2>1 DEF IdsNameTheirCaller, TypeOK, Entry
  <2>3. IdsNameTheirCaller' /\ RepliesMatch'
    BY <1>1, <2>1, <2>2, <1>b DEF IdsNameTheirCaller, RepliesMatch, TypeOK
  <2>4. Honest'
    BY <1>1, <2>1, <2>2, <1>b, <1>a DEF Honest, TypeOK
  <2>5. Phases' /\ PendingIsAwaited'
    BY <2>1, <1>b DEF Phases, PendingIsAwaited, connVars
  <2>6. state[p.by] = "waiting" /\ \A q \in pending : q.by = p.by => q = p
    BY <1>b DEF PendingIsAwaited, Phases
  <2>7. Covered'
    <3>1. \A q \in pending' : q.by # p.by /\ q \in pending
      BY <2>1, <2>6
    <3>2. \A c \in Callers \ {p.by} : answer'[c] = answer[c] /\ state'[c] = state[c]
      BY <2>1, <1>b DEF TypeOK
    <3>3. answer'[p.by] = r /\ state'[p.by] = "waiting" /\ r # Nothing
      BY <2>1, <2>2, <2>6, <1>b, <1>a DEF TypeOK
    <3>4. \A q \in pending' : answer'[q.by] = Nothing
      BY <3>1, <3>2 DEF Covered, TypeOK, Entry
    <3>5. \A c \in Callers : state'[c] = "new" => answer'[c] = Nothing
      BY <3>2, <3>3 DEF Covered
    <3>6. \A c \in Callers : state'[c] = "waiting" /\ answer'[c] = Nothing =>
            \E q \in pending' : q.by = c
      BY <2>1, <3>2, <3>3 DEF Covered
    <3>7. run' \in {"setup", "reading"}
      BY <1>b DEF Phases, connVars
    <3> QED BY <3>4, <3>5, <3>6, <3>7 DEF Covered
  <2> QED BY <1>0, <2>3, <2>4, <2>5, <2>7
<1>3. CASE \A p \in pending : p.corr # r.corr
  <2>1. UNCHANGED <<pending, answer>>
    BY <1>1, <1>3
  <2>2. IdsNameTheirCaller' /\ RepliesMatch' /\ Honest'
    BY <1>1, <2>1, <1>b DEF IdsNameTheirCaller, RepliesMatch, Honest
  <2>3. Phases' /\ PendingIsAwaited' /\ Covered'
    BY <2>1, <1>b DEF Phases, PendingIsAwaited, Covered, connVars
  <2> QED BY <1>0, <2>2, <2>3
<1> QED BY <1>2, <1>3

LEMMA CliInv == ASSUME IInv, Handle \/ Lose \/ ReaderEnds PROVE IInv'
<1> USE DEF IInv
<1>0. TypeOK'
  BY CliType, ReaderType
<1>1. CASE Handle
  <2>1. PICK c \in commands, result \in {"ok", "error"} :
          /\ commands' = commands \ {c}
          /\ accepted' = IF result = "ok" /\ c.of \in Sends
                         THEN accepted \cup {c.of} ELSE accepted
          /\ replies' = IF wire = "open" /\ c.session = session
                        THEN replies \cup {[corr |-> CorrId(c), of |-> c.of, result |-> result]}
                        ELSE replies
    BY <1>1 DEF Handle
  <2>2. UNCHANGED <<state, answer, pending>> /\ UNCHANGED connVars
    BY <1>1 DEF Handle, callVars
  <2>3. IdsNameTheirCaller' /\ RepliesMatch'
    BY <2>1, <2>2 DEF IdsNameTheirCaller, RepliesMatch, CorrId
  <2>4. Honest'
    BY <2>1, <2>2 DEF Honest
  <2>5. Phases' /\ PendingIsAwaited' /\ Covered'
    BY <2>2 DEF Phases, PendingIsAwaited, Covered, connVars
  <2> QED BY <1>0, <2>3, <2>4, <2>5
<1>2. CASE Lose \/ ReaderEnds
  <2>1. /\ UNCHANGED <<state, answer, pending, up, run, closer, skipped, accepted>>
        /\ commands' \subseteq commands /\ replies' \subseteq replies
        /\ reading' => reading
    BY <1>2 DEF Lose, LoseWire, ReaderEnds, callVars
  <2>2. IdsNameTheirCaller' /\ RepliesMatch' /\ Honest'
    BY <2>1 DEF IdsNameTheirCaller, RepliesMatch, Honest
  <2>3. Phases' /\ PendingIsAwaited' /\ Covered'
    BY <2>1 DEF Phases, PendingIsAwaited, Covered
  <2> QED BY <1>0, <2>2, <2>3
<1> QED BY <1>1, <1>2

LEMMA SettleRun == ASSUME IInv, NEW o \in {"new"} \cup Ended, Settle(Run, o)
                   PROVE  /\ Run \in Callers /\ Run \notin Sends /\ Sends \subseteq Callers
                          /\ state'[Run] = o /\ answer'[Run] = Nothing
                          /\ \A c \in Callers \ {Run} :
                               state'[c] = state[c] /\ answer'[c] = answer[c]
BY SimplexAssumption DEF Settle, IInv, TypeOK, Callers

LEMMA RunInv == ASSUME IInv, Connect \/ ConnectFails \/ Connection PROVE IInv'
<1> USE DEF IInv
<1>0. TypeOK'
  BY RunType
<1>a. Run \in Callers /\ Run \notin Sends /\ Sends \subseteq Callers
  BY SimplexAssumption DEF Callers
<1>b. Nothing \notin Reply /\ Lost \notin Reply /\ Lost # Nothing
  BY DEF Nothing, Lost, Reply
<1>1. CASE Connect \/ (SetUp /\ Settle(Run, "new"))
  <2>1. /\ UNCHANGED <<pending, closer, skipped, cliVars, inbound>>
        /\ run' = "setup" /\ (reading' => up')
        /\ run \in {"connecting", "setup"} /\ state[Run] # "waiting"
        /\ Settle(Run, "new")
    <3>1. CASE Connect
      BY <3>1 DEF Connect, Phases
    <3>2. CASE SetUp /\ Settle(Run, "new")
      <4>1. state' # state
        BY <3>2, <1>a DEF SetUp, Settle, Ended, TypeOK
      <4>2. run' = run /\ run = "setup"
        BY <3>2, <4>1 DEF SetUp
      <4> QED BY <3>2, <4>2 DEF SetUp, Phases, Ended
    <3> QED BY <1>1, <3>1, <3>2
  <2>2. closer # "done" /\ ~skipped
    BY <2>1 DEF Phases
  <2>3. \A p \in pending : p.by \in Callers \ {Run}
    BY <2>1, <2>2 DEF PendingIsAwaited, TypeOK, Entry
  <2>4. IdsNameTheirCaller' /\ RepliesMatch'
    BY <2>1, <1>b, SettleRun DEF IdsNameTheirCaller, RepliesMatch, cliVars
  <2>5. Honest'
    BY <2>1, <1>a, SettleRun DEF Honest, cliVars, TypeOK
  <2>6. Phases'
    BY <2>1, <2>2 DEF Phases
  <2>7. PendingIsAwaited'
    BY <2>1, <2>3, SettleRun DEF PendingIsAwaited
  <2>8. Covered'
    BY <2>1, <2>3, SettleRun DEF Covered
  <2> QED BY <1>0, <2>4, <2>5, <2>6, <2>7, <2>8
<1>2. CASE \/ ConnectFails \/ LoopEnds
           \/ SetUp /\ run' = "reading" /\ UNCHANGED <<state, answer>>
  <2>1. /\ UNCHANGED <<state, answer, pending, closer, skipped, commands, accepted>>
        /\ replies' \subseteq replies
        /\ state[Run] \in {"new", "waiting"} => FALSE
        /\ closer # "done" /\ ~skipped
        /\ run' \in {"closing", "reading"}
    BY <1>2 DEF ConnectFails, LoopEnds, TakeDown, SetUp, callVars, cliVars, Phases, Ended
  <2>2. (up' => run' = "reading") /\ (reading' => up')
    BY <1>2 DEF ConnectFails, LoopEnds, TakeDown, SetUp, Phases
  <2>3. IdsNameTheirCaller' /\ RepliesMatch' /\ Honest'
    BY <2>1 DEF IdsNameTheirCaller, RepliesMatch, Honest
  <2>4. Phases'
    BY <2>1, <2>2 DEF Phases
  <2>5. PendingIsAwaited' /\ Covered'
    BY <2>1 DEF PendingIsAwaited, Covered
  <2> QED BY <1>0, <2>3, <2>4, <2>5
<1>3. CASE SessionClosed
  <2>1. /\ UNCHANGED <<state, up, reading, closer, skipped, cliVars>>
        /\ pending' = {} /\ run = "closing" /\ run' \in {"ended", "sleeping"}
        /\ closer = "done" => run' = "ended"
        /\ answer' = [c \in Callers |->
                        IF (\E p \in pending : p.by = c) /\ answer[c] = Nothing
                        THEN Lost ELSE answer[c]]
    BY <1>3 DEF SessionClosed, FailPending, stopping
  <2>2. \A c \in Callers : answer'[c] = answer[c] \/ answer'[c] = Lost
    BY <2>1
  <2>3. IdsNameTheirCaller' /\ RepliesMatch'
    BY <2>1, <2>2, <1>b DEF IdsNameTheirCaller, RepliesMatch, cliVars
  <2>4. Honest'
    BY <2>1, <2>2, <1>a, <1>b DEF Honest, cliVars
  <2>5. Phases' /\ PendingIsAwaited'
    BY <2>1 DEF Phases, PendingIsAwaited
  <2>6. \A c \in Callers : state'[c] = "waiting" => answer'[c] # Nothing
    BY <2>1, <1>b DEF Covered
  <2>7. \A c \in Callers : state'[c] = "new" => answer'[c] = Nothing
    <3>1. ASSUME NEW c \in Callers, state[c] = "new" PROVE \A p \in pending : p.by # c
      BY <3>1, <2>1 DEF PendingIsAwaited, Phases
    <3> QED BY <2>1, <3>1 DEF Covered
  <2>8. Covered'
    BY <2>1, <2>6, <2>7 DEF Covered
  <2> QED BY <1>0, <2>3, <2>4, <2>5, <2>8
<1>4. CASE Retry
  <2>1. UNCHANGED <<state, answer, pending, up, reading, closer, skipped, cliVars>>
    BY <1>4 DEF Retry, callVars
  <2>2. /\ run = "sleeping" /\ run' \in {"ended", "connecting"}
        /\ closer = "done" => run' = "ended"
    BY <1>4 DEF Retry, stopping
  <2>3. IdsNameTheirCaller' /\ RepliesMatch' /\ Honest'
    BY <2>1 DEF IdsNameTheirCaller, RepliesMatch, Honest, cliVars
  <2>4. Phases' /\ PendingIsAwaited' /\ Covered'
    BY <2>1, <2>2 DEF Phases, PendingIsAwaited, Covered
  <2> QED BY <1>0, <2>3, <2>4
<1> QED
  <2>1. SetUp => \/ Settle(Run, "new")
                 \/ run' = "reading" /\ UNCHANGED <<state, answer>>
    BY DEF SetUp
  <2> QED BY <1>1, <1>2, <1>3, <1>4, <2>1 DEF Connection


LEMMA CloseInv == ASSUME IInv, Close \/ CloseUnconnected \/ SocketClosed PROVE IInv'
<1> USE DEF IInv
<1>0. TypeOK'
  BY CloseType
<1>1. CASE Close
  <2>1. /\ UNCHANGED <<state, answer, pending, up, run, reading, skipped, replies, accepted>>
        /\ commands' \subseteq commands /\ closer = "no" /\ closer' = "socket"
    BY <1>1 DEF Close, LoseWire, callVars
  <2>2. ~skipped
    BY <2>1 DEF Phases
  <2>3. IdsNameTheirCaller' /\ RepliesMatch' /\ Honest'
    BY <2>1 DEF IdsNameTheirCaller, RepliesMatch, Honest
  <2>4. Phases' /\ PendingIsAwaited' /\ Covered'
    BY <2>1, <2>2 DEF Phases, PendingIsAwaited, Covered
  <2> QED BY <1>0, <2>3, <2>4
<1>2. CASE CloseUnconnected \/ SocketClosed
  <2>1. /\ Cancel /\ closer # "done" /\ closer' = "done"
        /\ UNCHANGED <<pending, wire, session, commands, accepted, inbound>>
    BY <1>2 DEF CloseUnconnected, SocketClosed, Cancel
  <2>2. ~skipped
    BY <2>1 DEF Phases
  <2>3. CASE run \in {"connecting", "setup", "reading"}
    <3>1. /\ Settle(Run, "transient") /\ UNCHANGED skipped
          /\ up' = FALSE /\ reading' = FALSE /\ replies' = {} /\ run' = "closing"
      BY <2>1, <2>3 DEF Cancel, TakeDown
    <3>2. "transient" \in Ended
      BY DEF Ended
    <3>3. IdsNameTheirCaller' /\ RepliesMatch' /\ Honest'
      BY <2>1, <3>1, <3>2, SettleRun DEF IdsNameTheirCaller, RepliesMatch, Honest, TypeOK,
                                         Nothing, Reply
    <3>4. Phases' /\ PendingIsAwaited'
      BY <2>1, <2>2, <3>1, <3>2, SettleRun DEF Phases, PendingIsAwaited, TypeOK, Entry
    <3>5. Covered'
      BY <2>1, <2>2, <3>1, <3>2, SettleRun DEF Covered, TypeOK, Entry
    <3> QED BY <1>0, <3>3, <3>4, <3>5
  <2>4. CASE run \in {"closing", "sleeping", "ended"}
    <3>1. /\ run' = "ended" /\ skipped' = (skipped \/ run = "closing")
          /\ UNCHANGED <<state, answer, stage, up, reading, replies>>
      BY <2>1, <2>4 DEF Cancel, TakeDown
    <3>2. ~up /\ ~reading /\ state[Run] \notin {"new", "waiting"}
      BY <2>4 DEF Phases
    <3>3. run # "closing" => pending = {}
      BY <2>2, <2>4 DEF Covered
    <3>4. IdsNameTheirCaller' /\ RepliesMatch' /\ Honest'
      BY <2>1, <3>1 DEF IdsNameTheirCaller, RepliesMatch, Honest
    <3>5. Phases'
      BY <2>1, <3>1, <3>2 DEF Phases
    <3>6. PendingIsAwaited' /\ Covered'
      BY <2>1, <2>2, <3>1, <3>3 DEF PendingIsAwaited, Covered
    <3> QED BY <1>0, <3>4, <3>5, <3>6
  <2> QED BY <2>3, <2>4 DEF TypeOK
<1> QED BY <1>1, <1>2

LEMMA InvStep == IInv /\ [Next]_vars => IInv'
<1> SUFFICES ASSUME IInv, [Next]_vars PROVE IInv'
  OBVIOUS
<1>1. CASE UNCHANGED vars
  BY <1>1 DEF IInv, TypeOK, IdsNameTheirCaller, RepliesMatch, Honest, Phases, PendingIsAwaited,
              Covered, vars, connVars, cliVars, callVars
<1>2. CASE Next
  BY <1>2, CallerInv, DispatchInv, CliInv, RunInv, CloseInv DEF Next
<1> QED BY <1>1, <1>2

(* Every caller gets the reply to its own command (sx_bot_manager.py:54).  *)
THEOREM RepliesAlwaysMatch == Spec => []RepliesMatch
<1>1. IInv => RepliesMatch
  BY DEF IInv
<1> QED BY <1>1, InvInit, InvStep, PTL DEF Spec

(* No call leaves its future in _pending (sx_bot_manager.py:112, 118).     *)
THEOREM PendingAlwaysAwaited == Spec => []PendingIsAwaited
<1>1. IInv => PendingIsAwaited
  BY DEF IInv
<1> QED BY <1>1, InvInit, InvStep, PTL DEF Spec

(* After the end of a connection no call is left waiting for it, unless    *)
(* close() interrupted the clean-up (sx_bot_manager.py:187-195).           *)
THEOREM NobodyEverWaitsInVain == Spec => []NobodyWaitsInVain
<1>1. IInv => NobodyWaitsInVain
  BY DEF IInv, Covered, NobodyWaitsInVain
<1> QED BY <1>1, InvInit, InvStep, PTL DEF Spec

-----------------------------------------------------------------------------
(* Echoes.                                                                 *)

LEMMA NoEchoStep == NoEcho /\ [Next]_vars => NoEcho'
<1> SUFFICES ASSUME NoEcho, [Next]_vars PROVE NoEcho'
  OBVIOUS
<1>1. CASE Dispatch
  <2>1. \A r \in replies : {i \in ItemsOf(r) : Forwarded(i)} = {}
    BY DEF ItemsOf, Forwarded
  <2> QED BY <1>1, <2>1 DEF Dispatch, Emit, NoEcho
<1>2. CASE UNCHANGED inbound
  BY <1>2 DEF NoEcho
<1>3. ASSUME NEW c \in Callers, Caller(c) PROVE UNCHANGED inbound
  BY <1>3 DEF Caller, Refuse, Write, WriteFails, TimeOut, Return
<1>4. ASSUME ReaderEnds \/ Handle \/ Lose \/ Close PROVE UNCHANGED inbound
  BY <1>4 DEF ReaderEnds, Handle, Lose, Close
<1>5. ASSUME CloseUnconnected \/ SocketClosed PROVE UNCHANGED inbound
  BY <1>5 DEF CloseUnconnected, SocketClosed
<1>6. ASSUME Connect \/ ConnectFails \/ Connection PROVE UNCHANGED inbound
  BY <1>6 DEF Connect, ConnectFails, Connection, SetUp, LoopEnds, SessionClosed, Retry
<1> QED BY <1>1, <1>2, <1>3, <1>4, <1>5, <1>6 DEF Next, vars

(* No message of the bot comes back as one of a user, not even by a reply  *)
(* that comes after its timeout (sx_bot_manager.py:221, 246).              *)
THEOREM NeverAnEcho == Spec => []NoEcho
<1>1. Init => NoEcho
  BY DEF Init, NoEcho
<1> QED BY <1>1, NoEchoStep, PTL DEF Spec

-----------------------------------------------------------------------------
(* The refinement of RequestReply.                                         *)

Made == {s \in Sends : state[s] # "new"}
Told == [s \in Sends |-> IF state[s] \in Ended THEN state[s] ELSE "none"]

LEMMA PromiseStutters ==
  ASSUME IInv, UNCHANGED accepted, \A s \in Sends : state'[s] = state[s]
  PROVE  Made' = Made /\ Told' = Told /\ UNCHANGED Promise!absVars
<1>1. Made' = Made /\ Told' = Told
  BY DEF Made, Told
<1> QED BY <1>1 DEF Promise!absVars, Made, Told

LEMMA SendMoves ==
  ASSUME IInv, NEW s \in Sends, NEW o \in {"waiting"} \cup Ended,
         state' = [state EXCEPT ![s] = o]
  PROVE  /\ Made' = Made \cup {s}
         /\ Told' = [Told EXCEPT ![s] = IF o \in Ended THEN o ELSE "none"]
         /\ "new" \notin Ended /\ "waiting" \notin Ended
BY DEF IInv, TypeOK, Made, Told, Callers, Ended

LEMMA CallerPromise == ASSUME IInv, NEW c \in Callers, Caller(c)
                       PROVE  Promise!Next \/ UNCHANGED Promise!absVars
<1>0. UNCHANGED accepted
  BY DEF Caller, Refuse, Write, WriteFails, TimeOut, Return, cliVars
<1>1. CASE c = Run
  <2>1. \E o : state' = [state EXCEPT ![Run] = o]
    BY <1>1 DEF Caller, Refuse, Write, WriteFails, TimeOut, Return, Settle
  <2>2. \A s \in Sends : state'[s] = state[s]
    BY <2>1, SimplexAssumption DEF IInv, TypeOK, Callers
  <2> QED BY <1>0, <2>2, PromiseStutters
<1>2. CASE c \in Sends /\ (Refuse(c) \/ WriteFails(c))
  <2>1. state[c] = "new" /\ state' = [state EXCEPT ![c] = "transient"]
    BY <1>2 DEF Refuse, WriteFails, Settle
  <2>2. Made' = Made \cup {c} /\ Told' = [Told EXCEPT ![c] = "transient"] /\ c \notin Made
    BY <1>2, <2>1, SendMoves DEF Ended, Made
  <2> QED BY <1>0, <1>2, <2>2 DEF Promise!Next, Promise!Doubt, Promise!Refuse, Made, Told
<1>3. CASE c \in Sends /\ Write(c)
  <2>1. state[c] = "new" /\ state' = [state EXCEPT ![c] = "waiting"]
    BY <1>3 DEF Write
  <2>2. Made' = Made \cup {c} /\ Told' = [Told EXCEPT ![c] = "none"] /\ c \notin Made
    BY <1>3, <2>1, SendMoves DEF Made
  <2>3. Told' = Told
    BY <1>3, <2>1, <2>2 DEF Told, Ended
  <2> QED BY <1>0, <1>3, <2>2, <2>3 DEF Promise!Next, Promise!Doubt, Promise!Make, Made, Told
<1>4. CASE c \in Sends /\ (TimeOut(c) \/ Return(c))
  <2>1. PICK o \in Ended : /\ state' = [state EXCEPT ![c] = o]
                           /\ o = "ok" => c \in accepted
    <3>1. CASE TimeOut(c)
      BY <3>1 DEF TimeOut, Settle, Ended
    <3>2. CASE Return(c)
      <4>1. answer[c] \in Reply \cup {Lost} /\ c \in Callers
        BY <3>2 DEF Return, IInv, TypeOK
      <4>2. OutcomeOf(answer[c]) \in Ended
        BY <4>1 DEF OutcomeOf, Reply, Lost, Ended
      <4>3. OutcomeOf(answer[c]) = "ok" => answer[c] \in Reply /\ answer[c].result = "ok"
        BY <4>1 DEF OutcomeOf, Reply, Lost
      <4>4. OutcomeOf(answer[c]) = "ok" => c \in accepted
        BY <1>4, <4>3 DEF IInv, Honest
      <4> QED BY <3>2, <4>2, <4>4 DEF Return, Settle
    <3> QED BY <1>4, <3>1, <3>2
  <2>2. state[c] = "waiting"
    BY <1>4 DEF TimeOut, Return
  <2>3. Made' = Made \cup {c} /\ Told' = [Told EXCEPT ![c] = o]
    BY <1>4, <2>1, SendMoves
  <2>4. c \in Made /\ Told[c] = "none" /\ Made' = Made
    BY <1>4, <2>2, <2>3 DEF Made, Told, Ended
  <2> QED BY <1>0, <1>4, <2>1, <2>3, <2>4 DEF Promise!Next, Promise!Doubt, Promise!Tell, Made, Told
<1> QED BY <1>1, <1>2, <1>3, <1>4 DEF Caller, Callers

LEMMA HandlePromise == ASSUME IInv, Handle PROVE Promise!Next \/ UNCHANGED Promise!absVars
<1>1. UNCHANGED state
  BY DEF Handle, callVars
<1>2. PICK c \in commands : accepted' = accepted \/ (c.of \in Sends /\ accepted' = accepted \cup {c.of})
  BY DEF Handle
<1>3. CASE accepted' = accepted
  BY <1>1, <1>3, PromiseStutters
<1>4. CASE c.of \in Sends /\ accepted' = accepted \cup {c.of}
  <2>1. c.of \in Made \ accepted
    BY <1>4 DEF IInv, Honest, Made
  <2>2. Made' = Made /\ Told' = Told
    BY <1>1 DEF Made, Told
  <2> QED BY <1>4, <2>1, <2>2 DEF Promise!Next, Promise!Doubt, Promise!Perform, Made, Told
<1> QED BY <1>2, <1>3, <1>4

LEMMA PromiseStep == ASSUME IInv, [Next]_vars PROVE [Promise!Next]_(Promise!absVars)
<1>1. ASSUME NEW c \in Callers, Caller(c) PROVE Promise!Next \/ UNCHANGED Promise!absVars
  BY <1>1, CallerPromise
<1>2. CASE Handle
  BY <1>2, HandlePromise
<1>3. CASE Dispatch \/ ReaderEnds \/ Lose \/ Close \/ UNCHANGED vars
  <2>1. UNCHANGED <<state, accepted>>
    BY <1>3 DEF Dispatch, ReaderEnds, Lose, Close, vars, callVars, cliVars
  <2> QED BY <2>1, PromiseStutters
<1>4. CASE Connect \/ ConnectFails \/ Connection \/ CloseUnconnected \/ SocketClosed
  <2>1. UNCHANGED accepted
    BY <1>4 DEF Connect, ConnectFails, Connection, SetUp, LoopEnds, SessionClosed, Retry,
                CloseUnconnected, SocketClosed, cliVars
  <2>2. UNCHANGED state \/ Settle(Run, "new") \/ Settle(Run, "transient")
    BY <1>4 DEF Connect, ConnectFails, Connection, SetUp, LoopEnds, SessionClosed, Retry,
                CloseUnconnected, SocketClosed, Cancel, callVars
  <2>3. \A s \in Sends : state'[s] = state[s]
    BY <2>2, SettleRun DEF Ended
  <2> QED BY <2>1, <2>3, PromiseStutters
<1> QED BY <1>1, <1>2, <1>3, <1>4 DEF Next

LEMMA PromiseInit == Init => Promise!Init
<1> SUFFICES ASSUME Init PROVE Promise!Init
  OBVIOUS
<1>1. \A s \in Sends : state[s] = "new"
  BY SimplexAssumption DEF Init, Callers
<1> QED BY <1>1 DEF Init, Promise!Init, Ended

(* The connection implements RequestReply: ok is only said of a send that  *)
(* the CLI accepted (sx_transport.py:26-43, sx_bot_manager.py:100-120).    *)
THEOREM ConnectionKeepsPromise == Spec => KeepsPromise
<1>1. IInv /\ [Next]_vars => [Promise!Next]_(Promise!absVars)
  BY PromiseStep
<1> QED BY <1>1, PromiseInit, InvInit, InvStep, PTL DEF Spec, KeepsPromise, Promise!Spec

=============================================================================
