---------------------------- MODULE SignalBridge ---------------------------
(***************************************************************************)
(* One SignalBridgeConnection and the signal-bridge daemon behind it.  A   *)
(* send holds the lock from the write of its command to the end of its     *)
(* wait; replies carry nothing that says whose they are and resolve the    *)
(* oldest pending future.  The daemon serves one TCP session at a time and *)
(* its commands in order.  Connections drop.  The wait for a result may    *)
(* time out at any moment; the wait for the command to be written has no   *)
(* timeout, and holds the lock as well.                                    *)
(***************************************************************************)
EXTENDS Integers, Sequences

CONSTANTS
  Sends,        \* calls of send()
  Drops,        \* how many connections may be lost
  None          \* no send

ASSUME SignalBridgeAssumption ==
  /\ None \notin Sends
  /\ Drops \in Nat

VARIABLES
  state,      \* where each call of send() is, or what came of it
  opened,     \* the session each call wrote its command in
  answer,     \* what its future was resolved with
  holder,     \* who holds _send_lock
  pending,    \* the futures in _pending, oldest first
  up,         \* _connected is set and _writer is there
  session,    \* sessions so far
  stopping,   \* close() was called
  commands,   \* command lines the bridge has not acted on
  replies,    \* result lines the client has not read
  accepted    \* sends that Signal has accepted

vars == <<state, opened, answer, holder, pending, up, session, stopping,
          commands, replies, accepted>>

Sessions == 0..(Drops + 1)
Reply == [of : Sends, session : Sessions, ok : BOOLEAN]
NoAnswer == [of |-> None, session |-> 0, ok |-> FALSE]
Command == [of : Sends, session : Sessions]

InFlight(s) == state[s] \in {"writing", "awaiting"}
Unresolved(s) == answer[s] = NoAnswer

-----------------------------------------------------------------------------
(* send().                                                                 *)

(* The lock is free: a call that finds no connection gives up at once.     *)
Refuse(s) ==
  /\ state[s] = "new" /\ holder = None
  /\ ~up
  /\ state' = [state EXCEPT ![s] = "transient"]
  /\ UNCHANGED <<opened, answer, holder, pending, up, session, stopping,
                 commands, replies, accepted>>

Write(s) ==
  /\ state[s] = "new" /\ holder = None
  /\ up
  /\ holder' = s
  /\ pending' = Append(pending, s)
  /\ commands' = Append(commands, [of |-> s, session |-> session])
  /\ opened' = [opened EXCEPT ![s] = session]
  /\ state' = [state EXCEPT ![s] = "writing"]
  /\ UNCHANGED <<answer, up, session, stopping, replies, accepted>>

(* The daemon, or the network's buffers, have taken the command: the drain *)
(* returns no earlier, and there is no timeout on it.                      *)
Drain(s) ==
  /\ state[s] = "writing"
  /\ state' = [state EXCEPT ![s] = "awaiting"]
  /\ UNCHANGED <<opened, answer, holder, pending, up, session, stopping,
                 commands, replies, accepted>>

(* Mutant: the future of a call that gave up stays in _pending.            *)
DiscardNothing(s) == UNCHANGED pending

(* deque.remove: the first such future goes, if there is one.              *)
Discard(s) ==
  \/ UNCHANGED pending /\ \A i \in 1..Len(pending) : pending[i] # s
  \/ \E i \in 1..Len(pending) :
       /\ pending[i] = s /\ \A j \in 1..i - 1 : pending[j] # s
       /\ pending' = SubSeq(pending, 1, i - 1) \o SubSeq(pending, i + 1, Len(pending))

GiveUp(s) ==
  /\ Discard(s)
  /\ holder' = None
  /\ state' = [state EXCEPT ![s] = "transient"]
  /\ UNCHANGED <<opened, answer, up, session, stopping, commands, replies, accepted>>

(* Its connection is gone while it drains.                                 *)
DrainFails(s) ==
  /\ state[s] = "writing"
  /\ ~up \/ session # opened[s]
  /\ GiveUp(s)

(* Mutant: the timer goes on after the call has returned.                  *)
TimeOutLate(s) ==
  /\ state[s] \in {"awaiting", "ok", "fatal"}
  /\ GiveUp(s)

(* Also when the answer is there but the call has not been resumed yet.    *)
TimeOut(s) ==
  /\ state[s] = "awaiting"
  /\ GiveUp(s)


(* The future is resolved: a lost connection is a TransientError, a result *)
(* that is not ok a FatalError.                                            *)
Lost == [of |-> None, session |-> 0, ok |-> TRUE]
Return(s) ==
  /\ state[s] = "awaiting" /\ ~Unresolved(s)
  /\ state' = [state EXCEPT ![s] =
                 CASE answer[s] = Lost -> "transient"
                   [] answer[s] # Lost /\ answer[s].ok -> "ok"
                   [] answer[s] # Lost /\ ~answer[s].ok -> "fatal"]
  /\ holder' = None
  /\ UNCHANGED <<opened, answer, pending, up, session, stopping,
                 commands, replies, accepted>>

-----------------------------------------------------------------------------
(* _run() and _read_loop().                                                *)

Connect ==
  /\ ~up /\ ~stopping /\ session < Drops + 1
  /\ up' = TRUE
  /\ session' = session + 1
  /\ UNCHANGED <<state, opened, answer, holder, pending, stopping,
                 commands, replies, accepted>>

(* _resolve_pending: the oldest future gets the result; with none pending  *)
(* it is dropped.                                                          *)
ReadResult ==
  /\ up /\ replies # <<>>
  /\ replies' = Tail(replies)
  /\ IF pending = <<>>
     THEN UNCHANGED <<pending, answer>>
     ELSE /\ pending' = Tail(pending)
          /\ answer' = IF Unresolved(Head(pending))
                       THEN [answer EXCEPT ![Head(pending)] = Head(replies)]
                       ELSE answer
  /\ UNCHANGED <<state, opened, holder, up, session, stopping, commands, accepted>>

(* _fail_pending.                                                          *)
FailPending ==
  /\ pending' = <<>>
  /\ answer' = [s \in Sends |->
                  IF \E i \in 1..Len(pending) : pending[i] = s /\ Unresolved(s)
                  THEN Lost ELSE answer[s]]

(* EOF or an error ends the session: result lines not read yet are lost;   *)
(* of the command lines the bridge may have got any prefix.                *)
HangUp ==
  /\ up' = FALSE
  /\ FailPending
  /\ replies' = <<>>
  /\ \E n \in 0..Len(commands) : commands' = SubSeq(commands, 1, n)
  /\ UNCHANGED <<state, opened, holder, session, accepted>>

Drop ==
  /\ up /\ session <= Drops
  /\ HangUp
  /\ UNCHANGED stopping

(* close() cancels _run() wherever it is.                                  *)
Close ==
  /\ ~stopping
  /\ stopping' = TRUE
  /\ HangUp

-----------------------------------------------------------------------------
(* The daemon: handle_command on the next line, which may be one of a      *)
(* session that has ended; then its result goes nowhere.                   *)

(* Mutant: results go to the present connection, whoever asked.            *)
HandleForPresent ==
  /\ commands # <<>>
  /\ commands' = Tail(commands)
  /\ \E ok \in BOOLEAN, sent \in BOOLEAN :
       /\ ok => sent
       /\ accepted' = IF sent THEN accepted \cup {Head(commands).of} ELSE accepted
       /\ replies' = IF up
                     THEN Append(replies, [of |-> Head(commands).of,
                                           session |-> Head(commands).session, ok |-> ok])
                     ELSE replies
  /\ UNCHANGED <<state, opened, answer, holder, pending, up, session, stopping>>

(* A failed send may have reached some of the recipient's devices.         *)
Handle ==
  /\ commands # <<>>
  /\ commands' = Tail(commands)
  /\ \E ok \in BOOLEAN, sent \in BOOLEAN :
       /\ ok => sent
       /\ accepted' = IF sent THEN accepted \cup {Head(commands).of} ELSE accepted
       /\ replies' = IF up /\ Head(commands).session = session
                     THEN Append(replies, [of |-> Head(commands).of,
                                           session |-> session, ok |-> ok])
                     ELSE replies
  /\ UNCHANGED <<state, opened, answer, holder, pending, up, session, stopping>>

-----------------------------------------------------------------------------
Init ==
  /\ state = [s \in Sends |-> "new"]
  /\ opened = [s \in Sends |-> 0]
  /\ answer = [s \in Sends |-> NoAnswer]
  /\ holder = None
  /\ pending = <<>> /\ commands = <<>> /\ replies = <<>>
  /\ up = FALSE /\ stopping = FALSE
  /\ session = 0
  /\ accepted = {}

(* What a caller does once the event loop, or a timer, resumes it.         *)
Resumed(s) == Refuse(s) \/ Write(s) \/ DrainFails(s) \/ TimeOut(s) \/ Return(s)

Caller(s) == Resumed(s) \/ Drain(s)

Next ==
  \/ \E s \in Sends : Caller(s)
  \/ Connect \/ ReadResult \/ Drop \/ Close \/ Handle

Spec == Init /\ [][Next]_vars

(* The event loop runs the callers and their timers.  Nothing is assumed   *)
(* of the daemon, of Signal or of the network: not even that what is       *)
(* written is read.                                                        *)
FairSpec == Spec /\ \A s \in Sends : WF_vars(Resumed(s))

-----------------------------------------------------------------------------
TypeOK ==
  /\ state \in [Sends -> {"new", "writing", "awaiting", "ok", "fatal", "transient"}]
  /\ opened \in [Sends -> Sessions]
  /\ answer \in [Sends -> Reply \cup {NoAnswer, Lost}]
  /\ holder \in Sends \cup {None}
  /\ pending \in Seq(Sends) /\ commands \in Seq(Command) /\ replies \in Seq(Reply)
  /\ up \in BOOLEAN /\ stopping \in BOOLEAN
  /\ session \in Sessions
  /\ accepted \subseteq Sends

(* At most one future is pending, and it is that of the call that holds    *)
(* the lock: no call leaves its future behind for another's result.        *)
PendingIsTheHolder ==
  /\ Len(pending) <= 1
  /\ \A i \in 1..Len(pending) : pending[i] = holder
  /\ \A s \in Sends : holder = s <=> InFlight(s)

(* Every call gets its own result (sig_bot_manager.py:42-44).              *)
RepliesMatch == \A s \in Sends : answer[s].of \in {None, s}

(* A call that gave up waiting leaves the rest of its session in doubt.    *)
InDoubt(s) == \E t \in Sends \ {s} : state[t] = "transient" /\ opened[t] = opened[s]

(* A call returns ok only for a message Signal has accepted, so that the   *)
(* worker deletes no row of an undelivered one, unless a call of the same  *)
(* session has given up before (sig_transport.py:42-51).                   *)
OkMeansAccepted == \A s \in Sends : state[s] = "ok" => s \in accepted \/ InDoubt(s)

(* Results go astray only within a session, and only after some call of    *)
(* that session has given up waiting; from then on every call may get the  *)
(* result of the one before it.  A new session starts clean, and with no   *)
(* timeout every call gets its own result (sig_bot_manager.py:193-203).    *)
StrayRepliesFollowATimeout ==
  \A s \in Sends : answer[s].of \notin {None, s} =>
    /\ answer[s].session = opened[s]
    /\ ~InFlight(answer[s].of) /\ opened[answer[s].of] = opened[s]
    /\ InDoubt(s)

(* The connection keeps the promise of RequestReply with the exception of  *)
(* the calls in doubt: ok is only said of a send that Signal has accepted, *)
(* what a caller was told stays, and nobody is in doubt before another     *)
(* call has given up in his session (sig_transport.py:32-51).              *)
Outcomes == {"ok", "fatal", "transient"}
Promise == INSTANCE RequestReply WITH
  Calls <- Sends,
  made <- {s \in Sends : state[s] # "new"},
  performed <- accepted,
  outcome <- [s \in Sends |-> IF state[s] \in Outcomes THEN state[s] ELSE "none"],
  doubted <- {s \in Sends : opened[s] # 0 /\ InDoubt(s)}
KeepsPromise == Promise!Spec

(* A command that was written is read, or its connection is lost.          *)
BridgeReads == \A s \in Sends : WF_vars(Drain(s))

Broken(s) == state[s] = "writing" /\ ~(up /\ session = opened[s])


=============================================================================
