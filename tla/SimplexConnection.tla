------------------------- MODULE SimplexConnection -------------------------
(***************************************************************************)
(* One SimplexConnection and the simplex-chat CLI behind it: concurrent    *)
(* calls of send_text, each with a corrId of its own, the three commands   *)
(* by which _run() sets up the bot's address on every connection, the read *)
(* loop that hands replies to the pending futures and everything else to   *)
(* the receiver, reconnection, and close().                                *)
(*                                                                         *)
(* The CLI may answer in any order, late, or never; the connection may be  *)
(* lost at any moment and the loss noticed later; a wait may time out any  *)
(* time.                                                                   *)
(***************************************************************************)
EXTENDS Integers

CONSTANTS
  Sends,    \* calls of send_text()
  Run,      \* _run() as the caller of the set-up commands
  Drops     \* how many connections may be lost

ASSUME SimplexAssumption ==
  /\ Run \notin Sends
  /\ Drops \in Nat

Callers == Sends \cup {Run}

VARIABLES
  state,      \* where each caller is, or what came of its call
  answer,     \* what its future holds
  pending,    \* _pending: corrIds and the calls whose futures they lead to
  up,         \* _ws is there and _connected is set
  wire,       \* the WebSocket itself
  reading,    \* the read loop is alive
  run,        \* where _run() is
  stage,      \* which of the three set-up commands _run() is at
  session,    \* connections so far
  closer,     \* where close() is
  skipped,    \* history: close() cancelled _run() before _fail_pending
  commands,   \* commands the CLI has not acted on
  replies,    \* replies and events the read loop has not seen
  accepted,   \* sends the CLI has accepted
  inbound     \* items put on the inbound queue

callVars == <<state, answer, pending>>
connVars == <<up, wire, reading, run, stage, session, closer, skipped>>
cliVars  == <<commands, replies, accepted>>
vars == <<callVars, connVars, cliVars, inbound>>

Sessions == 0..(Drops + 1)
Ended == {"ok", "fatal", "transient"}
Command == [of : Callers, session : Sessions, stage : 0..3]
NoCommand == [of |-> Run, session |-> 0, stage |-> 0]
Nothing == [corr |-> NoCommand, of |-> Run, result |-> "none"]
Lost == [corr |-> NoCommand, of |-> Run, result |-> "lost"]
Reply == [corr : Command, of : Callers, result : {"ok", "error"}]
Entry == [corr : Command, by : Callers]
stopping == closer # "no"

(* A direct chat item with the text of a send: its writer and direction.   *)
Item == [by : Sends, dir : {"directRcv", "directSnd"}]

-----------------------------------------------------------------------------
(* send_command().                                                         *)

(* A call ends: its future is forgotten.                                   *)
Settle(c, outcome) ==
  /\ state' = [state EXCEPT ![c] = outcome]
  /\ answer' = [answer EXCEPT ![c] = Nothing]

Refuse(c) ==
  /\ state[c] = "new"
  /\ ~up
  /\ Settle(c, "transient")
  /\ UNCHANGED <<pending, connVars, cliVars, inbound>>

(* The command that c issues now; there is one of them.                    *)
Issued(c) == [of |-> c, session |-> session, stage |-> IF c = Run THEN stage ELSE 0]

(* _corr_id counts up and never starts again: it names the command.        *)
CorrId(command) == command

(* The frame goes out, if only into a connection that is lost already.     *)
Write(c) ==
  /\ state[c] = "new"
  /\ up /\ reading
  /\ LET id == CorrId(Issued(c))
     IN pending' = {p \in pending : p.corr # id} \cup {[corr |-> id, by |-> c]}
  /\ state' = [state EXCEPT ![c] = "waiting"]
  /\ commands' = IF wire = "open"
                 THEN commands \cup {Issued(c)} ELSE commands
  /\ UNCHANGED <<answer, connVars, replies, accepted, inbound>>

(* send_json raises: the connection is lost or the socket closed.          *)
WriteFails(c) ==
  /\ state[c] = "new"
  /\ up /\ wire = "lost"
  /\ Settle(c, "transient")
  /\ UNCHANGED <<pending, connVars, cliVars, inbound>>

(* Mutants: only set-up commands have a deadline; the future of a call     *)
(* that gave up stays in _pending.                                         *)
TimeOutOfSetUp(c) ==
  /\ c = Run /\ state[c] = "waiting"
  /\ pending' = {p \in pending : p.by # c}
  /\ Settle(c, "transient")
  /\ UNCHANGED <<connVars, cliVars, inbound>>

TimeOutKeepingFuture(c) ==
  /\ state[c] = "waiting"
  /\ Settle(c, "transient")
  /\ UNCHANGED <<pending, connVars, cliVars, inbound>>

(* Also when the answer is there but the caller has not been resumed yet.  *)
TimeOut(c) ==
  /\ state[c] = "waiting"
  /\ pending' = {p \in pending : p.by # c}
  /\ Settle(c, "transient")
  /\ UNCHANGED <<connVars, cliVars, inbound>>

(* Mutant: an error payload is taken for a result (_unwrap).               *)
OutcomeOfAny(reply) == IF reply.result = "lost" THEN "transient" ELSE "ok"

(* _unwrap, and the transport's reading of a SimplexError.                 *)
OutcomeOf(reply) ==
  CASE reply.result = "ok" -> "ok"
    [] reply.result = "error" -> "fatal"
    [] reply.result = "lost" -> "transient"

Return(c) ==
  /\ state[c] = "waiting" /\ answer[c] # Nothing
  /\ Settle(c, OutcomeOf(answer[c]))
  /\ UNCHANGED <<pending, connVars, cliVars, inbound>>

-----------------------------------------------------------------------------
(* _read_loop(), _dispatch(), _handle_event(), _emit_message().            *)

Forwarded(item) == item.dir = "directRcv"

(* The items of a reply that nobody waits for any more: that of a send     *)
(* holds the sent item, one to a set-up command or an error holds none.    *)
ItemsOf(reply) ==
  IF reply.of \in Sends /\ reply.result = "ok"
  THEN {[by |-> reply.of, dir |-> "directSnd"]}
  ELSE {}

(* Mutant: echoes of our own sends are forwarded.                          *)
EmitEchoes(items) == inbound' = inbound \cup items

Emit(items) == inbound' = inbound \cup {i \in items : Forwarded(i)}

Dispatch ==
  /\ up /\ reading
  /\ \E r \in replies :
       /\ replies' = replies \ {r}
       /\ \/ \E p \in pending :
               /\ p.corr = r.corr
               /\ pending' = pending \ {p}
               /\ answer' = IF answer[p.by] = Nothing
                            THEN [answer EXCEPT ![p.by] = r] ELSE answer
               /\ UNCHANGED inbound
          \/ /\ \A p \in pending : p.corr # r.corr
             /\ Emit(ItemsOf(r))
             /\ UNCHANGED <<pending, answer>>
  /\ UNCHANGED <<state, connVars, commands, accepted>>

ReaderEnds ==
  /\ reading /\ wire = "lost"
  /\ reading' = FALSE
  /\ replies' = {}
  /\ UNCHANGED <<callVars, up, wire, run, stage, session, closer, skipped,
                 commands, accepted, inbound>>

-----------------------------------------------------------------------------
(* The CLI and the network.                                                *)

Handle ==
  /\ \E c \in commands, result \in {"ok", "error"} :
       /\ commands' = commands \ {c}
       /\ accepted' = IF result = "ok" /\ c.of \in Sends
                      THEN accepted \cup {c.of} ELSE accepted
       /\ replies' = IF wire = "open" /\ c.session = session
                     THEN replies \cup {[corr |-> CorrId(c), of |-> c.of, result |-> result]}
                     ELSE replies
  /\ UNCHANGED <<callVars, connVars, inbound>>

(* What was on its way may still arrive, except that nobody hears of a     *)
(* set-up command any more.                                                *)
LoseWire ==
  /\ wire' = "lost"
  /\ commands' = {c \in commands : c.of \in Sends}

Lose ==
  /\ wire = "open" /\ session <= Drops
  /\ LoseWire
  /\ UNCHANGED <<callVars, up, reading, run, stage, session, closer, skipped,
                 replies, accepted, inbound>>

-----------------------------------------------------------------------------
(* _run().                                                                 *)

Connect ==
  /\ run = "connecting" /\ session <= Drops
  /\ session' = session + 1
  /\ up' = TRUE /\ wire' = "open" /\ reading' = TRUE
  /\ run' = "setup" /\ stage' = 1
  /\ Settle(Run, "new")
  /\ UNCHANGED <<pending, closer, skipped, cliVars, inbound>>

ConnectFails ==
  /\ run = "connecting"
  /\ run' = "closing"
  /\ UNCHANGED <<callVars, up, wire, reading, stage, session, closer, skipped,
                 cliVars, inbound>>

(* setup_address: the first command may fail, an error of the second skips *)
(* the third; only then does _run() look at its reader again.              *)
SetUp ==
  /\ run = "setup" /\ state[Run] \in Ended
  /\ IF stage = 1 \/ (stage = 2 /\ state[Run] = "ok")
     THEN stage' = stage + 1 /\ Settle(Run, "new") /\ UNCHANGED run
     ELSE run' = "reading" /\ stage' = 1 /\ UNCHANGED <<state, answer>>
  /\ UNCHANGED <<pending, up, wire, reading, session, closer,
                 skipped, cliVars, inbound>>

(* The finally clause up to the await of session.close().                  *)
TakeDown ==
  /\ up' = FALSE /\ reading' = FALSE
  /\ replies' = {}
  /\ run' = "closing"

LoopEnds ==
  /\ run = "reading" /\ ~reading
  /\ TakeDown
  /\ UNCHANGED <<callVars, wire, stage, session, closer, skipped, commands, accepted,
                 inbound>>

(* Mutant: the futures of a lost connection are left to their timeouts.    *)
ForgetPending == pending' = {} /\ UNCHANGED answer

FailPending ==
  /\ pending' = {}
  /\ answer' = [c \in Callers |->
                  IF (\E p \in pending : p.by = c) /\ answer[c] = Nothing
                  THEN Lost ELSE answer[c]]

SessionClosed ==
  /\ run = "closing"
  /\ FailPending
  /\ run' = IF stopping THEN "ended" ELSE "sleeping"
  /\ UNCHANGED <<state, up, wire, reading, stage, session, closer,
                 skipped, cliVars, inbound>>

Retry ==
  /\ run = "sleeping"
  /\ run' = IF stopping THEN "ended" ELSE "connecting"
  /\ UNCHANGED <<callVars, up, wire, reading, stage, session, closer, skipped, cliVars,
                 inbound>>

-----------------------------------------------------------------------------
(* close().                                                                *)

(* task.cancel() strikes _run() where it awaits: in connecting, its set-up *)
(* or its reader the finally clause follows; in session.close() the rest   *)
(* of that clause is skipped, and with it _fail_pending.                   *)
Cancel ==
  /\ closer' = "done"
  /\ \/ /\ run \in {"connecting", "setup", "reading"}
        /\ TakeDown
        /\ stage' = 1 /\ Settle(Run, "transient")
        /\ UNCHANGED skipped
     \/ /\ run \in {"closing", "sleeping", "ended"}
        /\ run' = "ended"
        /\ skipped' = (skipped \/ run = "closing")
        /\ UNCHANGED <<state, answer, stage, up, reading, replies>>

(* _stopping is set; a WebSocket that is there is closed, which ends the   *)
(* read loop and waits for the other side.                                 *)
Close ==
  /\ closer = "no"
  /\ up
  /\ closer' = "socket"
  /\ LoseWire
  /\ UNCHANGED <<callVars, up, reading, run, stage, session, skipped, replies,
                 accepted, inbound>>

CloseUnconnected ==
  /\ closer = "no"
  /\ ~up
  /\ Cancel
  /\ UNCHANGED <<pending, wire, session, commands, accepted, inbound>>

SocketClosed ==
  /\ closer = "socket"
  /\ Cancel
  /\ UNCHANGED <<pending, wire, session, commands, accepted, inbound>>

-----------------------------------------------------------------------------
Init ==
  /\ state = [c \in Callers |-> IF c = Run THEN "transient" ELSE "new"]
  /\ answer = [c \in Callers |-> Nothing]
  /\ pending = {}
  /\ up = FALSE /\ wire = "lost" /\ reading = FALSE
  /\ run = "connecting" /\ stage = 1 /\ session = 0
  /\ closer = "no" /\ skipped = FALSE
  /\ commands = {} /\ replies = {} /\ accepted = {}
  /\ inbound = {}

Caller(c) == Refuse(c) \/ Write(c) \/ WriteFails(c) \/ TimeOut(c) \/ Return(c)
Connection == SetUp \/ LoopEnds \/ SessionClosed \/ Retry

Next ==
  \/ \E c \in Callers : Caller(c)
  \/ Dispatch \/ ReaderEnds
  \/ Handle \/ Lose
  \/ Connect \/ ConnectFails \/ Connection
  \/ Close \/ CloseUnconnected \/ SocketClosed

Spec == Init /\ [][Next]_vars

(* The event loop runs every task and its timers, the heartbeat finds a    *)
(* lost connection.  Nothing is assumed of the CLI: it need not answer,    *)
(* nor accept a connection.                                                *)
FairSpec ==
  /\ Spec
  /\ \A c \in Callers : WF_vars(Caller(c))
  /\ WF_vars(ReaderEnds) /\ WF_vars(Connection) /\ WF_vars(SocketClosed)

-----------------------------------------------------------------------------
TypeOK ==
  /\ state \in [Callers -> {"new", "waiting"} \cup Ended]
  /\ answer \in [Callers -> Reply \cup {Nothing, Lost}]
  /\ pending \subseteq Entry
  /\ up \in BOOLEAN /\ reading \in BOOLEAN
  /\ wire \in {"open", "lost"}
  /\ run \in {"connecting", "setup", "reading", "closing", "sleeping", "ended"}
  /\ stage \in 1..3
  /\ session \in Sessions
  /\ closer \in {"no", "socket", "done"} /\ skipped \in BOOLEAN
  /\ commands \subseteq Command /\ replies \subseteq Reply
  /\ accepted \subseteq Sends
  /\ inbound \subseteq Item

(* Every caller gets the reply to its own command, however late, out of    *)
(* order or after how many reconnections it comes (sx_bot_manager.py:54). *)
RepliesMatch == \A c \in Callers : answer[c] \in Reply => answer[c].of = c

(* No call leaves its future behind: an entry of _pending is that of a     *)
(* call that waits for just that corrId, except for the set-up command     *)
(* that close() has cancelled, until _fail_pending runs.                   *)
PendingIsAwaited ==
  \A p \in pending :
    \/ state[p.by] = "waiting" /\ \A q \in pending : q.by = p.by => q = p
    \/ p.by = Run /\ closer = "done" /\ (run = "closing" \/ skipped)

(* Once the end of a connection has been dealt with, no call still waits   *)
(* for its reply, unless close() interrupted that (sx_bot_manager.py:195). *)
NobodyWaitsInVain ==
  run \in {"sleeping", "connecting", "ended"} /\ ~skipped =>
    \A c \in Callers : state[c] = "waiting" => answer[c] # Nothing

(* What the bot has sent does not come back as a message of a user, not    *)
(* even when the reply to a send that timed out arrives as an event        *)
(* (sx_bot_manager.py:221, 246).                                           *)
NoEcho == inbound = {}

(* The connection keeps the promise of RequestReply without an exception:  *)
(* ok is only said of a send that was accepted, each is accepted at most   *)
(* once, and what a caller was told stays (sx_transport.py:26-43).         *)
Promise == INSTANCE RequestReply WITH
  Calls <- Sends,
  Outcomes <- Ended,
  made <- {s \in Sends : state[s] # "new"},
  performed <- accepted,
  doubted <- {},
  outcome <- [s \in Sends |-> IF state[s] \in Ended THEN state[s] ELSE "none"]
KeepsPromise == Promise!Spec

(* Every send ends, whatever the CLI does: by its reply, by the loss of    *)
(* its connection, or by its timeout; and close() ends the connection's    *)
(* task, also from within the set-up of an address and during the delay    *)
(* before a reconnection (sx_bot_manager.py:91, 115, 268).                 *)
EveryCallEnds ==
  /\ \A s \in Sends : <>(state[s] \in Ended)
  /\ [](stopping => <>(run = "ended"))

=============================================================================
