-------------------------- MODULE ChannelDelivery --------------------------
(***************************************************************************)
(* An agent's message on its way out: the worker gives the row to the      *)
(* channel's transport, which fetches the files, sends the message in one  *)
(* or several requests and tells the queue by its exception what to do.    *)
(*                                                                         *)
(* A request whose answer does not come may be acted on late, while the    *)
(* row is tried again, or never.  The sidecar of WhatsApp takes the whole  *)
(* message in one request and goes on with it when nobody waits any more.  *)
(*                                                                         *)
(* To send and to delete the row are two steps, and either may fail.  When *)
(* the vt runs out under a slow task the row is read again, and two tries  *)
(* are at it.                                                              *)
(***************************************************************************)
EXTENDS Integers, Sequences, FiniteSets

CONSTANTS
  Jobs,           \* messages of which one is delivered
  MaxTransient,   \* TransientError.max_transient_attempts
  MaxUnknown,     \* 10 in _handle_error
  Faults          \* how often a process may die, the vt run out under a task, Postgres fail

Channels == {"telegram", "imessage", "whatsapp", "session", "email", "signal", "simplex",
             "delta_chat", "bridge"}   \* "bridge": Delta Chat's legacy mode
Kinds == {"ok", "gone", "big", "nourl"}

ASSUME DeliveryAssumption ==
  /\ Jobs \subseteq [channel : Channels, known : BOOLEAN, text : BOOLEAN, files : Seq(Kinds)]
  /\ MaxTransient \in Nat \ {0} /\ MaxUnknown \in Nat \ {0} /\ Faults \in Nat

VARIABLES
  job,        \* the message: its channel, text and files, and if its address is known
  row,        \* the row in the queue to the channels
  attempts,   \* read_ct
  task,       \* the tries: what the transport is doing in each
  flying,     \* requests that have not been acted on in full
  got,        \* the messages the user has got: by which try, with which items
  pages,      \* files of which he has got an error page
  skipped,    \* files a try went on without
  faults,     \* how many of the Faults there have been
  doubt,      \* history: a request was given up without an answer
  halfway,    \* history: a try failed after a request had been answered or acted on in part
  undone,     \* history: a message was sent and its row not deleted
  overrun,    \* history: the row was read under a task
  cause       \* history: the try that gave the message up, and its error

vars == <<job, row, attempts, task, flying, got, pages, skipped, faults,
          doubt, halfway, undone, overrun, cause>>

TextOnly == {"session", "simplex"}
Untimed == {"email", "delta_chat"}     \* no timeout on the request

Files == 1..Len(job.files)
Items == 0..Len(job.files)     \* the text (0) and the files
WithUrl == {i \in Files : job.files[i] # "nourl"}
Text == IF job.text THEN {0} ELSE {}

(* The try with the number n is that of the nth read (read_ct).  now: the  *)
(* parts that it is sending; done: those it has sent; have and left: files.*)
At(pc) == [pc |-> pc, done |-> {}, now |-> {}, have |-> {}, left |-> {}]
Tries == 1..attempts
Live == {t \in Tries : task[t].pc # "idle"}

-----------------------------------------------------------------------------
(* What a transport makes of a message.                                    *)

(* A message is sent in parts, sets of items.                              *)
Single(items) == {{i} : i \in items}

(* Mutant: the text goes with each file.                                   *)
CaptionedEach == {{n} \cup Text : n \in Files}

(* A file to each part, and the text to the first.                         *)
Captioned == {{n} \cup (IF n = 1 THEN Text ELSE {}) : n \in Files}

TelegramParts == Single(Text \cup WithUrl)
IMessageParts == Single(Text \cup WithUrl)
WhatsAppParts == Single(Text \cup WithUrl)
SessionParts == Single(Text)
SimplexParts == Single(Text)
SignalParts == {Text \cup WithUrl} \ {{}}
EmailParts(t) == {(Text \cup WithUrl) \ task[t].left}
BridgeParts == {Text \cup Files}
DeltaChatParts == IF job.files = <<>> THEN Single(Text) ELSE Captioned

Parts(t) ==
  CASE job.channel = "telegram" -> TelegramParts
    [] job.channel = "imessage" -> IMessageParts
    [] job.channel = "whatsapp" -> WhatsAppParts
    [] job.channel = "session" -> SessionParts
    [] job.channel = "simplex" -> SimplexParts
    [] job.channel = "signal" -> SignalParts
    [] job.channel = "email" -> EmailParts(t)
    [] job.channel = "bridge" -> BridgeParts
    [] job.channel = "delta_chat" -> DeltaChatParts

(* Mutant: the files first.                                                *)
TextLast(p, q) == \E j \in q : \A i \in p : i # 0 /\ (i < j \/ j = 0)

(* The text comes first, then the files in their order.                    *)
Before(p, q) == \E j \in q : \A i \in p : i < j
IsFirst(p, parts) == p \in parts /\ \A q \in parts \ {p} : Before(p, q)

(* What one request takes of them.                                         *)
Coming(t) == {p \in Parts(t) \ task[t].done : IsFirst(p, Parts(t) \ task[t].done)}
IsRequest(t, parts) ==
  IF job.channel = "whatsapp" THEN parts = Parts(t) ELSE \E p \in Coming(t) : parts = {p}

(* The files that must be at hand for the next request.                    *)
Wanted(t) ==
  CASE job.channel \in {"email", "signal"} -> WithUrl
    [] job.channel = "delta_chat" -> Files
    [] job.channel \in {"telegram", "imessage"} -> {i \in Files : \E p \in Coming(t) : i \in p}
    [] OTHER -> {}

(* What becomes of a try when a file is not to be had: not found, over the *)
(* limit, without URL, or the connection fails before or in the answer.    *)
FetchOfEmail(error) == {"skip"}
FetchOfDeltaChat(error) == IF error \in {"gone", "big", "nourl"} THEN {"fatal"} ELSE {"transient"}
FetchOfTelegram(error) == {"transient", "fatal"}
FetchOfSignal(error) == IF error = "broken" THEN {"transient"} ELSE {"fatal"}
FetchOfIMessage(error) ==
  IF error = "torn" THEN {"transient", "fatal"} ELSE FetchOfSignal(error)

OfFetch(error) ==
  CASE job.channel = "email" -> FetchOfEmail(error)
    [] job.channel = "delta_chat" -> FetchOfDeltaChat(error)
    [] job.channel = "telegram" -> FetchOfTelegram(error)
    [] job.channel = "signal" -> FetchOfSignal(error)
    [] job.channel = "imessage" -> FetchOfIMessage(error)

(* What a transport raises for what it hears: a rate limit, a server's     *)
(* error, a refusal, a body that is no JSON, and connections that are not  *)
(* made or time out (broken) or are lost in the middle (torn).             *)
OfTelegram == [busy |-> {"transient"}, down |-> {"fatal"}, refused |-> {"fatal"},
               page |-> {"fatal"}, broken |-> {"transient"}, torn |-> {"transient"}]
OfIMessage == [busy |-> {"transient"}, down |-> {"fatal"}, refused |-> {"fatal"},
               page |-> {"fatal"}, broken |-> {"transient"}, torn |-> {"transient", "fatal"}]
OfWhatsApp == [busy |-> {"transient"}, down |-> {"transient"}, refused |-> {"fatal"},
               page |-> {"unknown"}, broken |-> {"transient"}, torn |-> {"transient", "unknown"}]
OfSession == [busy |-> {"fatal"}, down |-> {"fatal"}, refused |-> {"fatal"},
              broken |-> {"transient"}, torn |-> {"transient", "fatal"}]
OfEmail == [busy |-> {"transient", "fatal"}, down |-> {"fatal"}, refused |-> {"fatal"},
            broken |-> {"transient"}, torn |-> {"transient"}]
OfSignal == [refused |-> {"fatal"}, broken |-> {"transient"}, torn |-> {"transient"}]
OfSimplex == [refused |-> {"fatal"}, broken |-> {"transient"}, torn |-> {"transient"}]
OfDeltaChat == [refused |-> {"transient", "fatal"}, torn |-> {"transient"}]
OfBridge == [busy |-> {"fatal"}, down |-> {"transient"}, refused |-> {"fatal"},
             broken |-> {"transient"}, torn |-> {"transient"}]

Verdicts ==
  CASE job.channel = "telegram" -> OfTelegram
    [] job.channel = "imessage" -> OfIMessage
    [] job.channel = "whatsapp" -> OfWhatsApp
    [] job.channel = "session" -> OfSession
    [] job.channel = "email" -> OfEmail
    [] job.channel = "signal" -> OfSignal
    [] job.channel = "simplex" -> OfSimplex
    [] job.channel = "delta_chat" -> OfDeltaChat
    [] job.channel = "bridge" -> OfBridge

-----------------------------------------------------------------------------
(* The worker.                                                             *)

Fault == faults < Faults /\ faults' = faults + 1

NewTry ==
  /\ attempts' = attempts + 1
  /\ task' = [t \in 1..attempts' |-> IF t \in Tries THEN task[t] ELSE At("start")]


Read ==
  /\ row = "queued" /\ Live = {} /\ NewTry
  /\ UNCHANGED <<job, row, flying, got, pages, skipped, faults,
                 doubt, halfway, undone, overrun, cause>>

(* The vt runs out under a task.                                           *)
ReadUnderTask ==
  /\ row = "queued" /\ Live # {} /\ NewTry /\ Fault
  /\ overrun' = TRUE
  /\ UNCHANGED <<job, row, flying, got, pages, skipped, doubt, halfway, undone, cause>>

(* Mutant: the tries are counted from zero.                                *)
GivesUpEarly(t, verdict) ==
  \/ verdict = "fatal"
  \/ verdict = "transient" /\ t + 1 >= MaxTransient
  \/ verdict = "unknown" /\ t > MaxUnknown

GivesUp(t, verdict) ==
  \/ verdict = "fatal"
  \/ verdict = "transient" /\ t >= MaxTransient
  \/ verdict = "unknown" /\ t > MaxUnknown

(* A try is over, and the row archived, or left for another one.           *)
Leave(t) == task' = [task EXCEPT ![t] = At("idle")] /\ UNCHANGED <<row, cause>>
Retire(t, verdict, error) ==
  /\ task' = [task EXCEPT ![t] = At("idle")]
  /\ IF row = "queued" /\ GivesUp(t, verdict)
     THEN row' = "archived" /\ cause' = [try |-> t, error |-> error]
     ELSE UNCHANGED <<row, cause>>

(* A try fails.  Postgres may not archive the row either.                  *)
EndTry(t, verdict, error) ==
  \/ Retire(t, verdict, error) /\ UNCHANGED faults
  \/ Fault /\ Leave(t)

Delete(t) ==
  /\ task[t].pc = "sent"
  /\ row' = IF row = "queued" THEN "deleted" ELSE row
  /\ task' = [task EXCEPT ![t] = At("idle")]
  /\ UNCHANGED <<job, attempts, flying, got, pages, skipped, faults,
                 doubt, halfway, undone, overrun, cause>>

(* The row stays: to the policy it is a message that could not be sent.    *)
DeleteFails(t) ==
  /\ task[t].pc = "sent" /\ Fault
  /\ undone' = TRUE
  /\ Leave(t) \/ \E verdict \in {"transient", "unknown"} : Retire(t, verdict, "db")
  /\ UNCHANGED <<job, attempts, flying, got, pages, skipped, doubt, halfway, overrun>>

(* The connector and the actor are looked up before the try statements of  *)
(* the transports, so that an error there is an unknown one.  Delta Chat's *)
(* asks Postgres for the address.                                          *)
Start(t) ==
  /\ task[t].pc = "start"
  /\ \/ ~job.known /\ EndTry(t, "unknown", "nobody")
     \/ /\ job.known /\ Parts(t) = {} /\ job.channel # "delta_chat"
        /\ EndTry(t, "fatal", "empty")
     \/ /\ job.known /\ (Parts(t) # {} \/ job.channel = "delta_chat")
        /\ task' = [task EXCEPT ![t].pc = IF Parts(t) = {} THEN "sent" ELSE "work"]
        /\ UNCHANGED <<row, cause, faults>>
     \/ /\ job.channel \in {"delta_chat", "bridge"} /\ Fault
        /\ \E verdict \in {"transient", "unknown"} : Retire(t, verdict, "db")
  /\ UNCHANGED <<job, attempts, flying, got, pages, skipped, doubt, halfway, undone, overrun>>

-----------------------------------------------------------------------------
(* The files.                                                              *)

Missing(t) == Wanted(t) \ (task[t].have \cup task[t].left)
NextFile(t) == {i \in Missing(t) : \A j \in Missing(t) : i <= j}
Troubles(i) == {"broken", "torn"} \cup (IF job.files[i] = "ok" THEN {} ELSE {job.files[i]})

Fetch(t) ==
  /\ task[t].pc = "work"
  /\ \E i \in NextFile(t) :
       /\ job.files[i] \in (IF job.channel \in {"email", "delta_chat"} THEN {"ok"} ELSE {"ok", "big"})
       /\ task' = [task EXCEPT ![t].have = @ \cup {i}]
  /\ UNCHANGED <<job, row, attempts, flying, got, pages, skipped, faults,
                 doubt, halfway, undone, overrun, cause>>

FetchFails(t) ==
  /\ task[t].pc = "work"
  /\ \E i \in NextFile(t) : \E error \in Troubles(i) : \E verdict \in OfFetch(error) :
       \/ /\ verdict = "skip"
          /\ task' = [task EXCEPT ![t].left = @ \cup {i}]
          /\ skipped' = skipped \cup {i}
          /\ UNCHANGED <<row, faults, halfway, cause>>
       \/ /\ verdict # "skip"
          /\ halfway' = (halfway \/ task[t].done # {})
          /\ EndTry(t, verdict, error)
          /\ UNCHANGED skipped
  /\ UNCHANGED <<job, attempts, flying, got, pages, doubt, undone, overrun>>

-----------------------------------------------------------------------------
(* The requests.                                                           *)

Post(t) ==
  /\ task[t].pc = "work" /\ Missing(t) = {}
  /\ \E parts \in SUBSET Parts(t) :
       /\ IsRequest(t, parts)
       /\ flying' = flying \cup {[try |-> t, parts |-> parts]}
       /\ task' = [task EXCEPT ![t].pc = "wait", ![t].now = parts]
  /\ UNCHANGED <<job, row, attempts, got, pages, skipped, faults,
                 doubt, halfway, undone, overrun, cause>>

Awaited(r) == task[r.try].pc = "wait"

(* The messenger gets the next part of a request.  The sidecar sends what  *)
(* it finds at the URL of a file, an error page too.                       *)
Perform(r) ==
  \E p \in r.parts :
    /\ IsFirst(p, r.parts)
    /\ LET page == {i \in p \cap Files : job.files[i] = "gone" /\ job.channel = "whatsapp"}
       IN /\ got' = got \cup {[try |-> r.try, items |-> p \ page]}
          /\ pages' = pages \cup page
    /\ flying' = (flying \ {r}) \cup
                   (IF Awaited(r) \/ r.parts # {p} THEN {[r EXCEPT !.parts = @ \ {p}]} ELSE {})
    /\ UNCHANGED <<job, row, attempts, task, skipped, faults,
                 doubt, halfway, undone, overrun, cause>>

(* One that nobody waits for never arrives, or ends in an error.           *)
Lose(r) ==
  /\ ~Awaited(r)
  /\ flying' = flying \ {r}
  /\ UNCHANGED <<job, row, attempts, task, got, pages, skipped, faults,
                 doubt, halfway, undone, overrun, cause>>

(* Mutant: the loop over the files returns from within.                    *)
FirstRequest(t) == TRUE

LastRequest(t) == task[t].done \cup task[t].now = Parts(t)

Answer(r) ==
  /\ Awaited(r) /\ r.parts = {}
  /\ flying' = flying \ {r}
  /\ LET t == r.try IN
       \/ LastRequest(t) /\ task' = [task EXCEPT ![t] = At("sent")]
       \/ /\ ~LastRequest(t)
          /\ task' = [task EXCEPT ![t].pc = "work", ![t].done = @ \cup task[t].now, ![t].now = {}]
  /\ UNCHANGED <<job, row, attempts, got, pages, skipped, faults,
                 doubt, halfway, undone, overrun, cause>>

(* An answer that is no success: what remains of the request is not done.  *)
(* One that cannot be read may come when all of it is.                     *)
Refuse(r) ==
  /\ Awaited(r)
  /\ \E error \in DOMAIN Verdicts \ {"broken", "torn"} :
       /\ r.parts # {} \/ error = "page"
       /\ \E verdict \in Verdicts[error] : EndTry(r.try, verdict, error)
  /\ flying' = flying \ {r}
  /\ halfway' = (halfway \/ task[r.try].done # {} \/ r.parts # task[r.try].now)
  /\ UNCHANGED <<job, attempts, got, pages, skipped, doubt, undone, overrun>>

(* No answer: the request is given up while it may still be acted on.      *)
GiveUp(r, error) ==
  /\ Awaited(r) /\ error \in DOMAIN Verdicts
  /\ \E verdict \in Verdicts[error] : EndTry(r.try, verdict, error)
  /\ doubt' = TRUE
  /\ halfway' = (halfway \/ task[r.try].done # {})
  /\ UNCHANGED <<job, attempts, flying, got, pages, skipped, undone, overrun>>

TimeOut(r) == job.channel \notin Untimed /\ GiveUp(r, "broken")
Break(r) == \E error \in {"broken", "torn"} : GiveUp(r, error)

(* A process dies with its tries; the row comes back when its vt has passed.*)
Crash ==
  /\ Fault
  /\ \E dead \in SUBSET Live :
       /\ dead # {}
       /\ task' = [t \in Tries |-> IF t \in dead THEN At("idle") ELSE task[t]]
       /\ doubt' = (doubt \/ \E t \in dead : task[t].pc = "wait")
       /\ halfway' = (halfway \/ \E t \in dead : task[t].done # {})
       /\ undone' = (undone \/ \E t \in dead : task[t].pc = "sent")
  /\ UNCHANGED <<job, row, attempts, flying, got, pages, skipped, overrun, cause>>

-----------------------------------------------------------------------------
Init ==
  /\ job \in Jobs
  /\ row = "queued" /\ attempts = 0 /\ task = <<>>
  /\ flying = {} /\ got = {}
  /\ pages = {} /\ skipped = {} /\ faults = 0
  /\ doubt = FALSE /\ halfway = FALSE /\ undone = FALSE /\ overrun = FALSE
  /\ cause = [try |-> 0, error |-> "none"]

TaskStep(t) == Start(t) \/ Fetch(t) \/ FetchFails(t) \/ Post(t) \/ Delete(t)
Answered == \E r \in flying : Answer(r)

Next ==
  \/ Read \/ ReadUnderTask \/ Crash \/ Answered
  \/ \E t \in Live : TaskStep(t) \/ DeleteFails(t)
  \/ \E r \in flying : Perform(r) \/ Refuse(r) \/ TimeOut(r) \/ Break(r) \/ Lose(r)

(* The worker reads the row when its vt has passed, and its tasks go on.   *)
(* Most requests have a timeout; that the SMTP server and Delta Chat's RPC *)
(* server do something about a request is an assumption.                   *)
Fairness ==
  /\ WF_vars(Read) /\ WF_vars(Answered \/ \E t \in Live : TaskStep(t))
  /\ WF_vars(\E r \in flying : TimeOut(r))
  /\ WF_vars(job.channel \in Untimed /\ \E r \in flying : Perform(r))

Spec == Init /\ [][Next]_vars
FairSpec == Spec /\ Fairness

-----------------------------------------------------------------------------
(* A row that is deleted as delivered has brought the user its text and    *)
(* every file, but for the files that cannot be sent: on a channel of text *)
(* only, one without a URL, one that a mail went without and one of which  *)
(* the sidecar sent the error page (email_attachments.py:95, index.js:329).*)
LeftOut(i) ==
  \/ job.channel \in TextOnly \/ job.files[i] = "nourl"
  \/ job.channel = "email" /\ i \in skipped
  \/ job.channel = "whatsapp" /\ i \in pages
Copies(i) == {g \in got : i \in g.items}
DeletedIsDelivered ==
  row = "deleted" =>
    /\ job.text => Copies(0) # {}
    /\ \A i \in Files : Copies(i) # {} \/ LeftOut(i)

(* Nobody gets a part of a message twice because of an answer: when that   *)
(* happens, a request was given up without one, or a message was sent and  *)
(* its row not deleted, or the row read under a task, or a try of several  *)
(* requests, or of several messages of the sidecar, failed half way        *)
(* (base.py:268; dc_transport.py:192; tg_transport.py:45; index.js:326).   *)
RepeatsAreExplained ==
  \A i \in Items : Cardinality(Copies(i)) > 1 =>
    \/ doubt \/ undone \/ overrun
    \/ halfway /\ job.channel \in {"telegram", "imessage", "whatsapp", "delta_chat"}

(* No later part overtakes an earlier one: whatever is tried again and     *)
(* however late a request is acted on, the user has got an earlier part at *)
(* least as often as a later one.                                          *)
Due(i) == IF i = 0 THEN job.text ELSE ~LeftOut(i) /\ job.files[i] # "gone"
PartsInOrder ==
  \A i, j \in Items : i < j /\ Due(i) => Cardinality(Copies(i)) >= Cardinality(Copies(j))

(* A message is given up before its last try only for a lasting cause, or  *)
(* for one of the passing ones that its transport takes for lasting: a     *)
(* server's error at Telegram, iMessage, Session and SMTP, a lost          *)
(* connection at iMessage and Session, a busy server at Session, at SMTP   *)
(* and at Delta Chat's bridge, and a download that breaks off.             *)
Lasting == {"empty", "gone", "big", "nourl", "refused", "page"}
TakenForLasting ==
  \/ cause.error = "down" /\ job.channel \in {"telegram", "imessage", "session", "email"}
  \/ cause.error = "busy" /\ job.channel \in {"session", "email", "bridge"}
  \/ cause.error \in {"broken", "torn"} /\ job.channel = "telegram" /\ WithUrl # {}
  \/ cause.error = "torn" /\ job.channel \in {"imessage", "session"}
  \/ cause.error = "torn" /\ job.channel = "signal" /\ WithUrl # {}
GivenUpForACause ==
  row = "archived" /\ cause.try < MaxTransient /\ cause.try <= MaxUnknown =>
    cause.error \in Lasting \/ TakenForLasting


=============================================================================
