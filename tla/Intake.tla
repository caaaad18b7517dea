------------------------------- MODULE Intake -------------------------------
(***************************************************************************)
(* Messages on their way from the messengers into the queue.  Telegram and *)
(* BlueBubbles post a message until it is accepted, also while an earlier  *)
(* request with it is still being handled.  The other sources              *)
(* give it once: the mailbox, whose mails are marked as seen when they are *)
(* fetched; the streams of Signal and SimpleX; the events of Delta Chat;   *)
(* the sidecar and the Session bridge, which post and do not look at the   *)
(* answer; and Chatwoot with a reply to a mail.                            *)
(*                                                                         *)
(* Each trouble of Troubles happens at most once.                          *)
(***************************************************************************)
EXTENDS Integers, Sequences

CONSTANTS
  Feeds,      \* sequences of messages of one channel, of which one comes
  MaxFeed,    \* the length of the longest
  Processes,  \* gateway processes, all of which poll the mailbox; or the
              \* requests of Telegram and BlueBubbles that are handled at once
  Troubles    \* what may go wrong

Channels == {"telegram", "imessage", "whatsapp", "session", "signal", "simplex",
             "delta_chat", "email", "reply"}
Textual == {"session", "simplex", "reply"}   \* their messages come without files
Messages == [channel : Channels,
             parses : BOOLEAN, sender : BOOLEAN,       \* a mail can be read, names its sender
             text : {"plain", "html", "none"},
             files : Seq({"ok", "gone", "big", "inline"})]   \* "inline": no attachment

ASSUME IntakeAssumption ==
  /\ Processes # {}
  /\ \A f \in Feeds : f \in Seq(Messages) /\ Len(f) \in 1..MaxFeed
  /\ \A f \in Feeds : \A m \in DOMAIN f :
       /\ f[m].channel = f[1].channel
       /\ f[m].channel \in Textual => f[m].files = <<>> /\ f[m].text = "plain"
       /\ f[m].channel # "email" => \A i \in DOMAIN f[m].files : f[m].files[i] # "inline"
  /\ Troubles \subseteq {"db", "crash", "stop", "imap", "post", "event", "media", "line",
                         "confirm", "answer"}

VARIABLES
  feed,      \* the messages
  source,    \* those that the messenger, or the mailbox as unseen, still has
  carried,   \* those that the sidecar or the Session bridge is about to post
  media,     \* the files of each message that have been loaded: by the sidecar,
             \* the bridge to Signal and Delta Chat's event loop
  inbox,     \* what each process has in memory, taken in the order of the feed:
             \* a connection's inbound queue, or the mails of the poll
  poll,      \* where each process' poll is: the uids it still has to fetch
  task,      \* what the handlers are doing
  rows,      \* rows sent of each message
  sent,      \* the items that are in them: the text (0) and the files
  processed, \* processed_keys
  told,      \* notices to the writer that a file is too large
  answer,    \* what the poster has been told of a message
  overlaps,  \* history: messages that two processes have fetched, or two
             \* requests have brought at once
  spent      \* history: troubles there have been

vars == <<feed, source, carried, media, inbox, poll, task, rows, sent, processed,
          told, answer, overlaps, spent>>
carrying == <<source, carried, media, inbox, poll, overlaps>>
queueing == <<rows, sent, processed, told, answer>>

Ids == DOMAIN feed
Channel == feed[1].channel
Files(m) == DOMAIN feed[m].files
Push == {"telegram", "imessage"}
Posted == {"whatsapp", "session"}
Streams == {"signal", "simplex"}
Single == CHOOSE p \in Processes : TRUE
Readers == IF Channel \in Push \cup {"email"} THEN Processes ELSE {Single}

Idle == [pc |-> "idle", items |-> {}, next |-> 1]
NoPoll == [pc |-> "wait", uids |-> {}]
IsFirst(m, S) == m \in S /\ \A k \in S : m <= k
Trouble(t) == t \in Troubles \ spent /\ spent' = spent \cup {t}

-----------------------------------------------------------------------------
(* The mailbox.                                                            *)

Search(p) ==
  /\ Channel = "email" /\ poll[p] = NoPoll /\ source # {}
  /\ poll' = [poll EXCEPT ![p] = [pc |-> "fetch", uids |-> source]]
  /\ UNCHANGED <<feed, source, carried, media, inbox, overlaps, task, queueing, spent>>

(* Mutant: only mails that have been parsed are fetched for good.          *)
SeenIfParsed(m) == feed[m].parses

(* Mutant: no mail is marked.                                              *)
SeenNever(m) == FALSE

(* FETCH RFC822 marks a mail as seen, before _mark_seen does.              *)
Seen(m) == TRUE

(* One that does not parse, or meets an error, is passed over.             *)
FetchMail(p) ==
  /\ poll[p].pc = "fetch"
  /\ \E m \in poll[p].uids :
       /\ IsFirst(m, poll[p].uids)
       /\ source' = IF Seen(m) THEN source \ {m} ELSE source
       /\ inbox' = IF feed[m].parses THEN [inbox EXCEPT ![p] = @ \cup {m}] ELSE inbox
       /\ overlaps' = overlaps \cup ({m} \ source)
       /\ poll' = [poll EXCEPT ![p].uids = @ \ {m}]
  /\ UNCHANGED <<feed, carried, media, task, queueing, spent>>

FetchFails(p) ==
  /\ poll[p].pc = "fetch"
  /\ Trouble("imap")
  /\ \E m \in poll[p].uids :
       /\ IsFirst(m, poll[p].uids)
       /\ source' \in {source, source \ {m}}
       /\ poll' = [poll EXCEPT ![p].uids = @ \ {m}]
  /\ UNCHANGED <<feed, carried, media, inbox, overlaps, task, queueing>>

(* Mutant: an exception leaves none.                                       *)
NormalizedAllOrNone(S) == IF \A m \in S : feed[m].sender THEN S ELSE {}

(* The mails are normalised one after the other; an exception for one      *)
(* without a sender leaves those before it.                                *)
Normalized(S) == {m \in S : \A k \in S : k <= m => feed[k].sender}

Normalize(p) ==
  /\ poll[p].pc = "fetch" /\ poll[p].uids = {}
  /\ inbox' = [inbox EXCEPT ![p] = Normalized(@)]
  /\ poll' = [poll EXCEPT ![p].pc = "handle"]
  /\ UNCHANGED <<feed, source, carried, media, overlaps, task, queueing, spent>>

PollEnds(p) ==
  /\ poll[p].pc = "handle" /\ inbox[p] = {} /\ \A m \in Ids : task[<<p, m>>].pc = "idle"
  /\ poll' = [poll EXCEPT ![p] = NoPoll]
  /\ UNCHANGED <<feed, source, carried, media, inbox, overlaps, task, queueing, spent>>

-----------------------------------------------------------------------------
(* The other sources.                                                      *)

Handling(p, m) == task' = [task EXCEPT ![<<p, m>>] = [Idle EXCEPT !.pc = "prepare"]]

(* The bridge to Signal and Delta Chat load the files that come with a     *)
(* message, as far as they can, and in time.                               *)
FullMessage(m, loaded) ==
  /\ media' = [media EXCEPT ![m] = loaded]
  /\ IF loaded = Files(m) THEN UNCHANGED spent ELSE Trouble("media")

(* The bridge drops a message that has neither a text nor a file left.     *)
Empty(m, loaded) ==
  Channel = "signal" /\ feed[m].text = "none" /\ \A i \in loaded : feed[m].files[i] = "gone"

(* A connection's reader puts an item on the queue, unless the connection  *)
(* is lost with the item on it; each process' receiver takes one at a      *)
(* time, and the poll handles its mails one by one.                        *)
Stream(m) ==
  /\ Channel \in Streams /\ IsFirst(m, source)
  /\ source' = source \ {m}
  /\ \/ \E loaded \in SUBSET Files(m) :
          /\ FullMessage(m, loaded)
          /\ inbox' = IF Empty(m, loaded) THEN inbox ELSE [inbox EXCEPT ![Single] = @ \cup {m}]
     \/ Trouble("line") /\ UNCHANGED <<media, inbox>>
  /\ UNCHANGED <<feed, carried, poll, overlaps, task, queueing>>

Taken(p) ==
  /\ \A m \in Ids : task[<<p, m>>].pc = "idle"
  /\ \E m \in inbox[p] :
       /\ IsFirst(m, inbox[p])
       /\ inbox' = [inbox EXCEPT ![p] = @ \ {m}]
       /\ Handling(p, m)
  /\ UNCHANGED <<feed, source, carried, media, poll, overlaps, queueing, spent>>

DrainSignal(p) == Channel = "signal" /\ Taken(p)
DrainSimplex(p) == Channel = "simplex" /\ Taken(p)
PollOnce(p) == poll[p].pc = "handle" /\ Taken(p)
Take(p) == DrainSignal(p) \/ DrainSimplex(p) \/ PollOnce(p)

(* The sidecar takes a message up with the file, if it could load it; the  *)
(* Session bridge takes text only.                                         *)
HandleInbound(m) ==
  /\ Channel = "whatsapp" /\ m \in source
  /\ source' = source \ {m} /\ carried' = carried \cup {m}
  /\ \/ media' = [media EXCEPT ![m] = Files(m)] /\ UNCHANGED spent
     \/ Trouble("media") /\ UNCHANGED media
  /\ UNCHANGED <<feed, inbox, poll, overlaps, task, queueing>>

HandleInboundMessage(m) ==
  /\ Channel = "session" /\ m \in source
  /\ source' = source \ {m} /\ carried' = carried \cup {m}
  /\ UNCHANGED <<feed, media, inbox, poll, overlaps, task, queueing, spent>>

(* Each posts it once, and does not look at the answer.                    *)
PostOnce(m) ==
  /\ carried' = carried \ {m}
  /\ \/ Handling(Single, m) /\ UNCHANGED spent
     \/ Trouble("post") /\ UNCHANGED task
  /\ UNCHANGED <<feed, source, media, inbox, poll, overlaps, queueing>>

PostToGateway(m) == Channel = "whatsapp" /\ m \in carried /\ PostOnce(m)
PostJson(m) == Channel = "session" /\ m \in carried /\ PostOnce(m)

(* A webhook: the poster has the message until it hears that it is queued, *)
(* and may lose patience with a request; Chatwoot does not post again.     *)
Webhook(p, m) ==
  /\ Channel \in Push \cup {"reply"} /\ m \in source /\ task[<<p, m>>].pc = "idle"
  /\ source' = IF Channel = "reply" THEN source \ {m} ELSE source
  /\ overlaps' = IF \E q \in Processes : task[<<q, m>>].pc # "idle"
                 THEN overlaps \cup {m} ELSE overlaps
  /\ Handling(p, m)
  /\ UNCHANGED <<feed, carried, media, inbox, poll, queueing, spent>>

(* The event loop of Delta Chat's thread: an exception on the way to the   *)
(* future loses the message.                                               *)
Event(m) ==
  /\ Channel = "delta_chat" /\ m \in source
  /\ source' = source \ {m}
  /\ \/ Handling(Single, m) /\ \E loaded \in SUBSET Files(m) : FullMessage(m, loaded)
     \/ Trouble("event") /\ UNCHANGED <<media, task>>
  /\ UNCHANGED <<feed, carried, inbox, poll, overlaps, queueing>>

(* The cache forgets a message after its time.                             *)
Evict(m) ==
  /\ Channel = "whatsapp" /\ media[m] # {}
  /\ Trouble("media")
  /\ media' = [media EXCEPT ![m] = {}]
  /\ UNCHANGED <<feed, source, carried, inbox, poll, overlaps, task, queueing>>

-----------------------------------------------------------------------------
(* The handler: the attachments, then check, send and mark.                *)

Finish(p, m) == task' = [task EXCEPT ![<<p, m>>] = Idle]

(* A request that failed is one the poster knows nothing of: it may post   *)
(* it again.  The others have no answer to give.                           *)
Accept(m) ==
  /\ answer' = [answer EXCEPT ![m] = "2xx"]
  /\ source' = source \ {m}
Reject(m) ==
  /\ answer' = [answer EXCEPT ![m] = "5xx"]
  /\ UNCHANGED source

TextOf(m) == IF feed[m].text = "plain" THEN {0} ELSE {}
More(p, m) == task[<<p, m>>].next \in Files(m)

Step(p, m, items) ==
  LET t == task[<<p, m>>]
  IN task' = [task EXCEPT ![<<p, m>>] =
                [t EXCEPT !.items = t.items \cup items, !.next = t.next + 1]]

(* Mutant: nobody is told.                                                 *)
TelegramFileQuietly(kind, loaded) == IF kind = "ok" THEN "taken" ELSE "passed"

(* What becomes of a file that is there, is gone or is too large.  The     *)
(* users of Telegram and BlueBubbles are told of one too large; those of   *)
(* WhatsApp, Delta Chat and Signal are there if they have been loaded; a   *)
(* mail's come with it, but only an attachment with a name counts as one.  *)
TelegramFile(kind, loaded) ==
  CASE kind = "ok" -> "taken" [] kind = "gone" -> "passed" [] kind = "big" -> "notice"
IMessageFile(kind, loaded) == TelegramFile(kind, loaded)
WhatsAppFile(kind, loaded) == IF kind = "ok" /\ loaded THEN "taken" ELSE "passed"
DeltaChatFile(kind, loaded) == WhatsAppFile(kind, loaded)
SignalFile(kind, loaded) == IF kind # "gone" /\ loaded THEN "taken" ELSE "passed"
EmailFile(kind, loaded) == IF kind \in {"gone", "inline"} THEN "passed" ELSE "taken"

Fate(m, i) ==
  LET kind == feed[m].files[i]
      loaded == i \in media[m]
  IN CASE Channel = "telegram" -> TelegramFile(kind, loaded)
       [] Channel = "imessage" -> IMessageFile(kind, loaded)
       [] Channel = "whatsapp" -> WhatsAppFile(kind, loaded)
       [] Channel = "delta_chat" -> DeltaChatFile(kind, loaded)
       [] Channel = "signal" -> SignalFile(kind, loaded)
       [] Channel = "email" -> EmailFile(kind, loaded)

Prepare(p, m) ==
  /\ task[<<p, m>>].pc = "prepare" /\ More(p, m)
  /\ LET i == task[<<p, m>>].next
     IN /\ Step(p, m, IF Fate(m, i) = "taken" THEN {i} ELSE {})
        /\ told' = IF Fate(m, i) = "notice" THEN [told EXCEPT ![m] = @ + 1] ELSE told
  /\ UNCHANGED <<feed, carrying, rows, sent, processed, answer, spent>>

(* A failed download or notice ends a webhook of Telegram and BlueBubbles; *)
(* the notice may have reached the user.  WhatsApp's file is passed over.  *)
PrepareFails(p, m) ==
  /\ task[<<p, m>>].pc = "prepare" /\ More(p, m) /\ Channel \in Push \cup {"whatsapp"}
  /\ Trouble("media")
  /\ IF Channel = "whatsapp"
     THEN Step(p, m, {}) /\ UNCHANGED <<told, answer, source>>
     ELSE /\ Finish(p, m) /\ Reject(m)
          /\ \/ UNCHANGED told
             \/ /\ feed[m].files[task[<<p, m>>].next] = "big"
                /\ told' = [told EXCEPT ![m] = @ + 1]
  /\ UNCHANGED <<feed, carried, media, inbox, poll, overlaps, rows, sent, processed>>

Check(p, m) ==
  /\ task[<<p, m>>].pc = "prepare" /\ ~More(p, m)
  /\ \/ /\ m \in processed
        /\ Finish(p, m) /\ Accept(m)
     \/ /\ m \notin processed
        /\ task' = [task EXCEPT ![<<p, m>>].pc = "send"]
        /\ UNCHANGED <<answer, source>>
  /\ UNCHANGED <<feed, carried, media, inbox, poll, overlaps, rows, sent, processed, told, spent>>

Row(p, m) ==
  /\ rows' = [rows EXCEPT ![m] = @ + 1]
  /\ sent' = [sent EXCEPT ![m] = @ \cup task[<<p, m>>].items \cup TextOf(m)]

Send(p, m) ==
  /\ task[<<p, m>>].pc = "send"
  /\ Row(p, m)
  /\ task' = [task EXCEPT ![<<p, m>>].pc = "mark"]
  /\ UNCHANGED <<feed, carrying, processed, told, answer, spent>>

Mark(p, m) ==
  /\ task[<<p, m>>].pc = "mark"
  /\ processed' = processed \cup {m}
  /\ IF Channel \in Push
     THEN task' = [task EXCEPT ![<<p, m>>].pc = "confirm"] /\ UNCHANGED <<answer, source>>
     ELSE Finish(p, m) /\ Accept(m)
  /\ UNCHANGED <<feed, carried, media, inbox, poll, overlaps, rows, sent, told, spent>>

(* The writer on Telegram or iMessage is told that the message went        *)
(* through, where that is switched on; then the poster is answered.        *)
Confirm(p, m) ==
  /\ task[<<p, m>>].pc = "confirm"
  /\ Finish(p, m) /\ Accept(m)
  /\ UNCHANGED <<feed, carried, media, inbox, poll, overlaps, rows, sent, processed, told, spent>>

ConfirmFails(p, m) ==
  /\ task[<<p, m>>].pc = "confirm" /\ Trouble("confirm")
  /\ Finish(p, m) /\ Reject(m)
  /\ UNCHANGED <<feed, carried, media, inbox, poll, overlaps, rows, sent, processed, told>>

(* The answer that the message is queued does not reach the poster.        *)
AnswerLost(p, m) ==
  /\ Channel \in Push /\ Trouble("answer")
  /\ \/ task[<<p, m>>].pc = "confirm"
     \/ task[<<p, m>>].pc = "prepare" /\ ~More(p, m) /\ m \in processed
  /\ Finish(p, m)
  /\ UNCHANGED <<feed, carrying, queueing>>

(* The email channel swallows the errors of send and mark.                 *)
Swallows(pc) == Channel \in {"email", "reply"} /\ pc # "prepare"

(* A Postgres error, before or after the statement was committed.          *)
DbFails(p, m) ==
  /\ task[<<p, m>>].pc \in {"prepare", "send", "mark"}
  /\ task[<<p, m>>].pc = "prepare" => ~More(p, m)
  /\ Trouble("db")
  /\ \/ UNCHANGED <<rows, sent, processed>>
     \/ task[<<p, m>>].pc = "send" /\ Row(p, m) /\ UNCHANGED processed
     \/ task[<<p, m>>].pc = "mark" /\ processed' = processed \cup {m} /\ UNCHANGED <<rows, sent>>
  /\ Finish(p, m)
  /\ IF Swallows(task[<<p, m>>].pc) THEN Accept(m) ELSE Reject(m)
  /\ UNCHANGED <<feed, carried, media, inbox, poll, overlaps, told>>

-----------------------------------------------------------------------------
(* What is in memory is gone: of one process, or of all the requests that  *)
(* one process handles.                                                    *)
Forget(P) ==
  /\ task' = [t \in Processes \X Ids |-> IF t[1] \in P THEN Idle ELSE task[t]]
  /\ inbox' = [p \in Processes |-> IF p \in P THEN {} ELSE inbox[p]]
  /\ poll' = [p \in Processes |-> IF p \in P THEN NoPoll ELSE poll[p]]
  /\ UNCHANGED <<feed, source, carried, media, overlaps, queueing>>

Crash(P) == Trouble("crash") /\ Forget(P)

(* A shutdown cancels the receivers and leaves Delta Chat's futures, but   *)
(* waits for the poll and for the requests.                                *)
Stop(P) == Channel \in Streams \cup {"delta_chat"} /\ Trouble("stop") /\ Forget(P)

Init ==
  /\ feed \in Feeds
  /\ source = Ids /\ carried = {} /\ media = [m \in Ids |-> {}]
  /\ inbox = [p \in Processes |-> {}] /\ poll = [p \in Processes |-> NoPoll]
  /\ task = [t \in Processes \X Ids |-> Idle]
  /\ rows = [m \in Ids |-> 0] /\ sent = [m \in Ids |-> {}] /\ processed = {}
  /\ told = [m \in Ids |-> 0] /\ answer = [m \in Ids |-> "none"]
  /\ overlaps = {} /\ spent = {}

Poll(p) == Search(p) \/ FetchMail(p) \/ Normalize(p) \/ PollEnds(p)
Carry(m) ==
  HandleInbound(m) \/ PostToGateway(m) \/ HandleInboundMessage(m) \/ PostJson(m)
Arrive(m) == Stream(m) \/ Carry(m) \/ (\E p \in Readers : Webhook(p, m)) \/ Event(m)
Handle(p, m) == Prepare(p, m) \/ Check(p, m) \/ Send(p, m) \/ Mark(p, m) \/ Confirm(p, m)
Fails(p, m) == PrepareFails(p, m) \/ DbFails(p, m) \/ ConfirmFails(p, m) \/ AnswerLost(p, m)

Next ==
  \/ \E p \in Readers : Poll(p) \/ Take(p) \/ FetchFails(p)
  \/ \E P \in SUBSET Readers : Crash(P) \/ Stop(P)
  \/ \E m \in Ids : Arrive(m) \/ Evict(m)
  \/ \E p \in Readers, m \in Ids : Handle(p, m) \/ Fails(p, m)

(* The watcher polls again and again, receivers and handlers go on, and    *)
(* Telegram and BlueBubbles post again.                                    *)
Fairness ==
  /\ \A p \in Processes : WF_vars(p \in Readers /\ (Poll(p) \/ Take(p)))
  /\ \A m \in 1..MaxFeed : WF_vars(m \in Ids /\ Arrive(m))
  /\ \A p \in Processes, m \in 1..MaxFeed :
       WF_vars(p \in Readers /\ m \in Ids /\ Handle(p, m))

Spec == Init /\ [][Next]_vars
FairSpec == Spec /\ Fairness

-----------------------------------------------------------------------------
Tasks == [pc : {"idle", "prepare", "send", "mark", "confirm"}, items : SUBSET Nat,
          next : Nat \ {0}]
TypeOK ==
  /\ feed \in Feeds
  /\ source \subseteq Ids /\ carried \subseteq Ids
  /\ media \in [Ids -> SUBSET Nat]
  /\ inbox \in [Processes -> SUBSET Ids]
  /\ poll \in [Processes -> [pc : {"wait", "fetch", "handle"}, uids : SUBSET Ids]]
  /\ task \in [Processes \X Ids -> Tasks]
  /\ rows \in [Ids -> Nat] /\ sent \in [Ids -> SUBSET Nat] /\ processed \subseteq Ids
  /\ told \in [Ids -> Nat] /\ answer \in [Ids -> {"none", "2xx", "5xx"}]
  /\ overlaps \subseteq Ids /\ spent \subseteq Troubles

Held(m) ==
  \/ m \in source \cup carried
  \/ \E p \in Processes : task[<<p, m>>].pc # "idle" \/ m \in inbox[p]
Missed(m) == ~Held(m) /\ rows[m] = 0

(* The troubles that lose a message, or the answer to its poster.          *)
Fatal ==
  CASE Channel \in Push -> {}
    [] Channel \in Posted -> {"post", "db", "crash"}
    [] Channel = "email" -> {"imap", "db", "crash"}
    [] Channel \in Streams -> {"line", "db", "crash", "stop"}
    [] Channel = "delta_chat" -> {"event", "db", "crash", "stop"}
    [] Channel = "reply" -> {"db", "crash"}

(* Nothing is left to queue: a mail that cannot be read, or one of a poll  *)
(* with a mail that names no sender (email_imap_client.py:32, 96); a file  *)
(* sent over Signal that could not be had (main.rs:366).                   *)
Nothing(m) ==
  \/ Channel = "email" /\ (~feed[m].parses \/ \E n \in 1..m : ~feed[n].sender)
  \/ /\ Channel = "signal" /\ feed[m].text = "none"
     /\ "media" \in spent \/ \A i \in Files(m) : feed[m].files[i] = "gone"

(* A message that is gone without a row: a trouble that its channel does   *)
(* not survive has happened, or nothing of it was left to queue            *)
(* (sig_receiver.py:83; main.rs:556; dc_client.py:382; index.js:258;       *)
(* bridge.ts:102).  What Telegram and BlueBubbles post is never lost; and  *)
(* a 2xx stands for a row, but for the webhook of a reply by mail, which   *)
(* gets it whatever became of the row (email_message_processor.py:62).     *)
LossesAreExplained ==
  \A m \in Ids :
    /\ Missed(m) => spent \cap Fatal # {} \/ Nothing(m)
    /\ answer[m] = "2xx" /\ rows[m] = 0 => Channel \in {"email", "reply"} /\ "db" \in spent

(* A mail has a second row only if a second process fetched it, and a      *)
(* webhook only if two requests brought it at once, or after an error or a *)
(* death between the row and the mark (tg_message_processor.py:70); no     *)
(* other message has two.  A user hears of a large file more than once     *)
(* only when the message was posted again: at once, after a failure, also  *)
(* that of the confirmation (:76), or as the answer was lost               *)
(* (tg_attachments.py:211).                                                *)
RowsAreExplained ==
  \A m \in Ids :
    /\ rows[m] > 1 =>
         \/ Channel \in Push \cup {"email"} /\ m \in overlaps
         \/ Channel \in Push /\ spent \cap {"db", "crash"} # {}
    /\ told[m] > 1 =>
         \/ \E i, j \in Files(m) : i # j /\ {feed[m].files[i], feed[m].files[j]} = {"big"}
         \/ m \in overlaps
         \/ spent \cap {"media", "db", "crash", "confirm", "answer"} # {}

(* The row has the text and all the files, but for a mail whose text is    *)
(* HTML (email_imap_client.py:204) and its parts that are no attachments   *)
(* or have no name (email_mime_parser.py:128), files that are no longer    *)
(* there or were not loaded in time (wa_attachments.py:48; main.rs:411),   *)
(* and those too large, of which Telegram's and BlueBubbles' users are     *)
(* told, the others are not (tg_attachments.py:211).                       *)
Whole(m, i) ==
  \/ i \in sent[m]
  \/ i > 0 /\ feed[m].files[i] \in {"gone", "inline"}
  \/ i > 0 /\ feed[m].files[i] = "big" /\ (Channel \in Push => told[m] > 0)
  \/ i > 0 /\ Channel \in {"whatsapp", "delta_chat", "signal"} /\ "media" \in spent
RowsAreWhole ==
  \A m \in Ids : rows[m] > 0 =>
    /\ feed[m].text # "plain" \/ 0 \in sent[m]
    /\ \A i \in Files(m) : Whole(m, i)

(* No message stays behind: not in the mailbox, in a cache or on a queue.  *)
EveryMessageIsTaken == \A m \in 1..MaxFeed : m \in Ids /\ Held(m) ~> m \in Ids /\ ~Held(m)

=============================================================================
