---------------------------- MODULE IngressProofs ----------------------------
(***************************************************************************)
(* Proofs about how messages come in.  Up to the row in the queue, Intake: *)
(* for every feed of any channel, any number of processes and any set of   *)
(* troubles.  From the row to the worker that is woken, Listener: for any  *)
(* number of queues that share one event.                                  *)
(***************************************************************************)
EXTENDS Intake, Listener, TLAPS

-----------------------------------------------------------------------------
(* Intake: type correctness.                                               *)

LEMMA FeedType ==
  ASSUME TypeOK
  PROVE  /\ 1 \in Ids /\ Ids \subseteq Nat \ {0} /\ Channel \in Channels
         /\ \A m \in Ids : /\ feed[m] \in Messages
                           /\ Files(m) \in SUBSET (Nat \ {0})
                           /\ feed[m].files = <<>> => Files(m) = {}
                           /\ \A i \in Files(m) :
                                feed[m].files[i] \in {"ok", "gone", "big", "inline"}
                           /\ feed[m].channel = Channel
                           /\ Channel \in Textual => Files(m) = {}
<1>1. feed \in Seq(Messages) /\ Len(feed) \in 1..MaxFeed
  BY IntakeAssumption DEF TypeOK
<1>2. Ids = 1..Len(feed) /\ 1 \in Ids /\ Ids \subseteq Nat \ {0}
  BY <1>1 DEF Ids
<1>3. \A m \in Ids : feed[m] \in Messages
  BY <1>1, <1>2
<1>4. Channel \in Channels
  BY <1>2, <1>3 DEF Channel, Messages
<1>5. ASSUME NEW m \in Ids
      PROVE  /\ Files(m) \in SUBSET (Nat \ {0})
             /\ feed[m].files = <<>> => Files(m) = {}
             /\ \A i \in Files(m) : feed[m].files[i] \in {"ok", "gone", "big", "inline"}
  <2>1. feed[m].files \in Seq({"ok", "gone", "big", "inline"})
    BY <1>3 DEF Messages
  <2> QED BY <2>1 DEF Files
<1>6. \A m \in Ids : feed[m].channel = Channel /\ (Channel \in Textual => feed[m].files = <<>>)
  BY IntakeAssumption DEF TypeOK, Ids, Channel
<1> QED BY <1>2, <1>3, <1>4, <1>5, <1>6

LEMMA FilesRange == ASSUME TypeOK, NEW m \in Ids PROVE \E n \in Nat : Files(m) = 1..n
<1>1. feed[m] \in Messages
  BY FeedType
<1>2. feed[m].files \in Seq({"ok", "gone", "big", "inline"})
  BY <1>1 DEF Messages
<1> QED BY <1>2 DEF Files

LEMMA ReadersType == Single \in Processes /\ Readers \subseteq Processes
BY IntakeAssumption DEF Single, Readers

LEMMA TypeInit == Init => TypeOK
<1> SUFFICES ASSUME Init PROVE TypeOK
  OBVIOUS
<1>1. Idle \in Tasks
  BY DEF Idle, Tasks
<1>2. poll \in [Processes -> [pc : {"wait", "fetch", "handle"}, uids : SUBSET Ids]]
  BY DEF Init, NoPoll
<1> QED BY <1>1, <1>2 DEF Init, TypeOK

LEMMA PollType == ASSUME TypeOK, NEW p \in Processes, Poll(p) \/ FetchFails(p) \/ Take(p)
                  PROVE  TypeOK'
<1> USE DEF TypeOK, carrying, queueing
<1>1. Ids' = Ids /\ Idle \in Tasks
  BY DEF Poll, Search, FetchMail, Normalize, PollEnds, FetchFails, Take, DrainSignal, DrainSimplex,
         PollOnce, Taken, Ids, Idle, Tasks
<1>2. CASE Search(p)
  BY <1>1, <1>2 DEF Search
<1>3. CASE FetchMail(p)
  BY <1>1, <1>3 DEF FetchMail
<1>4. CASE Normalize(p)
  BY <1>1, <1>4 DEF Normalize, Normalized
<1>5. CASE PollEnds(p)
  BY <1>1, <1>5 DEF PollEnds, NoPoll
<1>6. CASE FetchFails(p)
  BY <1>1, <1>6 DEF FetchFails, Trouble
<1>7. CASE Take(p)
  <2>1. Taken(p)
    BY <1>7 DEF Take, DrainSignal, DrainSimplex, PollOnce
  <2>2. [Idle EXCEPT !.pc = "prepare"] \in Tasks
    BY DEF Idle, Tasks
  <2> QED BY <1>1, <2>1, <2>2 DEF Taken, Handling
<1> QED BY <1>2, <1>3, <1>4, <1>5, <1>6, <1>7 DEF Poll

LEMMA ArriveType == ASSUME TypeOK, NEW m \in Ids, Arrive(m) \/ Evict(m) PROVE TypeOK'
<1> USE DEF TypeOK, carrying, queueing
<1>1. /\ Ids' = Ids /\ [Idle EXCEPT !.pc = "prepare"] \in Tasks
      /\ \A loaded \in SUBSET Files(m) : [media EXCEPT ![m] = loaded] \in [Ids -> SUBSET Nat]
  <2>1. Ids' = Ids
    BY DEF Arrive, Carry, Stream, HandleInbound, PostToGateway, HandleInboundMessage, PostJson,
           PostOnce, Webhook, Event, Evict, Ids
  <2>2. [Idle EXCEPT !.pc = "prepare"] \in Tasks
    BY DEF Idle, Tasks
  <2>3. Files(m) \in SUBSET Nat
    BY FeedType
  <2> QED BY <2>1, <2>2, <2>3
<1>2. Single \in Processes
  BY ReadersType
<1>3. ASSUME NEW p \in Processes, Handling(p, m) PROVE task' \in [Processes \X Ids -> Tasks]
  BY <1>1, <1>3 DEF Handling
<1>9. ASSUME NEW loaded \in SUBSET Files(m), FullMessage(m, loaded)
      PROVE  media' \in [Ids -> SUBSET Nat] /\ spent' \subseteq Troubles
  BY <1>1, <1>9 DEF FullMessage, Trouble
<1> HIDE DEF Handling
<1>8. CASE Stream(m)
  <2>1. media' \in [Ids -> SUBSET Nat] /\ spent' \subseteq Troubles
    BY <1>8, <1>9 DEF Stream, Trouble
  <2>2. inbox' \in [Processes -> SUBSET Ids]
    BY <1>2, <1>8 DEF Stream
  <2> QED BY <1>1, <1>8, <2>1, <2>2 DEF Stream
<1>4. CASE HandleInbound(m) \/ HandleInboundMessage(m) \/ Evict(m)
  BY <1>1, <1>4 DEF HandleInbound, HandleInboundMessage, Evict, Trouble
<1>5. CASE PostToGateway(m) \/ PostJson(m)
  BY <1>1, <1>2, <1>3, <1>5 DEF PostToGateway, PostJson, PostOnce, Trouble
<1>6. CASE \E p \in Readers : Webhook(p, m)
  BY <1>1, <1>3, <1>6, ReadersType DEF Webhook
<1>7. CASE Event(m)
  <2>1. task' \in [Processes \X Ids -> Tasks]
    BY <1>2, <1>3, <1>7 DEF Event
  <2>2. media' \in [Ids -> SUBSET Nat] /\ spent' \subseteq Troubles
    BY <1>7, <1>9 DEF Event, Trouble
  <2> QED BY <1>1, <1>7, <2>1, <2>2 DEF Event
<1> QED BY <1>8, <1>4, <1>5, <1>6, <1>7 DEF Arrive, Carry

LEMMA HandleType ==
  ASSUME TypeOK, NEW p \in Processes, NEW m \in Ids, Handle(p, m) \/ Fails(p, m)
  PROVE  TypeOK'
<1> USE DEF TypeOK, carrying, queueing
<1>1. Ids' = Ids /\ Idle \in Tasks /\ task[<<p, m>>] \in Tasks
  BY DEF Handle, Prepare, Check, Send, Mark, Confirm, Fails, PrepareFails, DbFails, ConfirmFails,
         AnswerLost, Ids, Idle, Tasks
<1>2. ASSUME Accept(m) \/ Reject(m)
      PROVE  answer' \in [Ids -> {"none", "2xx", "5xx"}] /\ source' \subseteq Ids
  BY <1>2 DEF Accept, Reject
<1>3. \A pc \in {"send", "mark", "confirm"} : [task[<<p, m>>] EXCEPT !.pc = pc] \in Tasks
  BY <1>1 DEF Tasks
<1>4. ASSUME NEW items \in SUBSET Nat, Step(p, m, items) PROVE task' \in [Processes \X Ids -> Tasks]
  <2> DEFINE t == task[<<p, m>>]
  <2>1. [t EXCEPT !.items = t.items \cup items, !.next = t.next + 1] \in Tasks
    <3>1. task[<<p, m>>].items \cup items \in SUBSET Nat
      BY <1>1 DEF Tasks
    <3>2. task[<<p, m>>].next + 1 \in Nat \ {0}
      BY <1>1 DEF Tasks
    <3> QED BY <1>1, <3>1, <3>2 DEF Tasks
  <2> QED BY <1>4, <2>1 DEF Step
<1>5. ASSUME Finish(p, m) PROVE task' \in [Processes \X Ids -> Tasks]
  BY <1>1, <1>5 DEF Finish
<1>6. ASSUME Row(p, m) PROVE rows' \in [Ids -> Nat] /\ sent' \in [Ids -> SUBSET Nat]
  <2>1. sent[m] \cup task[<<p, m>>].items \cup TextOf(m) \in SUBSET Nat
    BY <1>1 DEF Tasks, TextOf
  <2>2. sent' = [sent EXCEPT ![m] = sent[m] \cup task[<<p, m>>].items \cup TextOf(m)]
    BY <1>6 DEF Row
  <2>3. sent' \in [Ids -> SUBSET Nat]
    BY <2>1, <2>2
  <2>4. rows' \in [Ids -> Nat]
    BY <1>6 DEF Row
  <2> QED BY <2>3, <2>4
<1>7. CASE Prepare(p, m)
  <2>1. task[<<p, m>>].next \in Nat
    BY <1>1 DEF Tasks
  <2>2. PICK items \in SUBSET Nat : Step(p, m, items)
    BY <1>7, <2>1 DEF Prepare
  <2>3. task' \in [Processes \X Ids -> Tasks]
    BY <1>4, <2>2
  <2> QED BY <1>1, <1>7, <2>3 DEF Prepare
<1>8. CASE PrepareFails(p, m)
  <2>1. task' \in [Processes \X Ids -> Tasks]
    BY <1>4, <1>5, <1>8 DEF PrepareFails
  <2> QED BY <1>1, <1>2, <1>8, <2>1 DEF PrepareFails, Trouble
<1>9. CASE Check(p, m)
  <2>1. task' \in [Processes \X Ids -> Tasks]
    BY <1>3, <1>5, <1>9 DEF Check
  <2> QED BY <1>1, <1>2, <1>9, <2>1 DEF Check
<1>10. CASE Send(p, m)
  BY <1>1, <1>3, <1>6, <1>10 DEF Send
<1>11. CASE Mark(p, m)
  <2>1. task' \in [Processes \X Ids -> Tasks]
    BY <1>3, <1>5, <1>11 DEF Mark
  <2> QED BY <1>1, <1>2, <1>11, <2>1 DEF Mark
<1>12. CASE DbFails(p, m)
  BY <1>1, <1>2, <1>5, <1>6, <1>12 DEF DbFails, Trouble
<1>13. CASE Confirm(p, m)
  BY <1>1, <1>2, <1>5, <1>13 DEF Confirm
<1>14. CASE ConfirmFails(p, m) \/ AnswerLost(p, m)
  BY <1>1, <1>2, <1>5, <1>14 DEF ConfirmFails, AnswerLost, Trouble
<1> QED BY <1>7, <1>8, <1>9, <1>10, <1>11, <1>12, <1>13, <1>14 DEF Handle, Fails

LEMMA ForgetType ==
  ASSUME TypeOK, NEW P \in SUBSET Processes, Crash(P) \/ Stop(P) PROVE TypeOK'
<1>1. Idle \in Tasks /\ NoPoll \in [pc : {"wait", "fetch", "handle"}, uids : SUBSET Ids]
  BY DEF Idle, Tasks, NoPoll
<1>2. Forget(P) /\ spent' \subseteq Troubles
  BY DEF Crash, Stop, Trouble, TypeOK
<1>3. Ids' = Ids
  BY <1>2 DEF Forget, Ids
<1> QED BY <1>1, <1>2, <1>3 DEF Forget, TypeOK, carrying, queueing

LEMMA TypeStep == TypeOK /\ [Next]_vars => TypeOK'
<1> SUFFICES ASSUME TypeOK, [Next]_vars PROVE TypeOK'
  OBVIOUS
<1>1. CASE UNCHANGED vars
  BY <1>1 DEF vars, TypeOK, Ids
<1>2. CASE Next
  BY <1>2, ReadersType, PollType, ArriveType, HandleType, ForgetType DEF Next
<1> QED BY <1>1, <1>2

(* Every variable keeps to its type (email_imap_client.py:25-92;           *)
(* processor_helpers.py:40-77).                                            *)
THEOREM TypeCorrect == Spec => []TypeOK
BY TypeInit, TypeStep, PTL DEF Spec

-----------------------------------------------------------------------------
(* Intake: the inductive invariant.                                        *)

(* What is known of a message in the gateway.                              *)
Busy(p, m) == task[<<p, m>>].pc # "idle"

(* A mark stands for a row; Telegram and BlueBubbles have a message until  *)
(* it has one.                                                             *)
Kept(m) ==
  /\ m \in processed \/ (\E p \in Processes : task[<<p, m>>].pc = "mark") => rows[m] > 0
  /\ (\E p \in Processes : task[<<p, m>>].pc = "confirm") => Channel \in Push /\ m \in processed
  /\ Channel \in Push => m \in source \/ rows[m] > 0

(* Messages that are given once are in one place, or have their one row.   *)
Alone(m) ==
  /\ rows[m] <= 1
  /\ m \in source => m \notin carried
  /\ m \in source \cup carried =>
       rows[m] = 0 /\ \A p \in Processes : ~Busy(p, m) /\ m \notin inbox[p]
  /\ \A p \in Processes : m \in inbox[p] =>
       /\ rows[m] = 0 /\ \A q \in Processes : ~Busy(q, m)
       /\ \A q \in Processes \ {p} : m \notin inbox[q]
  /\ \A p \in Processes : Busy(p, m) => \A q \in Processes \ {p} : ~Busy(q, m)
  /\ \A p \in Processes : task[<<p, m>>].pc \in {"prepare", "send"} => rows[m] = 0
Once(m) == Channel \notin Push /\ m \notin overlaps => Alone(m)

(* Those that are posted again have one handler, unless requests with them *)
(* overlap; and a mark, or are about to get it, once they have a row.      *)
Marked(m) ==
  /\ rows[m] <= 1
  /\ \A p \in Processes : task[<<p, m>>].pc = "send" => rows[m] = 0
  /\ rows[m] > 0 => m \in processed \/ \E p \in Processes : task[<<p, m>>].pc = "mark"
OneRequest(m) == \A p \in Processes : Busy(p, m) => \A q \in Processes \ {p} : ~Busy(q, m)
Reposted(m) ==
  Channel \in Push /\ m \notin overlaps =>
    OneRequest(m) /\ (spent \cap {"db", "crash"} = {} => Marked(m))

(* The user is told of a large file when the handler comes to it.          *)
Large(m, i) == i \in Files(m) /\ feed[m].files[i] = "big"
ToldOnce(m) ==
  /\ told[m] > 1 => \E i, j \in Files(m) : i # j /\ Large(m, i) /\ Large(m, j)
  /\ m \in source /\ (\A p \in Processes : ~Busy(p, m)) => told[m] = 0
  /\ \A p \in Processes : Busy(p, m) /\ told[m] > 0 =>
       \E i \in Files(m) : Large(m, i) /\ i < task[<<p, m>>].next
Reposts == {"media", "db", "crash", "confirm", "answer"}
Noticed(m) ==
  /\ Channel \notin Push => told[m] = 0
  /\ Channel \in Push /\ m \notin overlaps /\ spent \cap Reposts = {} => ToldOnce(m)

(* The handler has the files it has passed; those of WhatsApp, Delta Chat  *)
(* and Signal are there if nothing went wrong with them.                   *)
Passed(p, m) ==
  /\ Busy(p, m) => \A i \in Files(m) : i < task[<<p, m>>].next =>
       i \in task[<<p, m>>].items \/ Whole(m, i)
  /\ task[<<p, m>>].pc \in {"send", "mark"} => \A i \in Files(m) : i < task[<<p, m>>].next
Loaded(m) ==
  /\ Channel \in {"whatsapp", "delta_chat", "signal"}
  /\ m \in carried \/ \E p \in Processes : Busy(p, m) \/ m \in inbox[p]
  => Files(m) \subseteq media[m] \/ "media" \in spent

(* The properties, of one message.                                         *)
Explained(m) ==
  /\ Missed(m) => spent \cap Fatal # {} \/ Nothing(m)
  /\ answer[m] = "2xx" /\ rows[m] = 0 => Channel \in {"email", "reply"} /\ "db" \in spent
Complete(m) ==
  rows[m] > 0 => (feed[m].text # "plain" \/ 0 \in sent[m]) /\ \A i \in Files(m) : Whole(m, i)

Sound(m) ==
  /\ Kept(m) /\ Explained(m) /\ Once(m) /\ Reposted(m) /\ Noticed(m)
  /\ Loaded(m) /\ Complete(m) /\ \A p \in Processes : Passed(p, m)

(* Only the mailbox is polled; only mails are fetched twice, and only what *)
(* Telegram and BlueBubbles post comes twice at once.                      *)
Polling ==
  /\ \A p \in Processes : poll[p].pc # "wait" => Channel = "email"
  /\ \A m \in overlaps : Channel \in Push \cup {"email"}

IInv == TypeOK /\ Polling /\ \A m \in Ids : Sound(m)

LEMMA InvInit == Init => IInv
<1> SUFFICES ASSUME Init PROVE IInv
  OBVIOUS
<1>1. TypeOK
  BY TypeInit
<1>2. ASSUME NEW m \in Ids PROVE Sound(m)
  <2>1. /\ m \in source /\ m \notin carried /\ rows[m] = 0 /\ told[m] = 0 /\ m \notin processed
        /\ answer[m] = "none"
        /\ \A p \in Processes : task[<<p, m>>].pc = "idle" /\ m \notin inbox[p]
    BY <1>2 DEF Init, Idle
  <2>2. ~(rows[m] > 0) /\ rows[m] <= 1 /\ Single \in Processes
    BY <2>1, ReadersType
  <2>3. \A p \in Processes : ~Busy(p, m)
    BY <2>1 DEF Busy
  <2>4. Kept(m) /\ Complete(m)
    BY <2>1, <2>2 DEF Kept, Complete
  <2>5. Explained(m)
    BY <2>1 DEF Explained, Missed, Held
  <2>6. Loaded(m) /\ \A p \in Processes : Passed(p, m)
    BY <2>1, <2>3 DEF Loaded, Passed
  <2>7. Once(m)
    BY <2>1, <2>2, <2>3 DEF Once, Alone
  <2>8. Reposted(m) /\ Noticed(m)
    BY <2>1, <2>2, <2>3 DEF Reposted, OneRequest, Marked, Noticed, ToldOnce
  <2> QED BY <2>4, <2>5, <2>6, <2>7, <2>8 DEF Sound
<1>3. Polling
  BY DEF Init, NoPoll, Polling
<1> QED BY <1>1, <1>2, <1>3 DEF IInv

(* The feed and its channel stay what they are.                            *)
LEMMA FeedStays ==
  ASSUME [Next]_vars
  PROVE  /\ feed' = feed /\ Ids' = Ids /\ Channel' = Channel /\ Fatal' = Fatal
         /\ \A m \in Ids : Files(m)' = Files(m)
         /\ spent \subseteq spent'
<1>1. feed' = feed /\ spent \subseteq spent'
  <2>1. ASSUME NEW p \in Readers, Poll(p) \/ Take(p) \/ FetchFails(p)
        PROVE  feed' = feed /\ spent \subseteq spent'
    BY <2>1 DEF Poll, Search, FetchMail, Normalize, PollEnds, FetchFails, Take, DrainSignal,
                DrainSimplex, PollOnce, Taken, Trouble
  <2>5. ASSUME NEW P \in SUBSET Readers, Crash(P) \/ Stop(P)
        PROVE  feed' = feed /\ spent \subseteq spent'
    BY <2>5 DEF Crash, Stop, Forget, Trouble
  <2>2. ASSUME NEW m \in Ids, Arrive(m) \/ Evict(m) PROVE feed' = feed /\ spent \subseteq spent'
    BY <2>2 DEF Arrive, Carry, Stream, HandleInbound, PostToGateway, HandleInboundMessage, PostJson,
                PostOnce, Webhook, Event, FullMessage, Evict, Trouble
  <2>3. ASSUME NEW p \in Readers, NEW m \in Ids,
               Handle(p, m) \/ Fails(p, m)
        PROVE  feed' = feed /\ spent \subseteq spent'
    BY <2>3 DEF Handle, Prepare, Check, Send, Mark, Confirm, Fails, PrepareFails, DbFails,
                ConfirmFails, AnswerLost, carrying, Trouble
  <2>4. CASE UNCHANGED vars
    BY <2>4 DEF vars
  <2> QED BY <2>1, <2>2, <2>3, <2>4, <2>5 DEF Next
<1> QED BY <1>1 DEF Ids, Channel, Fatal, Files

(* A step leaves the other messages where they are.                        *)
Same(k) ==
  /\ media'[k] = media[k] /\ rows'[k] = rows[k] /\ sent'[k] = sent[k]
  /\ told'[k] = told[k] /\ answer'[k] = answer[k]
  /\ (k \in source' <=> k \in source) /\ (k \in carried' <=> k \in carried)
  /\ (k \in processed' <=> k \in processed) /\ (k \in overlaps' <=> k \in overlaps)
  /\ \A p \in Processes : task'[<<p, k>>] = task[<<p, k>>] /\ (k \in inbox'[p] <=> k \in inbox[p])

LEMMA SameStays ==
  ASSUME TypeOK, [Next]_vars, NEW k \in Ids, Same(k), Sound(k)
  PROVE  Sound(k)'
<1>1. /\ feed' = feed /\ Channel' = Channel /\ Fatal' = Fatal /\ Files(k)' = Files(k)
      /\ spent \subseteq spent' /\ Single \in Processes
  BY FeedStays, ReadersType
<1> USE <1>1 DEF Sound, Same, Busy
<1>2. Kept(k)'
  BY DEF Kept
<1>3. Explained(k)'
  <2>1. Nothing(k) => Nothing(k)'
    BY DEF Nothing
  <2>2. Missed(k)' => Missed(k)
    BY DEF Missed, Held
  <2>3. Explained(k)
    OBVIOUS
  <2> HIDE DEF Sound
  <2> QED BY <2>1, <2>2, <2>3 DEF Explained
<1>4. Once(k)'
  BY DEF Once, Alone
<1>5. Reposted(k)'
  BY DEF Reposted, OneRequest, Marked
<1>6. Noticed(k)'
  BY DEF Noticed, ToldOnce, Large
<1>7. Loaded(k)'
  BY DEF Loaded
<1>8. Complete(k)'
  BY DEF Complete, Whole
<1>9. \A p \in Processes : Passed(p, k)'
  BY DEF Passed, Whole
<1> QED BY <1>2, <1>3, <1>4, <1>5, <1>6, <1>7, <1>8, <1>9

LEMMA FatalTroubles ==
  ASSUME TypeOK
  PROVE  /\ Channel \notin Push => "db" \in Fatal /\ "crash" \in Fatal
         /\ Channel \in Posted => "post" \in Fatal
         /\ Channel = "email" => "imap" \in Fatal
         /\ Channel \in Streams \cup {"delta_chat"} => "stop" \in Fatal
         /\ Channel \in Streams => "line" \in Fatal
         /\ Channel = "delta_chat" => "event" \in Fatal
<1>1. Channel \in Channels
  BY FeedType
<1>2. CASE Channel \in Push
  BY <1>2 DEF Push, Posted, Streams
<1>3. CASE Channel \in Posted
  BY <1>3 DEF Fatal, Push, Posted, Streams
<1>4. CASE Channel \in Streams
  BY <1>4 DEF Fatal, Push, Posted, Streams
<1>5. CASE Channel = "email"
  BY <1>5 DEF Fatal, Push, Posted, Streams
<1>6. CASE Channel \in {"delta_chat", "reply"}
  BY <1>6 DEF Fatal, Push, Posted, Streams
<1> QED BY <1>1, <1>2, <1>3, <1>4, <1>5, <1>6 DEF Channels, Push, Posted, Streams

(* The poll and the receivers: a mail, or an item of a stream.             *)
LEMMA PollStep ==
  ASSUME IInv, NEW p \in Readers, Poll(p) \/ FetchFails(p) \/ Take(p), NEW k \in Ids
  PROVE  Sound(k)'
<1>1. TypeOK /\ Sound(k) /\ Polling /\ p \in Processes /\ [Next]_vars
  BY ReadersType DEF IInv, Next
<1>2. Channel' = Channel /\ feed' = feed /\ Files(k)' = Files(k) /\ Fatal' = Fatal
  BY <1>1, FeedStays
<1> USE DEF TypeOK, carrying, queueing
<1>3. CASE Search(p) \/ PollEnds(p)
  <2>1. Same(k)
    BY <1>3 DEF Same, Search, PollEnds
  <2> QED BY <1>1, <2>1, SameStays
<1>4. CASE FetchMail(p)
  <2>1. PICK m \in poll[p].uids :
          /\ source' = source \ {m}
          /\ inbox' = IF feed[m].parses THEN [inbox EXCEPT ![p] = @ \cup {m}] ELSE inbox
          /\ overlaps' = overlaps \cup ({m} \ source)
    BY <1>4 DEF FetchMail, Seen
  <2>2. /\ UNCHANGED <<feed, carried, media, task, rows, sent, processed, told, answer, spent>>
        /\ Channel = "email"
    BY <1>1, <1>4 DEF FetchMail, Polling
  <2>3. CASE k # m
    <3>1. Same(k)
      BY <2>1, <2>2, <2>3 DEF Same
    <3> QED BY <1>1, <3>1, SameStays
  <2>4. CASE k = m
    <3> USE <1>1, <1>2, <2>1, <2>2, <2>4 DEF Sound, Busy
    <3>1. Kept(k)' /\ Reposted(k)' /\ Noticed(k)' /\ Loaded(k)'
      BY DEF Kept, Reposted, Noticed, Loaded, Push
    <3>2. Complete(k)' /\ \A q \in Processes : Passed(q, k)'
      BY DEF Complete, Passed, Whole
    <3>3. Once(k)'
      BY DEF Once, Alone
    <3>4. Explained(k)'
      BY DEF Explained, Missed, Held, Nothing
    <3> QED BY <3>1, <3>2, <3>3, <3>4
  <2> QED BY <2>3, <2>4
<1>5. CASE FetchFails(p)
  <2>1. PICK m \in poll[p].uids : source' \in {source, source \ {m}}
    BY <1>5 DEF FetchFails
  <2>2. /\ UNCHANGED <<carried, media, inbox, task, rows, sent, processed, told, answer, overlaps>>
        /\ Channel = "email" /\ spent' = spent \cup {"imap"}
    BY <1>1, <1>5 DEF FetchFails, Trouble, Polling
  <2>3. CASE k # m
    <3>1. Same(k)
      BY <2>1, <2>2, <2>3 DEF Same
    <3> QED BY <1>1, <3>1, SameStays
  <2>4. CASE k = m
    <3> USE <1>1, <1>2, <2>1, <2>2, <2>4 DEF Sound, Busy
    <3>1. Kept(k)' /\ Reposted(k)' /\ Noticed(k)' /\ Loaded(k)'
      BY DEF Kept, Reposted, Noticed, Loaded, Push
    <3>2. Complete(k)' /\ \A q \in Processes : Passed(q, k)'
      BY DEF Complete, Passed, Whole
    <3>3. Once(k)'
      BY DEF Once, Alone
    <3>4. Explained(k)'
      <4>1. "imap" \in Fatal
        BY FatalTroubles
      <4> QED BY <4>1 DEF Explained, Nothing
    <3> QED BY <3>1, <3>2, <3>3, <3>4
  <2> QED BY <2>3, <2>4
<1>6. CASE Normalize(p)
  <2>1. /\ inbox' = [inbox EXCEPT ![p] = Normalized(@)]
        /\ UNCHANGED <<source, carried, media, overlaps, task, rows, sent, processed, told, answer,
                       spent>>
        /\ Channel = "email"
    BY <1>1, <1>6 DEF Normalize, Polling
  <2>2. CASE k \notin inbox[p] \/ k \in Normalized(inbox[p])
    <3>1. Same(k)
      BY <2>1, <2>2 DEF Same, Normalized
    <3> QED BY <1>1, <3>1, SameStays
  <2>3. CASE k \in inbox[p] /\ k \notin Normalized(inbox[p])
    <3> USE <1>1, <1>2, <2>1, <2>3 DEF Sound, Busy
    <3>1. Kept(k)' /\ Reposted(k)' /\ Noticed(k)' /\ Loaded(k)'
      BY DEF Kept, Reposted, Noticed, Loaded, Push
    <3>2. Complete(k)' /\ \A q \in Processes : Passed(q, k)'
      BY DEF Complete, Passed, Whole
    <3>3. Once(k)'
      BY DEF Once, Alone, Normalized
    <3>4. Explained(k)'
      <4>1. PICK n \in inbox[p] : n <= k /\ ~feed[n].sender
        BY DEF Normalized
      <4>2. n \in 1..k
        BY <4>1, FeedType
      <4> QED BY <4>1, <4>2 DEF Explained, Nothing
    <3> QED BY <3>1, <3>2, <3>3, <3>4
  <2> QED BY <2>2, <2>3
<1>7. CASE Take(p)
  <2>1. PICK m \in inbox[p] :
          /\ \A n \in Ids : task[<<p, n>>].pc = "idle"
          /\ inbox' = [inbox EXCEPT ![p] = @ \ {m}]
          /\ task' = [task EXCEPT ![<<p, m>>] = [Idle EXCEPT !.pc = "prepare"]]
    BY <1>7 DEF Take, DrainSignal, DrainSimplex, PollOnce, Taken, Handling
  <2>2. /\ UNCHANGED <<source, carried, media, overlaps, rows, sent, processed, told, answer, spent>>
        /\ Channel \in {"email", "signal", "simplex"}
    BY <1>1, <1>7 DEF Take, DrainSignal, DrainSimplex, PollOnce, Taken, Polling
  <2>3. CASE k # m
    <3>1. Same(k)
      BY <2>1, <2>2, <2>3 DEF Same
    <3> QED BY <1>1, <3>1, SameStays
  <2>4. CASE k = m
    <3> USE <1>1, <1>2, <2>1, <2>2, <2>4 DEF Sound, Busy
    <3>1. /\ task'[<<p, k>>].pc = "prepare" /\ task'[<<p, k>>].next = 1
          /\ \A q \in Processes \ {p} : task'[<<q, k>>] = task[<<q, k>>]
      BY DEF Idle
    <3>2. Kept(k)' /\ Reposted(k)' /\ Noticed(k)'
      BY <3>1 DEF Kept, Reposted, Noticed, Push
    <3>6. Loaded(k)'
      BY DEF Loaded
    <3>3. Complete(k)' /\ \A q \in Processes : Passed(q, k)'
      BY <3>1, FeedType DEF Complete, Passed, Whole
    <3>4. Once(k)'
      BY <3>1 DEF Once, Alone
    <3>5. Explained(k)'
      BY <3>1 DEF Explained, Missed, Held, Nothing
    <3> QED BY <3>2, <3>3, <3>4, <3>5, <3>6
  <2> QED BY <2>3, <2>4
<1> QED BY <1>3, <1>4, <1>5, <1>6, <1>7 DEF Poll

(* A message comes to the gateway, or nearer to it.                        *)
LEMMA OtherArrives ==
  ASSUME TypeOK, NEW m \in Ids, Arrive(m) \/ Evict(m), NEW k \in Ids \ {m}
  PROVE  Same(k)
<1> USE DEF Same, TypeOK, carrying, queueing
<1>1. Single \in Processes
  BY ReadersType
<1>2. CASE HandleInbound(m) \/ HandleInboundMessage(m) \/ Evict(m)
  BY <1>2 DEF HandleInbound, HandleInboundMessage, Evict
<1>6. CASE Stream(m)
  <2>1. /\ source' = source \ {m}
        /\ inbox' = inbox \/ inbox' = [inbox EXCEPT ![Single] = @ \cup {m}]
        /\ media' = media \/ \E loaded : media' = [media EXCEPT ![m] = loaded]
        /\ UNCHANGED <<carried, overlaps, task, rows, sent, processed, told, answer>>
    BY <1>6 DEF Stream, FullMessage
  <2> QED BY <1>1, <2>1
<1>3. CASE PostToGateway(m) \/ PostJson(m)
  BY <1>1, <1>3 DEF PostToGateway, PostJson, PostOnce, Handling
<1>4. CASE \E p \in Readers : Webhook(p, m)
  BY <1>4, ReadersType DEF Webhook, Handling
<1>5. CASE Event(m)
  BY <1>1, <1>5 DEF Event, FullMessage, Handling
<1> QED BY <1>2, <1>3, <1>4, <1>5, <1>6 DEF Arrive, Carry

(* What a handler that begins is at.                                       *)
LEMMA Begins ==
  ASSUME TypeOK, NEW p \in Processes, NEW m \in Ids, Handling(p, m)
  PROVE  /\ task'[<<p, m>>].pc = "prepare"
         /\ \A i \in Files(m) : ~(i < task'[<<p, m>>].next)
         /\ \A q \in Processes \ {p} : task'[<<q, m>>] = task[<<q, m>>]
<1>1. /\ task'[<<p, m>>].pc = "prepare" /\ task'[<<p, m>>].next = 1
      /\ \A q \in Processes \ {p} : task'[<<q, m>>] = task[<<q, m>>]
  BY DEF Handling, Idle, TypeOK
<1> QED BY <1>1, FeedType

(* A message that one handler has, and nobody else.                        *)
LEMMA AloneHandled ==
  ASSUME NEW m, NEW p \in Processes, (rows[m] = 0)', (m \notin source \cup carried)',
         \A q \in Processes : (m \notin inbox[q])',
         \A q \in Processes \ {p} : Busy(q, m)' = FALSE
  PROVE  Alone(m)'
BY DEF Alone

LEMMA AloneQueued ==
  ASSUME NEW m, NEW p \in Processes, (rows[m] = 0)', (m \notin source \cup carried)',
         \A q \in Processes : (m \in inbox[q] => q = p)',
         \A q \in Processes : Busy(q, m)' = FALSE
  PROVE  Alone(m)'
BY DEF Alone, Busy

LEMMA ArriveStep ==
  ASSUME IInv, NEW m \in Ids, Arrive(m) \/ Evict(m), NEW k \in Ids
  PROVE  Sound(k)'
<1>1. TypeOK /\ Sound(k) /\ Sound(m) /\ Single \in Processes /\ [Next]_vars
  BY ReadersType DEF IInv, Next
<1>2. CASE k # m
  BY <1>1, <1>2, OtherArrives, SameStays
<1>3. Sound(m)'
  <2>1. /\ Channel' = Channel /\ feed' = feed /\ Files(m)' = Files(m) /\ Fatal' = Fatal
        /\ spent \subseteq spent'
    BY <1>1, FeedStays
  <2>2. Files(m) \subseteq Nat \ {0}
    BY <1>1, FeedType
  <2> USE <1>1, <2>1, <2>2 DEF TypeOK, carrying, queueing, Sound, Busy
  <2>3. CASE Stream(m)
    <3> USE <2>3 DEF Stream
    <3>1. Kept(m)' /\ Reposted(m)' /\ Noticed(m)'
      BY DEF Kept, Reposted, Noticed, Push, Streams
    <3>2. Complete(m)' /\ \A q \in Processes : Passed(q, m)'
      BY DEF Complete, Passed, Whole
    <3>3. Once(m)'
      <4>1. inbox' = inbox \/ inbox' = [inbox EXCEPT ![Single] = @ \cup {m}]
        OBVIOUS
      <4>2. m \in source /\ source' = source \ {m}
        BY DEF IsFirst
      <4>3. ASSUME Alone(m) PROVE Alone(m)'
        <5>1. /\ rows'[m] = 0 /\ m \notin source' \cup carried'
              /\ \A q \in Processes : Busy(q, m)' = FALSE /\ (m \in inbox'[q] => q = Single)
          BY <4>1, <4>2, <4>3 DEF Alone
        <5> QED BY <5>1, AloneQueued
      <4> QED BY <4>3 DEF Once
    <3>4. CASE Trouble("line") /\ UNCHANGED <<media, inbox>>
      <4>1. Loaded(m)'
        BY <3>4 DEF Loaded
      <4>2. Explained(m)'
        BY <3>4, FatalTroubles DEF Explained, Trouble
      <4> QED BY <3>1, <3>2, <3>3, <4>1, <4>2
    <3>5. ASSUME NEW loaded \in SUBSET Files(m), FullMessage(m, loaded),
                 inbox' = IF Empty(m, loaded) THEN inbox
                          ELSE [inbox EXCEPT ![Single] = @ \cup {m}]
          PROVE  Sound(m)'
      <4>1. media'[m] = loaded /\ (loaded = Files(m) \/ "media" \in spent')
        BY <3>5 DEF FullMessage, Trouble
      <4>2. Loaded(m)'
        BY <4>1 DEF Loaded
      <4>3. CASE Empty(m, loaded)
        BY <3>1, <3>2, <3>3, <4>1, <4>2, <4>3 DEF Explained, Nothing, Empty
      <4>4. CASE ~Empty(m, loaded)
        <5>1. Held(m)'
          BY <3>5, <4>4 DEF Held
        <5>2. Explained(m)'
          BY <5>1 DEF Explained, Missed
        <5> QED BY <3>1, <3>2, <3>3, <4>2, <5>2
      <4> QED BY <4>3, <4>4
    <3> QED BY <3>4, <3>5
  <2>4. CASE HandleInbound(m) \/ HandleInboundMessage(m)
    <3> USE <2>4 DEF HandleInbound, HandleInboundMessage
    <3>1. Kept(m)' /\ Reposted(m)' /\ Noticed(m)'
      BY DEF Kept, Reposted, Noticed, Push
    <3>2. Loaded(m)'
      BY DEF Loaded, Trouble
    <3>3. Complete(m)' /\ \A q \in Processes : Passed(q, m)'
      BY DEF Complete, Passed, Whole
    <3>4. Once(m)'
      BY DEF Once, Alone
    <3>5. Explained(m)'
      BY DEF Explained, Missed, Held, Nothing
    <3> QED BY <3>1, <3>2, <3>3, <3>4, <3>5
  <2>5. CASE PostToGateway(m) \/ PostJson(m)
    <3> USE <2>5 DEF PostToGateway, PostJson, PostOnce
    <3>1. CASE Handling(Single, m)
      <4>5. /\ task'[<<Single, m>>].pc = "prepare"
            /\ \A i \in Files(m) : ~(i < task'[<<Single, m>>].next)
            /\ \A q \in Processes \ {Single} : task'[<<q, m>>] = task[<<q, m>>]
        BY <3>1, Begins
      <4> USE <3>1, <4>5
      <4>1. Kept(m)' /\ Reposted(m)' /\ Noticed(m)' /\ Loaded(m)'
        BY DEF Kept, Reposted, Noticed, Loaded, Push
      <4>2. Complete(m)' /\ \A q \in Processes : Passed(q, m)'
        BY DEF Complete, Passed, Whole
      <4>3. Once(m)'
        <5>1. ASSUME Alone(m) PROVE Alone(m)'
          <6>1. /\ rows'[m] = 0 /\ m \notin source' \cup carried'
                /\ \A q \in Processes : m \notin inbox'[q] /\ ~Busy(q, m)
            BY <5>1 DEF Alone
          <6>2. \A q \in Processes \ {Single} : Busy(q, m)' = FALSE
            BY <6>1 DEF Busy
          <6> QED BY <6>1, <6>2, AloneHandled
        <5> QED BY <5>1 DEF Once
      <4>4. Explained(m)'
        BY DEF Explained, Missed, Held, Nothing
      <4> QED BY <4>1, <4>2, <4>3, <4>4
    <3>2. CASE Trouble("post") /\ UNCHANGED task
      <4> USE <3>2
      <4>1. Kept(m)' /\ Reposted(m)' /\ Noticed(m)' /\ Loaded(m)'
        BY DEF Kept, Reposted, Noticed, Loaded, Push
      <4>2. Complete(m)' /\ \A q \in Processes : Passed(q, m)'
        BY DEF Complete, Passed, Whole
      <4>3. Once(m)'
        BY DEF Once, Alone
      <4>4. Explained(m)'
        BY FatalTroubles DEF Explained, Nothing, Trouble, Posted
      <4> QED BY <4>1, <4>2, <4>3, <4>4
    <3> QED BY <3>1, <3>2
  <2>6. ASSUME NEW p \in Readers, Webhook(p, m) PROVE Sound(m)'
    <3>0. p \in Processes
      BY ReadersType
    <3>7. /\ task'[<<p, m>>].pc = "prepare"
          /\ \A i \in Files(m) : ~(i < task'[<<p, m>>].next)
          /\ \A q \in Processes \ {p} : task'[<<q, m>>] = task[<<q, m>>]
      BY <2>6, <3>0, Begins DEF Webhook
    <3> USE <2>6, <3>0, <3>7 DEF Webhook
    <3>1. Kept(m)'
      BY DEF Kept, Push
    <3>2. Loaded(m)'
      BY DEF Loaded, Push
    <3>3. Reposted(m)' /\ Noticed(m)'
      <4>1. CASE m \notin overlaps'
        <5>1. m \notin overlaps /\ \A q \in Processes : ~Busy(q, m)
          BY <4>1
        <5>2. Reposted(m)'
          <6>1. OneRequest(m)'
            BY <5>1 DEF OneRequest
          <6>2. Marked(m) => Marked(m)'
            BY <5>1 DEF Marked
          <6> QED BY <5>1, <6>1, <6>2 DEF Reposted
        <5>3. Noticed(m)'
          BY <5>1 DEF Noticed, ToldOnce, Large, Push
        <5> QED BY <5>2, <5>3
      <4>2. CASE m \in overlaps'
        <5>1. told' = told
          OBVIOUS
        <5> QED BY <4>2, <5>1 DEF Reposted, Noticed
      <4> QED BY <4>1, <4>2
    <3>4. Complete(m)' /\ \A q \in Processes : Passed(q, m)'
      BY DEF Complete, Passed, Whole
    <3>5. Once(m)'
      <4>1. CASE Channel \in Push \/ m \in overlaps'
        BY <4>1 DEF Once
      <4>2. CASE Channel \notin Push /\ m \notin overlaps'
        <5>1. Alone(m) /\ source' = source \ {m} /\ m \in source
          BY <4>2 DEF Once, Push
        <5>2. /\ m \notin source' /\ m \notin carried' /\ rows'[m] = 0
              /\ \A q \in Processes : m \notin inbox'[q] /\ task[<<q, m>>].pc = "idle"
          BY <5>1 DEF Alone
        <5>3. \A q \in Processes \ {p} : Busy(q, m)' = FALSE
          BY <5>2 DEF Busy
        <5>4. Alone(m)'
          BY <5>2, <5>3, AloneHandled
        <5> QED BY <5>4 DEF Once
      <4> QED BY <4>1, <4>2
    <3>6. Explained(m)'
      BY DEF Explained, Missed, Held
    <3> QED BY <3>1, <3>2, <3>3, <3>4, <3>5, <3>6
  <2>7. CASE Event(m)
    <3> USE <2>7 DEF Event
    <3>1. ASSUME Handling(Single, m), NEW loaded \in SUBSET Files(m), FullMessage(m, loaded)
          PROVE  Sound(m)'
      <4>6. /\ task'[<<Single, m>>].pc = "prepare"
            /\ \A i \in Files(m) : ~(i < task'[<<Single, m>>].next)
            /\ \A q \in Processes \ {Single} : task'[<<q, m>>] = task[<<q, m>>]
        BY <3>1, Begins
      <4> USE <3>1, <4>6
      <4>1. Kept(m)' /\ Reposted(m)' /\ Noticed(m)'
        BY DEF Kept, Reposted, Noticed, Push
      <4>2. Loaded(m)'
        BY DEF Loaded, FullMessage, Trouble
      <4>3. Complete(m)' /\ \A q \in Processes : Passed(q, m)'
        BY DEF Complete, Passed, Whole
      <4>4. Once(m)'
        <5>1. CASE m \in overlaps
          BY <5>1 DEF Once
        <5>2. CASE m \notin overlaps
          <6>1. Alone(m)
            BY <5>2 DEF Once, Push
          <6>2. /\ m \notin source' /\ m \notin carried' /\ rows'[m] = 0
                /\ \A p \in Processes : m \notin inbox'[p] /\ ~Busy(p, m)
            BY <6>1 DEF Alone
          <6>3. \A p \in Processes \ {Single} : Busy(p, m)' = FALSE
            BY <4>6, <6>2 DEF Busy
          <6>4. Alone(m)'
            BY <6>2, <6>3, AloneHandled
          <6> QED BY <6>4 DEF Once
        <5> QED BY <5>1, <5>2
      <4>5. Explained(m)'
        BY DEF Explained, Missed, Held, Nothing
      <4> QED BY <4>1, <4>2, <4>3, <4>4, <4>5
    <3>2. CASE Trouble("event") /\ UNCHANGED <<media, task>>
      <4> USE <3>2
      <4>1. Kept(m)' /\ Reposted(m)' /\ Noticed(m)' /\ Loaded(m)'
        BY DEF Kept, Reposted, Noticed, Loaded, Push
      <4>2. Complete(m)' /\ \A q \in Processes : Passed(q, m)'
        BY DEF Complete, Passed, Whole
      <4>3. Once(m)'
        BY DEF Once, Alone
      <4>4. Explained(m)'
        BY FatalTroubles DEF Explained, Nothing, Trouble
      <4> QED BY <4>1, <4>2, <4>3, <4>4
    <3> QED BY <3>1, <3>2
  <2>8. CASE Evict(m)
    <3> USE <2>8 DEF Evict
    <3>1. Kept(m)' /\ Reposted(m)' /\ Noticed(m)' /\ Loaded(m)'
      BY DEF Kept, Reposted, Noticed, Loaded, Push, Trouble
    <3>2. Complete(m)' /\ \A q \in Processes : Passed(q, m)'
      BY DEF Complete, Passed, Whole
    <3>3. Once(m)'
      BY DEF Once, Alone
    <3>4. Explained(m)'
      BY DEF Explained, Missed, Held, Nothing
    <3> QED BY <3>1, <3>2, <3>3, <3>4
  <2> QED BY <2>3, <2>4, <2>5, <2>6, <2>7, <2>8 DEF Arrive, Carry
<1> QED BY <1>2, <1>3

(* What becomes of a file.                                                 *)
LEMMA Fates ==
  ASSUME TypeOK, NEW m \in Ids, NEW i \in Files(m)
  PROVE  /\ Fate(m, i) = "notice" => Channel \in Push /\ feed[m].files[i] = "big"
         /\ \/ Fate(m, i) = "taken"
            \/ feed[m].files[i] \in {"gone", "inline"}
            \/ feed[m].files[i] = "big" /\ (Channel \in Push => Fate(m, i) = "notice")
            \/ Channel \in {"whatsapp", "delta_chat", "signal"} /\ i \notin media[m]
<1>1. /\ Channel \in Channels \ Textual /\ feed[m].files[i] \in {"ok", "gone", "big", "inline"}
      /\ Channel # "email" => feed[m].files[i] # "inline"
  <2>1. Channel # "email" => feed[m].files[i] # "inline"
    BY FeedType, IntakeAssumption DEF TypeOK, Ids, Files
  <2> QED BY <2>1, FeedType
<1> USE DEF Push
<1>2. CASE Channel = "telegram"
  BY <1>1, <1>2 DEF Fate, TelegramFile
<1>3. CASE Channel = "imessage"
  BY <1>1, <1>3 DEF Fate, IMessageFile, TelegramFile
<1>4. CASE Channel = "whatsapp"
  BY <1>1, <1>4 DEF Fate, WhatsAppFile
<1>5. CASE Channel = "delta_chat"
  BY <1>1, <1>5 DEF Fate, DeltaChatFile, WhatsAppFile
<1>6. CASE Channel = "signal"
  BY <1>1, <1>6 DEF Fate, SignalFile
<1>7. CASE Channel = "email"
  BY <1>1, <1>7 DEF Fate, EmailFile
<1> QED BY <1>1, <1>2, <1>3, <1>4, <1>5, <1>6, <1>7 DEF Channels, Textual

LEMMA OtherHandled ==
  ASSUME TypeOK, NEW p \in Processes, NEW m \in Ids,
         Handle(p, m) \/ Fails(p, m), NEW k \in Ids \ {m}
  PROVE  Same(k)
<1> USE DEF Same, TypeOK, carrying, queueing
<1>1. CASE Prepare(p, m)
  BY <1>1 DEF Prepare, Step
<1>2. CASE PrepareFails(p, m)
  BY <1>2 DEF PrepareFails, Step, Finish, Reject
<1>3. CASE Check(p, m)
  BY <1>3 DEF Check, Finish, Accept
<1>4. CASE Send(p, m) \/ Mark(p, m)
  BY <1>4 DEF Send, Mark, Row, Finish, Accept
<1>6. CASE Confirm(p, m) \/ ConfirmFails(p, m) \/ AnswerLost(p, m)
  BY <1>6 DEF Confirm, ConfirmFails, AnswerLost, Finish, Accept, Reject
<1>5. CASE DbFails(p, m)
  BY <1>5 DEF DbFails, Row, Finish, Accept, Reject
<1> QED BY <1>1, <1>2, <1>3, <1>4, <1>5, <1>6 DEF Handle, Fails

(* The handler goes to the next file.                                      *)
LEMMA Steps ==
  ASSUME TypeOK, NEW p \in Processes, NEW m \in Ids, NEW items, Step(p, m, items)
  PROVE  /\ task'[<<p, m>>].pc = task[<<p, m>>].pc
         /\ task'[<<p, m>>].items = task[<<p, m>>].items \cup items
         /\ task'[<<p, m>>].next = task[<<p, m>>].next + 1
         /\ \A q \in Processes \ {p} : task'[<<q, m>>] = task[<<q, m>>]
BY DEF Step, TypeOK, Tasks

LEMMA PrepareStep ==
  ASSUME IInv, NEW p \in Readers, NEW m \in Ids, Prepare(p, m)
  PROVE  Sound(m)'
<1>1. TypeOK /\ Sound(m) /\ Single \in Processes /\ p \in Processes /\ [Next]_vars
  BY ReadersType DEF IInv, Next, Handle
<1>2. /\ Channel' = Channel /\ feed' = feed /\ Files(m)' = Files(m) /\ Fatal' = Fatal
      /\ Files(m) \subseteq Nat \ {0}
  BY <1>1, FeedStays, FeedType
<1>3. PICK i \in Files(m) : i = task[<<p, m>>].next
  BY DEF Prepare, More
<1> DEFINE items == IF Fate(m, i) = "taken" THEN {i} ELSE {}
           notice == Fate(m, i) = "notice"
<1>4. /\ i \in Files(m) /\ Step(p, m, items) /\ task[<<p, m>>].pc = "prepare"
      /\ told' = IF notice THEN [told EXCEPT ![m] = @ + 1] ELSE told
      /\ UNCHANGED <<source, carried, media, inbox, rows, sent, processed, answer, overlaps, spent>>
  BY <1>3 DEF Prepare, carrying
<1>5. /\ task'[<<p, m>>].pc = "prepare" /\ task'[<<p, m>>].next = i + 1
      /\ task'[<<p, m>>].items = task[<<p, m>>].items \cup items
      /\ \A q \in Processes \ {p} : task'[<<q, m>>] = task[<<q, m>>]
  BY <1>1, <1>3, <1>4, Steps
<1>6. i \in Nat /\ task[<<p, m>>].next = i /\ \A j \in Files(m) : j < i + 1 => j < i \/ j = i
  BY <1>2, <1>3
<1>7. told[m] \in Nat /\ told'[m] = (IF notice THEN told[m] + 1 ELSE told[m]) /\ told'[m] >= told[m]
  BY <1>1, <1>4 DEF TypeOK
<1>8. /\ notice => Channel \in Push /\ Large(m, i)
      /\ \/ i \in items
         \/ notice
         \/ feed[m].files[i] \in {"gone", "inline"}
         \/ feed[m].files[i] = "big" /\ Channel \notin Push
         \/ Channel \in {"whatsapp", "delta_chat", "signal"} /\ i \notin media[m]
  BY <1>1, <1>4, Fates DEF Large
<1>9. Kept(m) /\ Explained(m) /\ Once(m) /\ Reposted(m) /\ Noticed(m) /\ Loaded(m) /\ Complete(m)
      /\ \A q \in Processes : Passed(q, m)
  BY <1>1 DEF Sound
<1>10. /\ Busy(p, m) /\ Busy(p, m)'
      /\ \A q \in Processes \ {p} : Busy(q, m)' <=> Busy(q, m)
  BY <1>4, <1>5 DEF Busy
<1> HIDE DEF items, notice
<1>11. Kept(m)' /\ Loaded(m)' /\ Explained(m)'
  BY <1>1, <1>2, <1>4, <1>5, <1>9, <1>10 DEF Kept, Loaded, Explained, Missed, Held, Nothing, Busy
<1>12. Once(m)' /\ Reposted(m)'
  <2>1. Once(m)'
    BY <1>1, <1>2, <1>4, <1>5, <1>9, <1>10 DEF Once, Alone
  <2>2. Marked(m) => Marked(m)'
    BY <1>1, <1>4, <1>5 DEF Marked
  <2>3. OneRequest(m) => OneRequest(m)'
    BY <1>1, <1>10 DEF OneRequest
  <2> QED BY <1>2, <1>4, <1>9, <2>1, <2>2, <2>3 DEF Reposted
<1>13. Noticed(m)'
  <2>1. CASE Channel \notin Push \/ m \in overlaps \/ spent \cap Reposts # {}
    BY <1>2, <1>4, <1>7, <1>8, <1>9, <2>1 DEF Noticed, Reposts
  <2>2. CASE Channel \in Push /\ m \notin overlaps /\ spent \cap Reposts = {}
    <3>1. ToldOnce(m) /\ \A q \in Processes \ {p} : ~Busy(q, m)
      BY <1>1, <1>9, <1>10, <2>2 DEF Noticed, Reposted, OneRequest
    <3>2. CASE ~notice
      <4>1. told'[m] = told[m]
        BY <1>7, <3>2
      <4>2. \A j \in Files(m) : j < i => j < i + 1
        BY <1>2, <1>6
      <4>3. ToldOnce(m)'
        BY <1>2, <1>4, <1>5, <1>6, <1>10, <3>1, <4>1, <4>2 DEF ToldOnce, Large
      <4> QED BY <1>2, <2>2, <4>3 DEF Noticed
    <3>3. CASE notice
      <4>1. Large(m, i) /\ told'[m] = told[m] + 1
        BY <1>7, <1>8, <3>3
      <4>2. told'[m] > 1 => \E j \in Files(m) : Large(m, j) /\ j < i
        <5>1. told'[m] > 1 => told[m] > 0
          BY <1>7, <4>1
        <5>2. told[m] > 0 => \E j \in Files(m) : Large(m, j) /\ j < task[<<p, m>>].next
          BY <1>1, <1>10, <3>1 DEF ToldOnce
        <5> QED BY <1>6, <5>1, <5>2
      <4>3. told'[m] > 1 => \E j, k \in Files(m) : j # k /\ Large(m, j) /\ Large(m, k)
        BY <1>4, <1>6, <4>1, <4>2
      <4>4. i \in Files(m) /\ Large(m, i) /\ i < task'[<<p, m>>].next
        BY <1>4, <1>5, <1>6, <3>1, <4>1
      <4>5. Busy(p, m)' /\ \A q \in Processes \ {p} : ~Busy(q, m)'
        BY <1>10, <3>1
      <4>6. ToldOnce(m)'
        <5>1. \A j \in Files(m) : Large(m, j)' <=> Large(m, j)
          BY <1>2 DEF Large
        <5>2. ~(\A q \in Processes : ~Busy(q, m)')
          BY <1>1, <4>5
        <5>3. \A q \in Processes : Busy(q, m)' => q = p
          BY <4>5
        <5> QED BY <1>2, <4>3, <4>4, <5>1, <5>2, <5>3 DEF ToldOnce
      <4> QED BY <1>2, <2>2, <4>6 DEF Noticed
    <3> QED BY <3>2, <3>3
  <2> QED BY <2>1, <2>2
<1>14. \A j \in Files(m) : Whole(m, j) => Whole(m, j)'
  BY <1>2, <1>4, <1>7 DEF Whole
<1>15. i \in items \/ Whole(m, i)'
  <2>1. notice => told'[m] > 0
    BY <1>7
  <2>2. CASE notice
    BY <1>2, <1>4, <1>6, <1>8, <2>1, <2>2 DEF Whole, Large
  <2>3. CASE Channel \in {"whatsapp", "delta_chat", "signal"} /\ i \notin media[m]
    BY <1>1, <1>2, <1>4, <1>6, <1>9, <1>10, <2>3 DEF Whole, Loaded
  <2>4. CASE \/ feed[m].files[i] \in {"gone", "inline"}
             \/ feed[m].files[i] = "big" /\ Channel \notin Push
    BY <1>2, <1>4, <1>6, <2>4 DEF Whole
  <2> QED BY <1>8, <2>2, <2>3, <2>4
<1>16. \A q \in Processes : Passed(q, m)'
  <2>1. \A q \in Processes \ {p} : Passed(q, m)'
    BY <1>2, <1>5, <1>9, <1>10, <1>14 DEF Passed
  <2>2. Passed(p, m)'
    BY <1>1, <1>2, <1>4, <1>5, <1>6, <1>9, <1>10, <1>14, <1>15 DEF Passed
  <2> QED BY <2>1, <2>2
<1>17. Complete(m)'
  BY <1>2, <1>4, <1>9, <1>14 DEF Complete
<1> QED BY <1>11, <1>12, <1>13, <1>16, <1>17 DEF Sound

(* The handler ends.                                                       *)
LEMMA Ends ==
  ASSUME TypeOK, NEW p \in Processes, NEW m \in Ids, Finish(p, m)
  PROVE  /\ task'[<<p, m>>].pc = "idle"
         /\ \A q \in Processes \ {p} : task'[<<q, m>>] = task[<<q, m>>]
BY DEF Finish, Idle, TypeOK

LEMMA PrepareFailsStep ==
  ASSUME IInv, NEW p \in Readers, NEW m \in Ids, PrepareFails(p, m)
  PROVE  Sound(m)'
<1>1. TypeOK /\ Sound(m) /\ Single \in Processes /\ p \in Processes /\ [Next]_vars
  BY ReadersType DEF IInv, Next, Fails
<1>2. /\ Channel' = Channel /\ feed' = feed /\ Files(m)' = Files(m) /\ Fatal' = Fatal
      /\ Files(m) \subseteq Nat \ {0}
  BY <1>1, FeedStays, FeedType
<1>3. /\ task[<<p, m>>].pc = "prepare" /\ "media" \in spent' /\ spent \subseteq spent'
      /\ Channel \in Push \cup {"whatsapp"}
      /\ UNCHANGED <<carried, media, inbox, rows, sent, processed, overlaps>>
  BY DEF PrepareFails, Trouble
<1>4. Kept(m) /\ Explained(m) /\ Once(m) /\ Reposted(m) /\ Noticed(m) /\ Loaded(m) /\ Complete(m)
      /\ \A q \in Processes : Passed(q, m)
  BY <1>1 DEF Sound
<1>5. CASE Channel = "whatsapp"
  <2>1. /\ task'[<<p, m>>].pc = "prepare"
        /\ \A q \in Processes \ {p} : task'[<<q, m>>] = task[<<q, m>>]
        /\ UNCHANGED <<told, answer, source>>
    BY <1>1, <1>3, <1>5, Steps DEF PrepareFails
  <2>2. Kept(m)' /\ Loaded(m)' /\ Explained(m)'
    BY <1>1, <1>2, <1>3, <1>4, <2>1 DEF Kept, Loaded, Explained, Missed, Held, Nothing, Busy
  <2>3. Once(m)'
    BY <1>1, <1>2, <1>3, <1>4, <2>1 DEF Once, Alone, Busy
  <2>4. Reposted(m)' /\ Noticed(m)'
    BY <1>2, <1>4, <1>5, <2>1 DEF Reposted, Noticed, Push
  <2>5. \A i \in Files(m) : Whole(m, i)'
    BY <1>2, <1>3, <1>5, <2>1 DEF Whole
  <2>6. Complete(m)' /\ \A q \in Processes : Passed(q, m)'
    BY <1>2, <1>3, <1>4, <2>1, <2>5 DEF Complete, Passed, Busy
  <2> QED BY <2>2, <2>3, <2>4, <2>6 DEF Sound
<1>6. CASE Channel \in Push
  <2>1. /\ task'[<<p, m>>].pc = "idle"
        /\ \A q \in Processes \ {p} : task'[<<q, m>>] = task[<<q, m>>]
        /\ source' = source /\ answer' = [answer EXCEPT ![m] = "5xx"]
        /\ told' = told \/ told' = [told EXCEPT ![m] = @ + 1]
    BY <1>1, <1>3, <1>6, Ends DEF PrepareFails, Reject, Push
  <2>2. (told[m] > 0 => told'[m] > 0) /\ answer'[m] = "5xx"
    BY <1>1, <2>1 DEF TypeOK
  <2>8. Kept(m)' /\ Loaded(m)'
    BY <1>1, <1>2, <1>3, <1>4, <1>6, <2>1 DEF Kept, Loaded, Push
  <2>3. Explained(m)'
    BY <1>2, <1>3, <1>6, <2>2, <2>8 DEF Explained, Missed, Held, Kept
  <2>4. Once(m)' /\ Noticed(m)'
    BY <1>2, <1>3, <1>6 DEF Once, Noticed, Reposts
  <2>5. Reposted(m)'
    <3>1. Marked(m) => Marked(m)'
      BY <1>1, <1>3, <2>1 DEF Marked
    <3>2. OneRequest(m) => OneRequest(m)'
      BY <1>1, <2>1 DEF OneRequest, Busy
    <3> QED BY <1>2, <1>3, <1>4, <3>1, <3>2 DEF Reposted
  <2>6. \A i \in Files(m) : Whole(m, i) => Whole(m, i)'
    BY <1>2, <1>3, <2>2 DEF Whole
  <2>7. Complete(m)' /\ \A q \in Processes : Passed(q, m)'
    BY <1>2, <1>3, <1>4, <2>1, <2>6 DEF Complete, Passed, Busy
  <2> QED BY <2>3, <2>4, <2>5, <2>7, <2>8 DEF Sound
<1> QED BY <1>3, <1>5, <1>6

(* What is known of a message that is posted again outlasts its handler.   *)
LEMMA MarkedStays ==
  ASSUME TypeOK, NEW p \in Processes, NEW m \in Ids, rows'[m] = rows[m], m \in processed',
         task'[<<p, m>>].pc \notin {"send", "mark"},
         \A q \in Processes \ {p} : task'[<<q, m>>] = task[<<q, m>>]
  PROVE  /\ Marked(m) => Marked(m)'
         /\ Busy(p, m) /\ OneRequest(m) => OneRequest(m)'
<1>1. Marked(m) => Marked(m)'
  BY DEF Marked
<1>2. Busy(p, m) /\ OneRequest(m) => OneRequest(m)'
  BY DEF OneRequest, Busy
<1> QED BY <1>1, <1>2

LEMMA ToldOnceStays ==
  ASSUME TypeOK, NEW p \in Processes, NEW m \in Ids, feed' = feed, told' = told,
         \/ task'[<<p, m>>].pc = "idle" /\ m \notin source'
         \/ Busy(p, m) /\ Busy(p, m)' /\ task'[<<p, m>>].next = task[<<p, m>>].next,
         m \in source' => m \in source,
         \A q \in Processes \ {p} : task'[<<q, m>>] = task[<<q, m>>]
  PROVE  ToldOnce(m) => ToldOnce(m)'
BY DEF ToldOnce, Large, Busy, Files

LEMMA CheckStep ==
  ASSUME IInv, NEW p \in Readers, NEW m \in Ids, Check(p, m)
  PROVE  Sound(m)'
<1>1. TypeOK /\ Sound(m) /\ Single \in Processes /\ p \in Processes /\ [Next]_vars
  BY ReadersType DEF IInv, Next, Handle
<1>2. /\ Channel' = Channel /\ feed' = feed /\ Files(m)' = Files(m) /\ Fatal' = Fatal
      /\ Files(m) \subseteq Nat \ {0}
  BY <1>1, FeedStays, FeedType
<1>3. /\ task[<<p, m>>].pc = "prepare" /\ ~More(p, m)
      /\ UNCHANGED <<carried, media, inbox, overlaps, rows, sent, processed, told, spent>>
  BY DEF Check
<1>4. Kept(m) /\ Explained(m) /\ Once(m) /\ Reposted(m) /\ Noticed(m) /\ Loaded(m) /\ Complete(m)
      /\ \A q \in Processes : Passed(q, m)
  BY <1>1 DEF Sound
<1>5. /\ Complete(m)' /\ \A i \in Files(m) : Whole(m, i)' <=> Whole(m, i)
  BY <1>2, <1>3, <1>4 DEF Complete, Whole
<1>6. CASE m \in processed
  <2>1. /\ task'[<<p, m>>].pc = "idle"
        /\ \A q \in Processes \ {p} : task'[<<q, m>>] = task[<<q, m>>]
        /\ source' = source \ {m} /\ rows[m] > 0
    BY <1>1, <1>4, <1>6, Ends DEF Check, Accept, Kept
  <2>7. Kept(m)' /\ Loaded(m)'
    BY <1>1, <1>2, <1>3, <1>4, <2>1 DEF Kept, Loaded, Busy
  <2>2. Explained(m)'
    BY <1>1, <1>3, <2>1 DEF Explained, Missed, TypeOK
  <2>3. Once(m)'
    BY <1>1, <1>2, <1>3, <1>4, <2>1 DEF Once, Alone, Busy
  <2>8. /\ Marked(m) => Marked(m)'
        /\ OneRequest(m) => OneRequest(m)'
        /\ ToldOnce(m) => ToldOnce(m)'
    <3>1. Busy(p, m)
      BY <1>3 DEF Busy
    <3> QED BY <1>1, <1>2, <1>3, <1>6, <2>1, <3>1, MarkedStays, ToldOnceStays
  <2>4. Reposted(m)' /\ Noticed(m)'
    BY <1>2, <1>3, <1>4, <2>8 DEF Reposted, Noticed
  <2>6. \A q \in Processes : Passed(q, m)'
    BY <1>2, <1>4, <1>5, <2>1 DEF Passed, Busy
  <2> QED BY <1>5, <2>2, <2>3, <2>4, <2>6, <2>7 DEF Sound
<1>7. CASE m \notin processed
  <2>1. /\ task' = [task EXCEPT ![<<p, m>>].pc = "send"]
        /\ source' = source /\ answer' = answer
    BY <1>7 DEF Check
  <2>2. /\ task'[<<p, m>>].pc = "send" /\ task'[<<p, m>>].items = task[<<p, m>>].items
        /\ task'[<<p, m>>].next = task[<<p, m>>].next
        /\ \A q \in Processes \ {p} : task'[<<q, m>>] = task[<<q, m>>]
    BY <1>1, <2>1 DEF TypeOK, Tasks
  <2>3. Kept(m)' /\ Loaded(m)' /\ Explained(m)'
    BY <1>1, <1>2, <1>3, <1>4, <2>1, <2>2 DEF Kept, Loaded, Explained, Missed, Held, Nothing, Busy
  <2>4. Once(m)'
    BY <1>1, <1>2, <1>3, <1>4, <2>1, <2>2 DEF Once, Alone, Busy
  <2>5. Reposted(m)'
    <3>1. OneRequest(m) => OneRequest(m)'
      BY <1>1, <1>3, <2>2 DEF OneRequest, Busy
    <3>2. ASSUME Marked(m), OneRequest(m) PROVE Marked(m)'
      <4>1. \A q \in Processes : task[<<q, m>>].pc # "mark"
        BY <1>1, <1>3, <3>2 DEF OneRequest, Busy
      <4>3. rows[m] \in Nat /\ ~(rows[m] > 0)
        BY <1>1, <1>7, <3>2, <4>1 DEF Marked, TypeOK
      <4>2. rows'[m] = 0
        BY <1>3, <4>3
      <4> QED BY <4>2 DEF Marked
    <3> QED BY <1>2, <1>3, <1>4, <3>1, <3>2 DEF Reposted
  <2>6. Noticed(m)'
    BY <1>1, <1>2, <1>3, <1>4, <2>1, <2>2 DEF Noticed, ToldOnce, Large, Busy
  <2>7. \A i \in Files(m) : i < task[<<p, m>>].next
    <3>1. task[<<p, m>>].next \in Nat \ {0} /\ task[<<p, m>>].next \notin Files(m)
      BY <1>1, <1>3 DEF More, TypeOK, Tasks
    <3>2. \E n \in Nat : Files(m) = 1..n
      BY <1>1, FilesRange
    <3> QED BY <3>1, <3>2
  <2>8. \A q \in Processes : Passed(q, m)'
    BY <1>2, <1>3, <1>4, <1>5, <2>2, <2>7 DEF Passed, Busy
  <2> QED BY <1>5, <2>3, <2>4, <2>5, <2>6, <2>8 DEF Sound
<1> QED BY <1>6, <1>7

(* The row has all that the handler passed.                                *)
LEMMA RowIsComplete ==
  ASSUME TypeOK, NEW p \in Processes, NEW m \in Ids, [Next]_vars,
         Row(p, m), task[<<p, m>>].pc = "send", Passed(p, m), told' = told
  PROVE  Complete(m)' /\ rows'[m] = rows[m] + 1 /\ rows'[m] > 0 /\ sent[m] \subseteq sent'[m]
<1>1. /\ Channel' = Channel /\ feed' = feed /\ Files(m)' = Files(m) /\ spent \subseteq spent'
  BY FeedStays
<1>2. /\ rows'[m] = rows[m] + 1 /\ rows[m] \in Nat
      /\ sent'[m] = sent[m] \cup task[<<p, m>>].items \cup TextOf(m)
  BY DEF Row, TypeOK
<1>3. feed[m].text # "plain" \/ 0 \in sent'[m]
  BY <1>2 DEF TextOf
<1>4. \A i \in Files(m) : i \in task[<<p, m>>].items \/ Whole(m, i)
  BY DEF Passed, Busy
<1>5. \A i \in Files(m) : Whole(m, i)'
  BY <1>1, <1>2, <1>4 DEF Whole
<1> QED BY <1>1, <1>2, <1>3, <1>5 DEF Complete

LEMMA SendStep ==
  ASSUME IInv, NEW p \in Readers, NEW m \in Ids, Send(p, m)
  PROVE  Sound(m)'
<1>1. TypeOK /\ Sound(m) /\ Single \in Processes /\ p \in Processes /\ [Next]_vars
  BY ReadersType DEF IInv, Next, Handle
<1>2. /\ Channel' = Channel /\ feed' = feed /\ Files(m)' = Files(m)
  BY <1>1, FeedStays
<1>3. /\ task[<<p, m>>].pc = "send" /\ Row(p, m)
      /\ task' = [task EXCEPT ![<<p, m>>].pc = "mark"]
      /\ UNCHANGED <<source, carried, media, inbox, overlaps, processed, told, answer, spent>>
  BY DEF Send, carrying
<1>4. Kept(m) /\ Explained(m) /\ Once(m) /\ Reposted(m) /\ Noticed(m) /\ Loaded(m) /\ Complete(m)
      /\ \A q \in Processes : Passed(q, m)
  BY <1>1 DEF Sound
<1>5. /\ task'[<<p, m>>].pc = "mark" /\ task'[<<p, m>>].items = task[<<p, m>>].items
      /\ task'[<<p, m>>].next = task[<<p, m>>].next
      /\ \A q \in Processes \ {p} : task'[<<q, m>>] = task[<<q, m>>]
  BY <1>1, <1>3 DEF TypeOK, Tasks
<1>6. Complete(m)' /\ rows'[m] = rows[m] + 1 /\ rows'[m] > 0 /\ sent[m] \subseteq sent'[m]
  BY <1>1, <1>3, <1>4, RowIsComplete
<1>7. rows'[m] # 0
  BY <1>6
<1>8. Kept(m)' /\ Loaded(m)' /\ Explained(m)'
  BY <1>1, <1>2, <1>3, <1>4, <1>5, <1>6, <1>7 DEF Kept, Loaded, Explained, Missed, Busy
<1>9. Once(m)'
  <2>1. CASE Channel \notin Push /\ m \notin overlaps
    <3>1. Alone(m)
      BY <1>4, <2>1 DEF Once
    <3>2. rows'[m] <= 1
      BY <1>1, <1>3, <1>6, <3>1 DEF Alone
    <3>3. Alone(m)'
      BY <1>1, <1>3, <1>5, <3>1, <3>2 DEF Alone, Busy
    <3> QED BY <3>3 DEF Once
  <2>2. CASE ~(Channel \notin Push /\ m \notin overlaps)
    BY <1>2, <1>3, <2>2 DEF Once
  <2> QED BY <2>1, <2>2
<1>10. Reposted(m)' /\ Noticed(m)'
  <2>1. OneRequest(m) => OneRequest(m)'
    BY <1>1, <1>3, <1>5 DEF OneRequest, Busy
  <2>2. ASSUME Marked(m), OneRequest(m) PROVE Marked(m)'
    <3>1. rows'[m] <= 1
      BY <1>1, <1>3, <1>6, <2>2 DEF Marked
    <3>2. \A q \in Processes : task'[<<q, m>>].pc # "send"
      BY <1>1, <1>3, <1>5, <2>2 DEF OneRequest, Busy
    <3> QED BY <1>1, <1>5, <3>1, <3>2 DEF Marked
  <2>3. ToldOnce(m) => ToldOnce(m)'
    BY <1>1, <1>2, <1>3, <1>5 DEF ToldOnce, Large, Busy
  <2> QED BY <1>2, <1>3, <1>4, <2>1, <2>2, <2>3 DEF Reposted, Noticed
<1>12. \A q \in Processes : Passed(q, m)'
  <2>1. \A i \in Files(m) : Whole(m, i) => Whole(m, i)'
    BY <1>2, <1>3, <1>6 DEF Whole
  <2> QED BY <1>2, <1>3, <1>4, <1>5, <2>1 DEF Passed, Busy
<1> QED BY <1>6, <1>8, <1>9, <1>10, <1>12 DEF Sound

LEMMA MarkStep ==
  ASSUME IInv, NEW p \in Readers, NEW m \in Ids, Mark(p, m)
  PROVE  Sound(m)'
<1>1. TypeOK /\ Sound(m) /\ Single \in Processes /\ p \in Processes /\ [Next]_vars
  BY ReadersType DEF IInv, Next, Handle
<1>2. /\ Channel' = Channel /\ feed' = feed /\ Files(m)' = Files(m)
  BY <1>1, FeedStays
<1>3. /\ task[<<p, m>>].pc = "mark" /\ processed' = processed \cup {m}
      /\ UNCHANGED <<carried, media, inbox, overlaps, rows, sent, told, spent>>
  BY DEF Mark
<1>4. /\ \A q \in Processes \ {p} : task'[<<q, m>>] = task[<<q, m>>]
      /\ \/ task'[<<p, m>>].pc = "idle" /\ source' = source \ {m}
         \/ /\ Channel \in Push /\ source' = source
            /\ task'[<<p, m>>] = [task[<<p, m>>] EXCEPT !.pc = "confirm"]
  BY <1>1, Ends DEF Mark, Accept, TypeOK
<1>5. Kept(m) /\ Explained(m) /\ Once(m) /\ Reposted(m) /\ Noticed(m) /\ Loaded(m) /\ Complete(m)
      /\ \A q \in Processes : Passed(q, m)
  BY <1>1 DEF Sound
<1>6. /\ rows[m] > 0 /\ rows[m] # 0
      /\ \/ task'[<<p, m>>].pc = "idle" /\ source' = source \ {m}
         \/ /\ Channel \in Push /\ task'[<<p, m>>].pc = "confirm" /\ source' = source
            /\ task'[<<p, m>>].items = task[<<p, m>>].items
            /\ task'[<<p, m>>].next = task[<<p, m>>].next
  <2>1. rows[m] \in Nat
    BY <1>1 DEF TypeOK
  <2>2. rows[m] > 0
    BY <1>1, <1>3, <1>5 DEF Kept
  <2>3. task[<<p, m>>] \in Tasks
    BY <1>1 DEF TypeOK
  <2> QED BY <1>4, <2>1, <2>2, <2>3 DEF Tasks
<1>7. Kept(m)' /\ Loaded(m)' /\ Explained(m)'
  <2>1. Kept(m)'
    BY <1>1, <1>2, <1>3, <1>4, <1>5, <1>6 DEF Kept
  <2>2. Loaded(m)'
    BY <1>1, <1>2, <1>3, <1>4, <1>5, <1>6 DEF Loaded, Busy
  <2>3. Explained(m)'
    BY <1>3, <1>6 DEF Explained, Missed
  <2> QED BY <2>1, <2>2, <2>3
<1>8. Once(m)'
  BY <1>1, <1>2, <1>3, <1>4, <1>5, <1>6 DEF Once, Alone, Busy
<1>9. Reposted(m)' /\ Noticed(m)'
  <2>1. Marked(m) => Marked(m)'
    BY <1>1, <1>3, <1>4, <1>6 DEF Marked
  <2>2. OneRequest(m) => OneRequest(m)'
    BY <1>1, <1>3, <1>4 DEF OneRequest, Busy
  <2>3. ToldOnce(m) => ToldOnce(m)'
    <3>1. /\ \/ task'[<<p, m>>].pc = "idle" /\ m \notin source'
             \/ Busy(p, m) /\ Busy(p, m)' /\ task'[<<p, m>>].next = task[<<p, m>>].next
          /\ m \in source' => m \in source
      BY <1>3, <1>6 DEF Busy
    <3> QED BY <1>1, <1>2, <1>3, <1>4, <3>1, ToldOnceStays
  <2> QED BY <1>2, <1>3, <1>5, <2>1, <2>2, <2>3 DEF Reposted, Noticed
<1>11. Complete(m)' /\ \A q \in Processes : Passed(q, m)'
  <2>1. \A i \in Files(m) : Whole(m, i)' <=> Whole(m, i)
    BY <1>2, <1>3 DEF Whole
  <2> QED BY <1>1, <1>2, <1>3, <1>4, <1>5, <1>6, <2>1 DEF Complete, Passed, Busy
<1> QED BY <1>7, <1>8, <1>9, <1>11 DEF Sound

(* A marked message is confirmed and accepted, or an answer gets lost.     *)
LEMMA ConfirmStep ==
  ASSUME IInv, NEW p \in Readers, NEW m \in Ids,
         Confirm(p, m) \/ ConfirmFails(p, m) \/ AnswerLost(p, m)
  PROVE  Sound(m)'
<1>1. TypeOK /\ Sound(m) /\ p \in Processes /\ [Next]_vars
  BY ReadersType DEF IInv, Next, Handle, Fails
<1>2. Channel' = Channel /\ feed' = feed /\ Files(m)' = Files(m)
  BY <1>1, FeedStays
<1>3. Kept(m) /\ Explained(m) /\ Once(m) /\ Reposted(m) /\ Noticed(m) /\ Loaded(m) /\ Complete(m)
      /\ \A q \in Processes : Passed(q, m)
  BY <1>1 DEF Sound
<1>4. /\ UNCHANGED <<carried, media, inbox, overlaps, rows, sent, processed, told>>
      /\ task[<<p, m>>].pc # "idle" /\ spent \subseteq spent'
      /\ \/ source' = source \ {m}
         \/ source' = source /\ spent' \cap Reposts # {}
  BY DEF Confirm, ConfirmFails, AnswerLost, Accept, Reject, Trouble, carrying, queueing, Reposts
<1>5. /\ task'[<<p, m>>].pc = "idle"
      /\ \A q \in Processes \ {p} : task'[<<q, m>>] = task[<<q, m>>]
  BY <1>1, Ends DEF Confirm, ConfirmFails, AnswerLost
<1>6. Channel \in Push /\ m \in processed /\ rows[m] > 0 /\ rows[m] # 0
  <2>1. rows[m] \in Nat
    BY <1>1 DEF TypeOK
  <2>2. Channel \in Push /\ m \in processed
    BY <1>1, <1>3 DEF Confirm, ConfirmFails, AnswerLost, Kept
  <2> QED BY <1>3, <2>1, <2>2 DEF Kept
<1>7. Kept(m)' /\ Loaded(m)' /\ Explained(m)' /\ Once(m)'
  <2>1. Kept(m)'
    BY <1>1, <1>2, <1>3, <1>4, <1>5, <1>6 DEF Kept
  <2>2. Loaded(m)' /\ Once(m)'
    BY <1>2, <1>6 DEF Loaded, Once, Push
  <2>3. Explained(m)'
    BY <1>4, <1>6 DEF Explained, Missed
  <2> QED BY <2>1, <2>2, <2>3
<1>8. /\ Marked(m) => Marked(m)'
      /\ OneRequest(m) => OneRequest(m)'
  BY <1>1, <1>4, <1>5, <1>6, MarkedStays DEF Busy
<1>9. Reposted(m)'
  BY <1>2, <1>3, <1>4, <1>8 DEF Reposted
<1>10. Noticed(m)'
  <2>1. CASE source' = source /\ spent' \cap Reposts # {}
    BY <1>2, <1>6, <2>1 DEF Noticed, Reposts
  <2>2. CASE source' = source \ {m}
    <3>1. ToldOnce(m) => ToldOnce(m)'
      BY <1>1, <1>2, <1>4, <1>5, <2>2, ToldOnceStays
    <3> QED BY <1>2, <1>3, <1>4, <1>6, <3>1 DEF Noticed
  <2> QED BY <1>4, <2>1, <2>2
<1>11. \A i \in Files(m) : Whole(m, i) => Whole(m, i)'
  BY <1>2, <1>4 DEF Whole
<1>12. Complete(m)' /\ \A q \in Processes : Passed(q, m)'
  BY <1>2, <1>3, <1>4, <1>5, <1>11 DEF Complete, Passed, Busy
<1> QED BY <1>7, <1>9, <1>10, <1>12 DEF Sound

LEMMA DbFailsStep ==
  ASSUME IInv, NEW p \in Readers, NEW m \in Ids, DbFails(p, m)
  PROVE  Sound(m)'
<1>1. TypeOK /\ Sound(m) /\ Single \in Processes /\ p \in Processes /\ [Next]_vars
  BY ReadersType DEF IInv, Next, Fails
<1>2. /\ Channel' = Channel /\ feed' = feed /\ Files(m)' = Files(m) /\ Fatal' = Fatal
  BY <1>1, FeedStays
<1>3. /\ task[<<p, m>>].pc \in {"prepare", "send", "mark"}
      /\ "db" \in spent' /\ spent \subseteq spent'
      /\ UNCHANGED <<carried, media, inbox, overlaps, told>>
  BY DEF DbFails, Trouble
<1>4. /\ task'[<<p, m>>].pc = "idle"
      /\ \A q \in Processes \ {p} : task'[<<q, m>>] = task[<<q, m>>]
  BY <1>1, Ends DEF DbFails
<1>5. Kept(m) /\ Explained(m) /\ Once(m) /\ Reposted(m) /\ Noticed(m) /\ Loaded(m) /\ Complete(m)
      /\ \A q \in Processes : Passed(q, m)
  BY <1>1 DEF Sound
<1>6. \/ rows'[m] = rows[m] /\ sent'[m] = sent[m] /\ processed' = processed
      \/ task[<<p, m>>].pc = "send" /\ Row(p, m) /\ processed' = processed
      \/ /\ task[<<p, m>>].pc = "mark" /\ processed' = processed \cup {m}
         /\ rows'[m] = rows[m] /\ sent'[m] = sent[m]
  BY DEF DbFails
<1>7. /\ \/ rows'[m] = rows[m]
         \/ rows'[m] = rows[m] + 1 /\ task[<<p, m>>].pc = "send"
      /\ rows[m] \in Nat /\ sent[m] \subseteq sent'[m]
      /\ m \in processed' => m \in processed \/ task[<<p, m>>].pc = "mark"
      /\ processed \subseteq processed'
  <2>1. rows[m] \in Nat
    BY <1>1 DEF TypeOK
  <2>2. CASE task[<<p, m>>].pc = "send" /\ Row(p, m) /\ processed' = processed
    <3>1. rows'[m] = rows[m] + 1 /\ sent[m] \subseteq sent'[m]
      BY <1>1, <1>3, <1>5, <2>2, RowIsComplete
    <3> QED BY <2>1, <2>2, <3>1
  <2>3. CASE rows'[m] = rows[m] /\ sent'[m] = sent[m]
    <3>1. /\ m \in processed' => m \in processed \/ task[<<p, m>>].pc = "mark"
          /\ processed \subseteq processed'
      BY <1>6
    <3> QED BY <2>1, <2>3, <3>1
  <2> QED BY <1>6, <2>2, <2>3
<1>8. (rows[m] > 0 => rows'[m] > 0) /\ (rows[m] # 0 => rows'[m] # 0) /\ rows'[m] \in Nat
  BY <1>7
<1>9. \/ Channel \in {"email", "reply"} /\ source' = source \ {m}
      \/ source' = source /\ answer'[m] = "5xx"
  BY <1>1 DEF DbFails, Swallows, Accept, Reject, TypeOK
<1>10. Kept(m)' /\ Loaded(m)'
  BY <1>1, <1>2, <1>3, <1>4, <1>5, <1>7, <1>8, <1>9 DEF Kept, Loaded, Busy, Push
<1>11. Explained(m)'
  <2>1. answer'[m] = "2xx" => Channel \in {"email", "reply"}
    BY <1>1 DEF DbFails, Swallows, Accept, Reject, TypeOK
  <2>2. CASE Channel \notin Push
    BY <1>1, <1>2, <1>3, <2>1, <2>2, FatalTroubles DEF Explained
  <2>3. CASE Channel \in Push
    <3>1. m \in source' \/ rows'[m] > 0
      BY <1>5, <1>8, <1>9, <2>3 DEF Kept, Push
    <3> QED BY <1>2, <1>3, <1>8, <2>1, <3>1 DEF Explained, Missed, Held
  <2> QED BY <2>2, <2>3
<1>12. Once(m)'
  <2>1. CASE Channel \notin Push /\ m \notin overlaps
    <3>1. Alone(m)
      BY <1>5, <2>1 DEF Once
    <3>2. rows'[m] <= 1
      BY <1>1, <1>7, <3>1 DEF Alone
    <3>3. m \notin source /\ m \notin carried /\ \A q \in Processes : m \notin inbox[q]
      BY <1>1, <1>3, <3>1 DEF Alone, Busy
    <3>4. m \notin source' /\ m \notin carried' /\ \A q \in Processes : m \notin inbox'[q]
      BY <1>3, <1>9, <3>3
    <3>5. \A q \in Processes : ~Busy(q, m)'
      BY <1>1, <1>3, <1>4, <3>1 DEF Alone, Busy
    <3>6. Alone(m)'
      BY <3>2, <3>4, <3>5 DEF Alone, Busy
    <3> QED BY <3>6 DEF Once
  <2>2. CASE ~(Channel \notin Push /\ m \notin overlaps)
    BY <1>2, <1>3, <2>2 DEF Once
  <2> QED BY <2>1, <2>2
<1>13. Reposted(m)' /\ Noticed(m)'
  <2>1. OneRequest(m) => OneRequest(m)'
    BY <1>1, <1>4 DEF OneRequest, Busy
  <2> QED BY <1>2, <1>3, <1>5, <2>1 DEF Reposted, Noticed, Reposts
<1>14. \A i \in Files(m) : Whole(m, i) => Whole(m, i)'
  BY <1>2, <1>3, <1>7 DEF Whole
<1>15. Complete(m)'
  <2>1. CASE task[<<p, m>>].pc = "send" /\ Row(p, m)
    BY <1>1, <1>3, <1>5, <2>1, RowIsComplete
  <2>2. CASE rows'[m] = rows[m] /\ sent'[m] = sent[m]
    BY <1>2, <1>5, <1>14, <2>2 DEF Complete
  <2> QED BY <1>6, <2>1, <2>2
<1>16. \A q \in Processes : Passed(q, m)'
  BY <1>2, <1>4, <1>5, <1>14 DEF Passed, Busy
<1> QED BY <1>10, <1>11, <1>12, <1>13, <1>15, <1>16 DEF Sound

(* Processes or requests die, or are stopped.                              *)
LEMMA ForgetStep ==
  ASSUME IInv, NEW P \in SUBSET Readers, Crash(P) \/ Stop(P), NEW k \in Ids
  PROVE  Sound(k)'
<1>1. TypeOK /\ Sound(k) /\ Single \in Processes /\ P \subseteq Processes /\ [Next]_vars
  BY ReadersType DEF IInv, Next
<1>2. /\ Channel' = Channel /\ feed' = feed /\ Files(k)' = Files(k) /\ Fatal' = Fatal
  BY <1>1, FeedStays
<1>3. /\ \A p \in P : task'[<<p, k>>].pc = "idle" /\ k \notin inbox'[p]
      /\ \A q \in Processes \ P : task'[<<q, k>>] = task[<<q, k>>] /\ inbox'[q] = inbox[q]
      /\ UNCHANGED <<source, carried, media, overlaps, rows, sent, processed, told, answer>>
      /\ spent \subseteq spent'
  BY <1>1 DEF Crash, Stop, Forget, Idle, Trouble, TypeOK, queueing
<1>4. \/ "crash" \in spent'
      \/ "stop" \in spent' /\ Channel \in Streams \cup {"delta_chat"}
  BY DEF Crash, Stop, Trouble
<1>5. Kept(k) /\ Explained(k) /\ Once(k) /\ Reposted(k) /\ Noticed(k) /\ Loaded(k) /\ Complete(k)
      /\ \A q \in Processes : Passed(q, k)
  BY <1>1 DEF Sound
<1>6. /\ \A q \in Processes : Busy(q, k)' => Busy(q, k) /\ task'[<<q, k>>] = task[<<q, k>>]
      /\ \A q \in Processes : k \in inbox'[q] => k \in inbox[q]
      /\ \A q \in Processes : task'[<<q, k>>].pc # "idle" => Busy(q, k)'
  BY <1>3 DEF Busy
<1>7. Kept(k)' /\ Loaded(k)'
  BY <1>1, <1>2, <1>3, <1>5, <1>6 DEF Kept, Loaded
<1>8. Explained(k)'
  <2>1. CASE Channel \notin Push
    <3>1. spent' \cap Fatal' # {}
      BY <1>1, <1>2, <1>4, <2>1, FatalTroubles
    <3> QED BY <1>2, <1>3, <1>5, <3>1 DEF Explained
  <2>2. CASE Channel \in Push
    BY <1>2, <1>3, <1>5, <2>2 DEF Explained, Missed, Held, Kept
  <2> QED BY <2>1, <2>2
<1>9. Once(k)'
  <2>1. Alone(k) => Alone(k)'
    BY <1>1, <1>3, <1>6 DEF Alone
  <2> QED BY <1>2, <1>3, <1>5, <2>1 DEF Once
<1>10. Reposted(k)' /\ Noticed(k)'
  <2>1. OneRequest(k) => OneRequest(k)'
    BY <1>6 DEF OneRequest
  <2>2. Channel \in Push => "crash" \in spent'
    BY <1>4 DEF Push, Streams
  <2> QED BY <1>2, <1>3, <1>5, <2>1, <2>2 DEF Reposted, Noticed, Reposts
<1>11. Complete(k)' /\ \A q \in Processes : Passed(q, k)'
  <2>1. \A i \in Files(k) : Whole(k, i) => Whole(k, i)'
    BY <1>2, <1>3 DEF Whole
  <2> QED BY <1>2, <1>3, <1>5, <1>6, <2>1 DEF Complete, Passed
<1> QED BY <1>7, <1>8, <1>9, <1>10, <1>11 DEF Sound

LEMMA PollingStep == ASSUME IInv, [Next]_vars PROVE Polling'
<1>1. TypeOK /\ Polling /\ Channel' = Channel
  BY FeedStays DEF IInv
<1> USE <1>1 DEF Polling, TypeOK, carrying
<1>2. ASSUME NEW p \in Readers, Poll(p) \/ Take(p) \/ FetchFails(p) PROVE Polling'
  BY <1>2, ReadersType DEF Poll, Search, FetchMail, Normalize, PollEnds, NoPoll, FetchFails, Take,
              DrainSignal, DrainSimplex, PollOnce, Taken
<1>3. ASSUME NEW P \in SUBSET Readers, Crash(P) \/ Stop(P) PROVE Polling'
  <2>1. /\ poll' = [p \in Processes |-> IF p \in P THEN NoPoll ELSE poll[p]]
        /\ overlaps' = overlaps
    BY <1>3 DEF Crash, Stop, Forget
  <2>2. \A q \in Processes : poll'[q] = poll[q] \/ poll'[q].pc = "wait"
    BY <2>1 DEF NoPoll
  <2> QED BY <2>1, <2>2
<1>4. ASSUME NEW m \in Ids, Arrive(m) \/ Evict(m) PROVE Polling'
  <2>1. CASE \E p \in Readers : Webhook(p, m)
    <3>1. PICK p \in Readers : Webhook(p, m)
      BY <2>1
    <3>2. CASE Channel = "reply"
      <4>1. Once(m) /\ m \in source /\ m \notin overlaps
        BY <3>1, <3>2 DEF IInv, Sound, Webhook, Push
      <4>2. \A q \in Processes : task[<<q, m>>].pc = "idle"
        BY <3>2, <4>1 DEF Once, Alone, Push, Busy
      <4> QED BY <3>1, <4>2 DEF Webhook
    <3>3. CASE Channel \in Push
      BY <3>1, <3>3 DEF Webhook
    <3> QED BY <3>1, <3>2, <3>3 DEF Webhook
  <2>2. CASE ~\E p \in Readers : Webhook(p, m)
    BY <1>4, <2>2 DEF Arrive, Carry, Stream, HandleInbound, PostToGateway, HandleInboundMessage,
                      PostJson, PostOnce, Event, Evict
  <2> QED BY <2>1, <2>2
<1>5. ASSUME NEW p \in Readers, NEW m \in Ids, Handle(p, m) \/ Fails(p, m)
      PROVE  Polling'
  BY <1>5 DEF Handle, Prepare, Check, Send, Mark, Confirm, Fails, PrepareFails, DbFails,
              ConfirmFails, AnswerLost
<1>6. CASE UNCHANGED vars
  BY <1>6 DEF vars
<1> QED BY <1>2, <1>3, <1>4, <1>5, <1>6 DEF Next

LEMMA InvStep == IInv /\ [Next]_vars => IInv'
<1> SUFFICES ASSUME IInv, [Next]_vars PROVE IInv'
  OBVIOUS
<1>1. TypeOK /\ TypeOK' /\ Polling' /\ Ids' = Ids
  BY TypeStep, PollingStep, FeedStays DEF IInv
<1>2. ASSUME NEW k \in Ids PROVE Sound(k)'
  <2>1. Sound(k)
    BY <1>2 DEF IInv
  <2>2. ASSUME NEW p \in Readers, NEW m \in Ids, Handle(p, m) \/ Fails(p, m) PROVE Sound(k)'
    <3>1. CASE k = m
      BY <2>2, <3>1, PrepareStep, PrepareFailsStep, CheckStep, SendStep, MarkStep, ConfirmStep,
         DbFailsStep DEF Handle, Fails
    <3>2. CASE k # m
      <4>1. Same(k)
        BY <1>1, <2>2, <3>2, ReadersType, OtherHandled
      <4> QED BY <1>1, <2>1, <4>1, SameStays
    <3> QED BY <3>1, <3>2
  <2>3. CASE UNCHANGED vars
    <3>1. Same(k)
      BY <2>3 DEF vars, Same
    <3> QED BY <1>1, <2>1, <3>1, SameStays
  <2> QED BY <1>2, <2>2, <2>3, PollStep, ArriveStep, ForgetStep DEF Next
<1> QED BY <1>1, <1>2 DEF IInv

LEMMA Inductive == Spec => []IInv
BY InvInit, InvStep, PTL DEF Spec

-----------------------------------------------------------------------------
(* A message is gone without a row for a cause that is named, and what     *)
(* Telegram and BlueBubbles post is never gone: whatever the processes do  *)
(* and however the troubles fall, a lost connection to a bridge among them *)
(* (email_imap_client.py:32, 96; sig_receiver.py:83; main.rs:366, 556;     *)
(* dc_client.py:382; tg_channel.py).                                       *)
THEOREM LossesHaveACause == Spec => []LossesAreExplained
<1>1. IInv => LossesAreExplained
  BY DEF IInv, Sound, Explained, LossesAreExplained
<1> QED BY <1>1, Inductive, PTL

(* A second row, and a second notice to the writer, have a cause: another  *)
(* process fetched the mail as well, requests with one message overlapped, *)
(* or the handler of a webhook failed or died before its mark; a notice    *)
(* also a failed confirmation or a lost answer.                            *)
THEOREM RowsHaveACause == Spec => []RowsAreExplained
<1>1. ASSUME IInv, NEW m \in Ids, rows[m] > 1
      PROVE  \/ Channel \in Push \cup {"email"} /\ m \in overlaps
             \/ Channel \in Push /\ spent \cap {"db", "crash"} # {}
  <2>1. ~(rows[m] <= 1) /\ Once(m) /\ Reposted(m)
    BY <1>1 DEF IInv, TypeOK, Sound
  <2>2. m \in overlaps => Channel \in Push \cup {"email"}
    BY <1>1 DEF IInv, Polling
  <2> QED BY <2>1, <2>2 DEF Once, Alone, Reposted, Marked
<1>2. ASSUME IInv, NEW m \in Ids, told[m] > 1
      PROVE  \/ \E i, j \in Files(m) : i # j /\ {feed[m].files[i], feed[m].files[j]} = {"big"}
             \/ m \in overlaps
             \/ spent \cap Reposts # {}
  <2>1. Noticed(m) /\ told[m] # 0
    BY <1>2 DEF IInv, Sound
  <2>2. CASE ToldOnce(m)
    BY <1>2, <2>2 DEF ToldOnce, Large
  <2>3. CASE ~ToldOnce(m)
    BY <2>1, <2>3 DEF Noticed
  <2> QED BY <2>2, <2>3
<1>3. IInv => RowsAreExplained
  BY <1>1, <1>2 DEF RowsAreExplained, Reposts
<1> QED BY <1>3, Inductive, PTL

(* A row has the text and the files, but for those that could not be had   *)
(* (email_imap_client.py:204; wa_attachments.py:48; tg_attachments.py:211).*)
THEOREM RowsComeWhole == Spec => []RowsAreWhole
<1>1. IInv => RowsAreWhole
  BY DEF IInv, Sound, Complete, RowsAreWhole
<1> QED BY <1>1, Inductive, PTL

-----------------------------------------------------------------------------
(* Listener: type correctness.                                             *)

LEMMA SpendType == ASSUME ListenerTypeOK, NEW d \in Disturbances, Spend(d)
                   PROVE  budget' \in [Disturbances -> Nat]
BY DEF Spend, ListenerTypeOK

LEMMA WokenType == ASSUME ListenerTypeOK
                   PROVE  Woken(worker) \in [Queues ->
       {"top", "reading", "failed", "empty", "registering", "waiting", "woken", "ended"}]
BY DEF ListenerTypeOK, Woken

LEMMA TakeRowsType == ASSUME ListenerTypeOK, NEW q \in Queues, TakeRows(q)
                  PROVE  fresh' \in [Queues -> Nat] /\ again' \in [Queues -> Nat]
BY DEF ListenerTypeOK, TakeRows

LEMMA QueueType == ASSUME ListenerTypeOK, NEW q \in Queues,
                          Insert(q) \/ Reappear(q) \/ LoseConnection(q)
                            \/ MuteConnection(q) \/ Notified(q)
                   PROVE  ListenerTypeOK'
<1> USE DEF ListenerTypeOK
<1>1. CASE Insert(q)
  <2>1. (notes[q] \/ conn[q] = "open") \in BOOLEAN
    OBVIOUS
  <2>2. notes' \in [Queues -> BOOLEAN]
    BY <1>1, <2>1, Zenon DEF Insert
  <2> QED BY <1>1, <2>2 DEF Insert
<1>2. CASE Reappear(q)
  BY <1>2, SpendType DEF Reappear, Disturbances
<1>3. CASE LoseConnection(q) \/ MuteConnection(q)
  BY <1>3, SpendType DEF LoseConnection, MuteConnection, Disconnect, Disturbances
<1>4. CASE Notified(q)
  BY <1>4, WokenType DEF Notified
<1> QED BY <1>1, <1>2, <1>3, <1>4

LEMMA WorkerType == ASSUME ListenerTypeOK, NEW q \in Queues,
                           WorkerStep(q) \/ Timeout(q) \/ ReadFault(q) \/ RegisterFault(q)
                    PROVE  ListenerTypeOK'
<1> USE DEF ListenerTypeOK
<1>1. CASE StartRead(q)
  BY <1>1 DEF StartRead
<1>2. CASE Snapshot(q)
  BY <1>2, TakeRowsType DEF Snapshot
<1>3. CASE SleepOver(q)
  BY <1>3 DEF SleepOver
<1>4. CASE EnterWait(q)
  BY <1>4 DEF EnterWait, Clear, OnTheirWay
<1>5. CASE Register(q)
  BY <1>5 DEF Register
<1>6. CASE Registered(q)
  BY <1>6, WokenType DEF Registered, Clear, OnTheirWay
<1>7. CASE Wake(q)
  BY <1>7 DEF Wake, Clear, OnTheirWay
<1>8. CASE Timeout(q)
  BY <1>8 DEF Timeout
<1>9. CASE ReadFault(q)
  BY <1>9, TakeRowsType, SpendType DEF ReadFault, Disturbances
<1>10. CASE RegisterFault(q)
  BY <1>10, SpendType DEF RegisterFault, Disturbances
<1> QED BY <1>1, <1>2, <1>3, <1>4, <1>5, <1>6, <1>7, <1>8, <1>9, <1>10 DEF WorkerStep

LEMMA ListenerTypeStep == ListenerTypeOK /\ [ListenerNext]_listenerVars => ListenerTypeOK'
<1> SUFFICES ASSUME ListenerTypeOK, [ListenerNext]_listenerVars PROVE ListenerTypeOK'
  OBVIOUS
<1>1. CASE UNCHANGED listenerVars
  BY <1>1 DEF ListenerTypeOK, listenerVars
<1>2. CASE StopAll
  BY <1>2, SpendType, WokenType DEF ListenerTypeOK, StopAll, Disturbances
<1>3. CASE \E q \in Queues :
             \/ WorkerStep(q) \/ Timeout(q) \/ Notified(q)
             \/ Insert(q) \/ Reappear(q) \/ ReadFault(q) \/ RegisterFault(q)
             \/ LoseConnection(q) \/ MuteConnection(q)
  BY <1>3, QueueType, WorkerType
<1> QED BY <1>1, <1>2, <1>3 DEF ListenerNext

LEMMA ListenerTypeInit == ListenerInit => ListenerTypeOK
<1> SUFFICES ASSUME ListenerInit PROVE ListenerTypeOK
  OBVIOUS
<1>1. notes \in [Queues -> BOOLEAN] /\ event \in BOOLEAN /\ stopping \in BOOLEAN
  BY Zenon DEF ListenerInit
<1>2. /\ fresh \in [Queues -> Nat] /\ again \in [Queues -> Nat]
      /\ todo \in [Queues -> Nat] /\ budget \in [Disturbances -> Nat]
  BY ListenerAssumption DEF ListenerInit
<1> QED BY <1>1, <1>2 DEF ListenerInit, ListenerTypeOK

(* Every variable keeps to its type (pg_message_queue.py:259-321, 361-366; *)
(* base.py:50-111).                                                        *)
THEOREM ListenerTypeCorrect == ListenerSpec => []ListenerTypeOK
BY ListenerTypeInit, ListenerTypeStep, PTL DEF ListenerSpec

-----------------------------------------------------------------------------
(* Listener: the inductive invariant.                                      *)

(* A worker that has read an empty queue, and has a connection, goes to    *)
(* the wait with the event set or a NOTIFY coming, if a row has come since.*)
Warned(q) ==
  /\ At(q, "failed") => q \in misled
  /\ At(q, "empty") /\ conn[q] = "open" /\ fresh[q] > 0 => notes[q] \/ event \/ q \in misled
  /\ At(q, "waiting") /\ conn[q] = "open" /\ fresh[q] > 0 => notes[q] \/ q \in misled

ListenerInv == ListenerTypeOK /\ \A q \in Queues : Warned(q)

LEMMA ListenerInvInit == ListenerInit => ListenerInv
BY ListenerTypeInit DEF ListenerInit, ListenerInv, Warned, At

(* What a step of one queue, or of its worker, does to another's.          *)
LEMMA OtherQueue ==
  ASSUME ListenerTypeOK, NEW q \in Queues, NEW p \in Queues \ {q}, Warned(p),
         \/ WorkerStep(q) \/ Timeout(q) \/ Notified(q)
         \/ Insert(q) \/ Reappear(q) \/ ReadFault(q) \/ RegisterFault(q)
         \/ LoseConnection(q) \/ MuteConnection(q)
  PROVE  Warned(p)'
<1> USE DEF ListenerTypeOK, Warned, At
<1>1. CASE StartRead(q)
  BY <1>1 DEF StartRead
<1>2. CASE Snapshot(q) \/ ReadFault(q)
  BY <1>2 DEF Snapshot, ReadFault, TakeRows
<1>3. CASE SleepOver(q) \/ Timeout(q) \/ RegisterFault(q) \/ Register(q)
  BY <1>3 DEF SleepOver, Timeout, RegisterFault, Register
<1>4. CASE EnterWait(q) \/ Wake(q)
  BY <1>4 DEF EnterWait, Wake, Clear, OnTheirWay
<1>5. CASE Registered(q)
  BY <1>5 DEF Registered, Woken, Clear, OnTheirWay
<1>6. CASE Notified(q)
  BY <1>6 DEF Notified, Woken
<1>7. CASE Insert(q) \/ Reappear(q)
  BY <1>7 DEF Insert, Reappear
<1>8. CASE LoseConnection(q) \/ MuteConnection(q)
  BY <1>8 DEF LoseConnection, MuteConnection, Disconnect
<1> QED BY <1>1, <1>2, <1>3, <1>4, <1>5, <1>6, <1>7, <1>8 DEF WorkerStep

LEMMA OwnQueue ==
  ASSUME ListenerTypeOK, NEW q \in Queues, Warned(q),
         \/ WorkerStep(q) \/ Timeout(q) \/ Notified(q)
         \/ Insert(q) \/ Reappear(q) \/ ReadFault(q) \/ RegisterFault(q)
         \/ LoseConnection(q) \/ MuteConnection(q)
  PROVE  Warned(q)'
<1> USE DEF ListenerTypeOK, Warned, At
<1>1. CASE StartRead(q)
  BY <1>1 DEF StartRead
<1>2. CASE Snapshot(q)
  <2>1. PICK f \in 0..fresh[q] : fresh' = [fresh EXCEPT ![q] = @ - f]
    BY <1>2 DEF Snapshot, TakeRows
  <2>2. worker'[q] = "empty" => fresh'[q] = 0
    BY <1>2, <2>1 DEF Snapshot
  <2>3. worker'[q] \in {"empty", "top"}
    BY <1>2 DEF Snapshot
  <2> QED BY <2>2, <2>3
<1>3. CASE ReadFault(q)
  BY <1>3 DEF ReadFault
<1>4. CASE SleepOver(q) \/ Timeout(q) \/ RegisterFault(q) \/ Register(q)
  BY <1>4 DEF SleepOver, Timeout, RegisterFault, Register
<1>5. CASE EnterWait(q) \/ Wake(q)
  BY <1>5 DEF EnterWait, Wake, Clear, OnTheirWay
<1>6. CASE Registered(q)
  BY <1>6 DEF Registered, Woken, Clear, OnTheirWay
<1>7. CASE Notified(q)
  BY <1>7 DEF Notified, Woken
<1>8. CASE Insert(q)
  <2>1. conn[q] = "open" => notes'[q]
    BY <1>8 DEF Insert
  <2> QED BY <1>8, <2>1 DEF Insert
<1>9. CASE Reappear(q)
  BY <1>9 DEF Reappear
<1>10. CASE LoseConnection(q) \/ MuteConnection(q)
  BY <1>10 DEF LoseConnection, MuteConnection, Disconnect
<1> QED BY <1>1, <1>2, <1>3, <1>4, <1>5, <1>6, <1>7, <1>8, <1>9, <1>10 DEF WorkerStep

LEMMA ListenerInvStep == ListenerInv /\ [ListenerNext]_listenerVars => ListenerInv'
<1> SUFFICES ASSUME ListenerInv, [ListenerNext]_listenerVars PROVE ListenerInv'
  OBVIOUS
<1>1. ListenerTypeOK'
  BY ListenerTypeStep DEF ListenerInv
<1>2. \A p \in Queues : Warned(p)'
  <2> TAKE p \in Queues
  <2>1. ListenerTypeOK /\ Warned(p)
    BY DEF ListenerInv
  <2>2. CASE UNCHANGED listenerVars
    BY <2>1, <2>2 DEF listenerVars, Warned, At
  <2>3. CASE StopAll
    BY <2>1, <2>3 DEF StopAll, Woken, Warned, At, ListenerTypeOK
  <2>4. ASSUME NEW q \in Queues,
               \/ WorkerStep(q) \/ Timeout(q) \/ Notified(q)
               \/ Insert(q) \/ Reappear(q) \/ ReadFault(q) \/ RegisterFault(q)
               \/ LoseConnection(q) \/ MuteConnection(q)
        PROVE  Warned(p)'
    <3>1. CASE p = q
      BY <2>1, <2>4, <3>1, OwnQueue
    <3>2. CASE p # q
      BY <2>1, <2>4, <3>2, OtherQueue
    <3> QED BY <3>1, <3>2
  <2> QED BY <2>2, <2>3, <2>4 DEF ListenerNext
<1> QED BY <1>1, <1>2 DEF ListenerInv

(* A wake-up is lost to a failed read or to another worker of the process, *)
(* and in no other way, however many queues share the event and however    *)
(* often connections break (base.py:89-97, pg_message_queue.py:287-313).   *)
THEOREM WakeUpsHaveACause == ListenerSpec => []WakeUpsAreExplained
<1>1. ListenerInv => WakeUpsAreExplained
  BY DEF ListenerInv, Warned, WakeUpsAreExplained
<1> QED BY <1>1, ListenerInvInit, ListenerInvStep, PTL DEF ListenerSpec

=============================================================================
