---------------------------- MODULE Conversation ----------------------------
(***************************************************************************)
(* A conversation from end to end: updates of the messengers become rows   *)
(* under an idempotency key and a public identity, rows become the         *)
(* conversations of Chatwoot's contacts, and what an agent writes there    *)
(* finds its way back to a connector and an address.                       *)
(*                                                                         *)
(* The public identity is an alias (ANONYMIZE_USERS) or the address with   *)
(* the channel's prefix; Delta Chat puts an actor id of its own under      *)
(* either.  The setting may be changed by a restart while Chatwoot keeps   *)
(* its contacts.                                                           *)
(*                                                                         *)
(* The handler that publishes is one step here (WebhookIngest takes it     *)
(* apart), the worker another (WorkerQueue, ChatwootDelivery).             *)
(***************************************************************************)
EXTENDS Envelopes, Integers, FiniteSets

CONSTANTS
  Dues,        \* the sets of updates of which one happens
  Processes,   \* gateway processes
  Reposts,     \* how often updates may be posted again, in all
  Replies      \* how many replies the agents write, in all

ASSUME ConversationAssumption ==
  /\ Processes # {} /\ Reposts \in Nat /\ Replies \in Nat
  \* Telegram's and BlueBubbles' messages have an id.
  /\ \A D \in Dues : \A u \in D :
       /\ u.channel \in Channels
       /\ u.channel \in {"telegram", "imessage"} /\ u.sender # None => u.message # None
  \* A sender's messages have different ids, on Telegram those of one chat only;
  \* mails have the uid of their mailbox.
  /\ \A D \in Dues : \A u, v \in D :
       /\ u.id = v.id => u = v
       /\ /\ u.channel = v.channel /\ u.connector = v.connector /\ u.channel # "email"
          /\ u.sender = v.sender /\ u.message = v.message /\ u.message # None
          /\ u.channel = "telegram" => u.chat = v.chat
          => u = v

VARIABLES
  due,           \* the updates of this behaviour
  hooks,         \* the channels whose webhook URL is configured in Chatwoot
  anonymize,     \* ANONYMIZE_USERS
  switched,      \* history: it has been changed
  posted,        \* the updates that have been posted
  reposts,       \* how often that happened again
  task,          \* what the handler of an update is at, and its last answer
  actors,        \* identity_mappings
  aliases,       \* contact_aliases
  processed,     \* processed_keys
  rows,          \* history: rows sent for each update
  incoming,      \* the queue to Chatwoot
  wrote,         \* who wrote in which conversation of Chatwoot's
  written,       \* the agents' replies
  answers,       \* what became of the webhook of a reply at a URL
  outgoing,      \* the queue to the channels
  delivered      \* replies handed to a messenger

settings == <<due, hooks, anonymize, switched>>
ingest == <<posted, reposts, task, actors, incoming, rows>>
back == <<written, answers, outgoing, delivered>>
conversationVars == <<settings, ingest, aliases, processed, wrote, back>>

NoTask == [pc |-> "idle", actor |-> <<>>, result |-> "none"]
Conversations == {w.conv : w \in wrote}

-----------------------------------------------------------------------------
(* Identities.                                                             *)

NewActor(u) == <<"delta_chat", u.id>>
Actor(u) == {a.actor : a \in {b \in actors : b.address = u.sender}}

(* The row of an address is inserted or its actor id replaced.             *)
PutActor(u) ==
  actors' = {a \in actors : a.address # u.sender}
              \cup {[address |-> u.sender, actor |-> NewActor(u)]}

(* Mutant: the channel is left out of the key of contact_aliases.          *)
AliasOfId(channel, real) == <<"alias", "">> \o real

(* gen_random_uuid(), once for each channel and id.                        *)
Alias(channel, real) == <<"alias", channel>> \o real

-----------------------------------------------------------------------------
(* From the messenger to the queue.                                        *)

Finish(u, result) == task' = [task EXCEPT ![u] = [NoTask EXCEPT !.result = result]]
GoOn(u, pc, actor) == task' = [task EXCEPT ![u] = [task[u] EXCEPT !.pc = pc, !.actor = actor]]

(* The request of an update is taken up, also when it is posted again.     *)
(* Delta Chat looks for the writer's actor id.                             *)
Receive(u) ==
  /\ task[u].pc = "idle"
  /\ posted' = posted \cup {u}
  /\ IF u \in posted THEN reposts < Reposts /\ reposts' = reposts + 1 ELSE UNCHANGED reposts
  /\ \/ ById(u.channel, u.connector) = {} /\ Finish(u, "no route")
     \/ /\ ById(u.channel, u.connector) # {}
        /\ u.channel # "delta_chat"
        /\ GoOn(u, "publish", <<>>)
     \/ /\ ById(u.channel, u.connector) # {}
        /\ u.channel = "delta_chat"
        /\ \/ u.sender = None /\ Finish(u, "error")
           \/ /\ u.sender # None
              /\ \/ \E a \in Actor(u) : GoOn(u, "publish", a)
                 \/ Actor(u) = {} /\ GoOn(u, "insert", NewActor(u))
  /\ UNCHANGED <<settings, actors, rows, aliases, processed, incoming, wrote, back>>

(* The SELECT and the INSERT are two statements: another handler may have  *)
(* inserted the row between them, whose actor id is then overwritten.      *)
Insert(u) ==
  /\ task[u].pc = "insert"
  /\ PutActor(u)
  /\ GoOn(u, "publish", task[u].actor)
  /\ UNCHANGED <<settings, posted, reposts, rows, aliases, processed, incoming, wrote, back>>

Mark(key) == processed' = processed \cup {key}

Identifier(u, v) ==
  IF anonymize THEN Alias(u.channel, v.external) ELSE AddPrefix(v.external, u.channel)

Queue(u, v, c) ==
  /\ rows' = [rows EXCEPT ![u] = @ + 1]
  /\ incoming' = incoming \cup {[update |-> u, connector |-> c, identifier |-> Identifier(u, v)]}

(* build_channel_message, the identity and publish_channel_message.        *)
Publish(u) ==
  /\ task[u].pc = "publish"
  /\ \E c \in ById(u.channel, u.connector), p \in Processes :
       LET v == Parse(u, c, p, task[u].actor)
       IN \/ /\ v.status # 200
             /\ Finish(u, IF v.status = 204 THEN "wrong" ELSE "error")
             /\ UNCHANGED <<aliases, processed, rows, incoming>>
          \/ \E key \in v.key :
               /\ aliases' = IF anonymize
                             THEN aliases \cup {[channel |-> u.channel, real |-> v.external]}
                             ELSE aliases
               /\ \/ /\ key \in processed
                     /\ Finish(u, "known")
                     /\ UNCHANGED <<processed, rows, incoming>>
                  \/ /\ key \notin processed
                     /\ Queue(u, v, c) /\ Mark(key)
                     /\ Finish(u, "queued")
  /\ UNCHANGED <<settings, posted, reposts, actors, wrote, back>>

(* The worker: a message without text or files is deleted undelivered.     *)
Deliver(m) ==
  /\ m \in incoming
  /\ incoming' = incoming \ {m}
  /\ wrote' = IF m.update.text = None THEN wrote
              ELSE wrote \cup {[conv |-> [identifier |-> m.identifier, inbox |-> m.connector.inbox],
                                connector |-> m.connector, address |-> m.update.sender]}
  /\ UNCHANGED <<settings, posted, reposts, task, actors, rows, aliases, processed, back>>

-----------------------------------------------------------------------------
(* From Chatwoot to the messenger.                                         *)

Count(conv) == Cardinality({w \in written : w.conv = conv})

Write(conv) ==
  /\ conv \in Conversations
  /\ Cardinality(written) < Replies
  /\ written' = written \cup {[conv |-> conv, n |-> Count(conv) + 1]}
  /\ UNCHANGED <<settings, ingest, aliases, processed, wrote, answers, outgoing, delivered>>

(* Mutant: the channel is that of the URL.                                 *)
TargetOfUrl(identifier, url) == url

(* The channel whose prefix an identifier has, else that of the URL.       *)
Target(identifier, url) ==
  IF Head(identifier) \in Channels THEN Head(identifier) ELSE url

RealIds(identifier) == {a.real : a \in {b \in aliases : Alias(b.channel, b.real) = identifier}}

(* What the channel is given for the identifier of the contact: one that   *)
(* is no alias passes as it is while users are anonymous.                  *)
Recipients(identifier, url) ==
  CASE anonymize /\ Head(identifier) \in Channels -> {identifier}
    [] anonymize /\ Head(identifier) \notin Channels -> RealIds(identifier)
    [] ~anonymize -> {StripPrefix(identifier, Target(identifier, url))}

(* Mutant: an unknown inbox is served by any connector of the channel.     *)
RouteByChannel(channel, inbox) == {c \in Connectors : c.channel = channel}

RouteByInbox(channel, inbox) == ByInbox(channel, inbox)

MessageId(r) == <<r.n, r.conv.inbox>> \o r.conv.identifier

Result(r, url, first, result) ==
  answers' = answers \cup {[reply |-> r, url |-> url, first |-> first, result |-> result]}

(* The webhook of a reply at one of the URLs.  The conversation is listed  *)
(* as it is when the webhook is composed, which may be after a later reply.*)
Webhook(r, url) ==
  /\ \A a \in answers : a.reply = r => a.url # url
  /\ \E first \in {q \in written : q.conv = r.conv /\ q.n >= r.n} :
       LET channel == Target(r.conv.identifier, url)
           connectors == RouteByInbox(channel, r.conv.inbox)
           recipients == Recipients(r.conv.identifier, url)
       IN \/ /\ connectors = {} \/ recipients = {}
             /\ Result(r, url, first, "no route")
             /\ UNCHANGED <<processed, outgoing>>
          \/ \E c \in connectors, to \in recipients :
               LET key == Reply(c, to, MessageId(first))
               IN \/ /\ key \in processed
                     /\ Result(r, url, first, "known")
                     /\ UNCHANGED <<processed, outgoing>>
                  \/ /\ key \notin processed
                     /\ outgoing' = outgoing \cup {[reply |-> r, connector |-> c, to |-> to]}
                     /\ processed' = processed \cup {key}
                     /\ Result(r, url, first, "queued")
  /\ UNCHANGED <<settings, ingest, aliases, wrote, written, delivered>>

(* Where the transport sends: Delta Chat looks the actor id up, and for    *)
(* one that is not there raises, again at each retry.                      *)
Addresses(o) ==
  IF o.connector.channel = "delta_chat"
  THEN {<<a.address>> : a \in {b \in actors : b.actor = o.to}}
  ELSE {o.to}

Send(o) ==
  /\ o \in outgoing
  /\ outgoing' = outgoing \ {o}
  /\ delivered' = delivered \cup {[reply |-> o.reply, connector |-> o.connector, to |-> a]
                                    : a \in Addresses(o)}
  /\ UNCHANGED <<settings, ingest, aliases, processed, wrote, written, answers>>

-----------------------------------------------------------------------------
(* The gateway comes back with the other setting; its handlers are gone.   *)
Restart ==
  /\ ~switched
  /\ switched' = TRUE
  /\ anonymize' = ~anonymize
  /\ task' = [u \in due |-> [task[u] EXCEPT !.pc = "idle", !.actor = <<>>]]
  /\ UNCHANGED <<due, hooks, posted, reposts, actors, rows, incoming, aliases, processed, wrote, back>>

ConversationInit ==
  /\ due \in Dues
  /\ hooks \in (SUBSET {u.channel : u \in due}) \ {{}}
  /\ anonymize \in BOOLEAN /\ switched = FALSE
  /\ posted = {} /\ reposts = 0 /\ task = [u \in due |-> NoTask]
  /\ rows = [u \in due |-> 0]
  /\ actors = {} /\ aliases = {} /\ processed = {}
  /\ incoming = {} /\ wrote = {}
  /\ written = {} /\ answers = {} /\ outgoing = {} /\ delivered = {}

ConversationNext ==
  \/ \E u \in due : Receive(u) \/ Insert(u) \/ Publish(u)
  \/ \E m \in incoming : Deliver(m)
  \/ \E conv \in Conversations : Write(conv)
  \/ \E r \in written, url \in hooks : Webhook(r, url)
  \/ \E o \in outgoing : Send(o)
  \/ Restart

ConversationSpec == ConversationInit /\ [][ConversationNext]_conversationVars

-----------------------------------------------------------------------------
(* A reply goes to the one who wrote in its conversation, from the         *)
(* connector he wrote to, whichever URL it came in by.  Only once          *)
(* ANONYMIZE_USERS has changed may the channel be given the identifier of  *)
(* the contact instead, its prefix still on or its alias unresolved: what  *)
(* makes no address for most messengers is one to which mail is sent       *)
(* (handlers.py:82-86, 148; email_transport.py:42; README.md:81).          *)
RepliesReachTheirWriter ==
  \A d \in delivered :
    \E w \in wrote : /\ w.conv = d.reply.conv /\ w.connector = d.connector
                     /\ \/ d.to = <<w.address>>
                        \/ /\ switched /\ d.to = w.conv.identifier
                           /\ w.connector.channel # "delta_chat"

(* Two Delta Chat handlers have each given a new writer an actor id, and   *)
(* that of this conversation is the one that was overwritten.              *)
ActorOf(identifier) == SubSeq(identifier, Len(identifier) - 1, Len(identifier))
Overwritten(w) ==
  /\ w.connector.channel = "delta_chat"
  /\ \A a \in actors : a.actor # ActorOf(w.conv.identifier)

(* A conversation is that of one writer, and a writer has one conversation *)
(* with each connector and one contact in all, unless the setting changed  *)
(* or his actor id was overwritten (identity_store.py:45).                 *)
OneContactEach ==
  \A v, w \in wrote :
    LET same == v.connector.channel = w.connector.channel /\ v.address = w.address
    IN /\ v.conv.identifier = w.conv.identifier => same
       /\ same => \/ v.conv.identifier = w.conv.identifier
                  \/ switched \/ Overwritten(v) \/ Overwritten(w)

Settled(r) ==
  /\ \A url \in hooks : \E a \in answers : a.reply = r /\ a.url = url
  /\ \A o \in outgoing : o.reply # r
Keyless(u) == u.channel = "session" /\ u.message = None

(* The key of a Telegram message does not name the chat.                   *)
InOtherChat(u, v) ==
  /\ u.channel = "telegram" /\ v.channel = "telegram"
  /\ u.connector = v.connector /\ u.message = v.message
  /\ u.chat # v.chat

TakenFor(u, v) ==
  /\ v # u /\ v.sender = u.sender
  /\ \/ Keyless(u) /\ v.text = u.text
     \/ InOtherChat(u, v)

(* An update that was turned away as known has a row of its own, and one   *)
(* row only however often it is posted; but a Session message without an   *)
(* id is taken for an earlier one with the same text, or for a new one in  *)
(* another process (session_envelope_factory.py:109), and a Telegram       *)
(* message for one of the same sender and number in another chat           *)
(* (tg_envelope_factory.py:29-35).                                         *)
(* A reply whose webhooks have all been answered and that waits in no      *)
(* queue has reached its writer, or there is a cause: the setting changed, *)
(* the writer's actor id was overwritten, an alias came in by the URL of   *)
(* another channel only, or the webhook of another reply listed the same   *)
(* message first and so had the same key (tg_envelope_factory.py:63).      *)
LossesAreExplained ==
  /\ \A u \in due :
       /\ task[u].result = "known" /\ rows[u] = 0 =>
            \E v \in due : rows[v] > 0 /\ TakenFor(u, v)
       /\ rows[u] > 1 => Keyless(u)
  /\ \A r \in written : Settled(r) /\ (\A d \in delivered : d.reply # r) =>
       \/ switched
       \/ \E w \in wrote : w.conv = r.conv /\ Overwritten(w)
       \/ /\ Head(r.conv.identifier) \notin Channels
          /\ \A w \in wrote : w.conv = r.conv => w.connector.channel \notin hooks
       \/ \E a, b \in answers :
            a.reply # r /\ a.result = "queued" /\ b.reply = r /\ b.first = a.first

=============================================================================
