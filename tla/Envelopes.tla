----------------------------- MODULE Envelopes -----------------------------
(***************************************************************************)
(* What each channel makes of an update from its messenger: whether it is  *)
(* a message at all, who is to be answered, and the idempotency key; and   *)
(* what becomes of the identifier of a Chatwoot contact on the way back.   *)
(*                                                                         *)
(* An address or identifier is the sequence of the strings that are joined *)
(* with "_"; hashes are taken to have no collisions; a connector's token,  *)
(* number or mailbox is its salt.                                          *)
(***************************************************************************)
EXTENDS Sequences

CONSTANTS
  Connectors,   \* records: id, channel, inbox, salt
  None          \* a field that is not there

ASSUME EnvelopesAssumption ==
  \* One API inbox per connector (docs/connector_setup_guide.md:28).
  /\ \A c, d \in Connectors : c.inbox = d.inbox \/ c.id = d.id => c = d

Channels == {"telegram", "whatsapp", "imessage", "signal", "simplex", "session",
             "email", "delta_chat"}

-----------------------------------------------------------------------------
(* The routing tables.                                                     *)

ById(channel, id) == {c \in Connectors : c.channel = channel /\ c.id = id}
ByInbox(channel, inbox) == {c \in Connectors : c.channel = channel /\ c.inbox = inbox}

(* ConnectorNotFoundError is a 404; a KeyError or ValueError is not known  *)
(* to _handle_exceptions.                                                  *)
NoRoute(channel) == IF channel \in {"delta_chat", "email"} THEN 404 ELSE 500

-----------------------------------------------------------------------------
(* Keys and prefixes.                                                      *)

Key(from, to, connector, extra, external, message) ==
  [from |-> from, to |-> to, connector |-> connector.id, extra |-> extra,
   external |-> external, message |-> message]

AddPrefix(id, channel) == <<channel>> \o id
StripPrefix(id, channel) == IF Head(id) = channel THEN Tail(id) ELSE id

-----------------------------------------------------------------------------
(* Updates.  A verdict is the status of the answer and, of a message, its  *)
(* key and the address of its writer, or of an actor id in its place.      *)

Verdict(status, external, key) == [status |-> status, external |-> external, key |-> key]
Wrong == Verdict(204, <<>>, {})
Error == Verdict(500, <<>>, {})

Message(u, c, extra, external, message) ==
  Verdict(200, external, {Key(u.channel, "chatwoot", c, extra, external, message)})

(* Edited messages, callbacks and the like have no message.from.  The key  *)
(* names the sender, not the chat in which the message has its number.     *)
NoTelegramSender(u) == u.sender = None

TelegramUpdate(u, c) ==
  IF NoTelegramSender(u) THEN Wrong
  ELSE Message(u, c, <<c.salt>>, <<u.sender>>, <<u.message>>)

WhatsAppUpdate(u, c) ==
  IF None \in {u.sender, u.message} THEN Wrong
  ELSE Message(u, c, <<>>, <<u.sender>>, <<u.message>>)

(* The sender is the chat, which may be that of a group; the server posts  *)
(* our own messages too.                                                   *)
NoIMessageSender(u) == u.own \/ u.sender = None

IMessageUpdate(u, c) ==
  IF NoIMessageSender(u) THEN Wrong
  ELSE Message(u, c, <<c.salt>>, <<u.sender>>, <<u.message>>)

(* text is None in an update with neither text nor attachment.             *)
SignalUpdate(u, c) ==
  IF u.own \/ None \in {u.sender, u.message, u.text} THEN Wrong
  ELSE Message(u, c, <<c.salt>>, <<u.sender>>, <<u.message>>)

SimplexUpdate(u, c) ==
  IF u.own \/ None \in {u.sender, u.message, u.text} THEN Wrong
  ELSE Message(u, c, <<c.salt>>, <<u.sender>>, <<u.message>>)

(* hash() of a string differs from process to process.                     *)
SessionMessageId(u, process) ==
  IF u.message # None THEN <<u.message>> ELSE <<u.sender, u.text, process>>

NoSessionSender(u) == u.sender = None

SessionUpdate(u, c, process) ==
  IF NoSessionSender(u) THEN Wrong
  ELSE Message(u, c, <<c.salt>>, <<u.sender>>, SessionMessageId(u, process))

(* A mail's uid is unique in its mailbox: it is named by the update.       *)
EmailMessageId(u) == IF u.message # None THEN <<u.message>> ELSE <<"uid", u.id>>

NoEmailSender(u) == u.sender = None

EmailUpdate(u, c) ==
  IF NoEmailSender(u) THEN Error
  ELSE Message(u, c, <<c.salt, u.id>>, <<u.sender>>, EmailMessageId(u))

(* The writer is known to the rest of the gateway by an actor id only.     *)
DeltaChatUpdate(u, c, actor) ==
  IF None \in {u.sender, u.message} THEN Error
  ELSE [Message(u, c, <<c.salt>>, <<u.sender>>, <<u.message>>) EXCEPT !.external = actor]

Parse(u, c, process, actor) ==
  CASE u.channel = "telegram" -> TelegramUpdate(u, c)
    [] u.channel = "whatsapp" -> WhatsAppUpdate(u, c)
    [] u.channel = "imessage" -> IMessageUpdate(u, c)
    [] u.channel = "signal" -> SignalUpdate(u, c)
    [] u.channel = "simplex" -> SimplexUpdate(u, c)
    [] u.channel = "session" -> SessionUpdate(u, c, process)
    [] u.channel = "email" -> EmailUpdate(u, c)
    [] u.channel = "delta_chat" -> DeltaChatUpdate(u, c, actor)

-----------------------------------------------------------------------------
(* Replies.  first is the id of the first message that the webhook lists  *)
(* under its conversation; the key takes it for the id of the reply.       *)

ReplyKey(channel, c, extra, external, first) ==
  Key("chatwoot", channel, c, extra, external, first)

TelegramReply(c, to, first) == ReplyKey("telegram", c, <<c.salt>>, to, first)
WhatsAppReply(c, to, first) == ReplyKey("whatsapp", c, <<>>, to, first)
IMessageReply(c, to, first) == ReplyKey("imessage", c, <<c.salt>>, to, first)
SignalReply(c, to, first) == ReplyKey("signal", c, <<c.salt>>, to, first)
SimplexReply(c, to, first) == ReplyKey("simplex", c, <<c.salt>>, to, first)
SessionReply(c, to, first) == ReplyKey("session", c, <<c.salt>>, to, first)
EmailReply(c, to, first) == ReplyKey("email", c, <<>>, to, first)
DeltaChatReply(c, actor, first) == ReplyKey("delta_chat", c, <<>>, actor, first)

Reply(c, to, first) ==
  CASE c.channel = "telegram" -> TelegramReply(c, to, first)
    [] c.channel = "whatsapp" -> WhatsAppReply(c, to, first)
    [] c.channel = "imessage" -> IMessageReply(c, to, first)
    [] c.channel = "signal" -> SignalReply(c, to, first)
    [] c.channel = "simplex" -> SimplexReply(c, to, first)
    [] c.channel = "session" -> SessionReply(c, to, first)
    [] c.channel = "email" -> EmailReply(c, to, first)
    [] c.channel = "delta_chat" -> DeltaChatReply(c, to, first)
=============================================================================
