--------------------------- MODULE MCConversation ---------------------------
(* The instance of Conversation that TLC checks: nine connectors, and two  *)
(* updates that may have to do with each other, or one that is no message. *)
EXTENDS Conversation

Conn(id, channel, inbox) == [id |-> id, channel |-> channel, inbox |-> inbox, salt |-> id]
MCConnectors ==
  {Conn("tg1", "telegram", "i1"), Conn("tg2", "telegram", "i2"), Conn("wa", "whatsapp", "i3"),
   Conn("im", "imessage", "i4"), Conn("sig", "signal", "i5"), Conn("sx", "simplex", "i6"),
   Conn("se", "session", "i7"), Conn("em", "email", "i8"), Conn("dc", "delta_chat", "i9")}

Upd(id, c, channel, sender, message, text, own) ==
  [id |-> id, connector |-> c, channel |-> channel, sender |-> sender,
   message |-> message, text |-> text, own |-> own, chat |-> "private"]
Msg(id, c, channel, sender, message) == Upd(id, c, channel, sender, message, "hi", FALSE)

(* Anna has the same address on several channels; message ids repeat from  *)
(* chat to chat, also where she writes in both.                            *)
t1 == Msg("t1", "tg1", "telegram", "anna", "1")
t2 == Msg("t2", "tg2", "telegram", "anna", "1")
t3 == Msg("t3", "tg1", "telegram", "bert", "1")
t7 == [t1 EXCEPT !.id = "t7", !.chat = "group"]
t4 == Upd("t4", "tg1", "telegram", "bert", "2", None, FALSE)
x1 == Msg("x1", "sx", "simplex", "anna", "1")
w1 == Msg("w1", "wa", "whatsapp", "anna", "1")
i1 == Msg("i1", "im", "imessage", "anna", "1")
s1 == Msg("s1", "sig", "signal", "anna", "1")
e1 == Msg("e1", "em", "email", "anna", None)
e2 == Msg("e2", "em", "email", "anna", "1")
se1 == Msg("se1", "se", "session", "anna", None)
se2 == Msg("se2", "se", "session", "anna", None)
d1 == Msg("d1", "dc", "delta_chat", "anna", "1")
d2 == Msg("d2", "dc", "delta_chat", "anna", "2")

MCDues ==
  {{t1, t2}, {t1, t3}, {t1, t4}, {t1, t7}, {t1, x1}, {w1, i1}, {s1, e1}, {e1, e2}, {se1, se2}, {d1, d2}}
  \cup {{u} : u \in {
    Upd("t5", "tg1", "telegram", None, None, None, FALSE),
    Msg("t6", "tg9", "telegram", "anna", "1"),
    Msg("w2", "wa", "whatsapp", "anna", None),
    Upd("i2", "im", "imessage", "anna", "1", "hi", TRUE),
    Upd("s2", "sig", "signal", "anna", "1", None, FALSE),
    Upd("x2", "sx", "simplex", "anna", "1", "hi", TRUE),
    Msg("e3", "em", "email", None, "1"),
    Msg("se3", "se", "session", None, "1"),
    Msg("d3", "dc", "delta_chat", "anna", None),
    Msg("d4", "dc", "delta_chat", None, "1")}}
=============================================================================
