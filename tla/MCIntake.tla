------------------------------ MODULE MCIntake ------------------------------
(* The instance of Intake that TLC checks: one or two messages of a channel. *)
EXTENDS Intake

Msg(c, text, files) ==
  [channel |-> c, parses |-> TRUE, sender |-> TRUE, text |-> text, files |-> files]
Plain(c) == Msg(c, "plain", <<>>)
Unparsed == [Plain("email") EXCEPT !.parses = FALSE]
Unsigned == [Plain("email") EXCEPT !.sender = FALSE]
Html == Msg("email", "html", <<"ok">>)

MCFeeds ==
  {<<Plain(c), Plain(c)>> : c \in {"email", "signal", "simplex", "delta_chat", "session",
                                   "whatsapp", "reply"}}
  \cup {<<Plain(c)>> : c \in {"telegram", "imessage"}}
  \cup {<<Msg(c, "plain", files)>> :
          c \in {"telegram", "imessage", "whatsapp", "delta_chat", "signal", "email"},
          files \in {<<"ok", "big">>, <<"gone", "ok">>}}
  \cup {<<Msg("email", "plain", <<"inline", "ok">>)>>, <<Msg("telegram", "none", <<"big">>)>>}
  \cup {<<Msg("signal", "none", files)>> : files \in {<<"gone">>, <<"gone", "ok">>}}
  \cup {<<Unsigned, Plain("email")>>, <<Plain("email"), Unsigned>>, <<Unparsed, Html>>}
=============================================================================
