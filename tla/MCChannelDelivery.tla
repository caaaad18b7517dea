------------------------- MODULE MCChannelDelivery -------------------------
(* The instance of ChannelDelivery that TLC checks: messages of all shapes *)
(* on every channel.                                                       *)
EXTENDS ChannelDelivery

MCJob(c, known, text, files) == [channel |-> c, known |-> known, text |-> text, files |-> files]
Shapes == {<<>>, <<"ok">>, <<"ok", "ok">>, <<"gone">>, <<"ok", "gone">>, <<"ok", "big">>, <<"nourl", "ok">>}
MCJobs ==
  {MCJob(c, TRUE, text, files) : c \in Channels, text \in BOOLEAN, files \in Shapes}
  \cup {MCJob(c, FALSE, TRUE, <<>>) : c \in Channels}
=============================================================================
