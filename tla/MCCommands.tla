----------------------------- MODULE MCCommands -----------------------------
EXTENDS Commands, TLC
CONSTANTS s1, bot

\* A proxied session and a run of the bot, whose pipes get these packets.
Packets(c1, v1, cb, vb, own) ==
  s1 :> [client |-> c1, server |-> v1, own |-> << >>] @@
  bot :> [client |-> cb, server |-> vb, own |-> own]

MCStreams == {
  \* Both toggle, one asks what the other sets.
  Packets(<<"toggle", "info">>, << >>, <<"schem", "toggle", "setYes">>, << >>, << >>),
  Packets(<<"toggle", "setOff", "toggle">>, << >>, <<"mods">>, << >>, << >>),
  Packets(<<"setOn", "help">>, << >>, <<"info", "unknown">>, << >>, <<"chat">>),
  \* The recorder has packets of the pipes and of the bot's own reader, some that
  \* cannot be encoded.
  Packets(<<"info">>, << >>, <<"help">>, << >>, <<"chat", "nan", "chat", "chat">>),
  Packets(<<"nan">>, <<"chat", "chat", "chat">>, << >>, << >>, <<"chat">>),
  Packets(<< >>, <<"chat">>, <<"toggle", "chat">>, <<"chat">>, <<"chat">>)}
=============================================================================
