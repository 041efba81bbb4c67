---------------------------- MODULE MCBotControl ----------------------------
EXTENDS BotControl

TransientBot == [bot |-> TRUE, contactBot |-> TRUE, op |-> TRUE, auto |-> TRUE]
StayingBot   == [bot |-> TRUE, contactBot |-> TRUE, op |-> FALSE, auto |-> FALSE]
Agent        == [bot |-> FALSE, contactBot |-> FALSE, op |-> TRUE, auto |-> FALSE]
Guest        == [bot |-> FALSE, contactBot |-> FALSE, op |-> FALSE, auto |-> FALSE]
MCJoiners    == {TransientBot, StayingBot, Agent, Guest}
RaceJoiners  == {TransientBot, Agent}
=============================================================================
