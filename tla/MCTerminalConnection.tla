------------------------ MODULE MCTerminalConnection ------------------------
(* Instance of TerminalConnection for TLC: two requests, each of which may *)
(* build a conversation, one control task and two tool calls.              *)
EXTENDS TerminalConnection

CONSTANTS r1, r2, old, a1, a2

MCRequests == {r1, r2}
MCEarlierRequests == {}
MCAgents == {a1, a2}
MCResultSizes == {1}
=============================================================================
