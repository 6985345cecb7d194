---------------------------- MODULE MCToolBridge ----------------------------
(* Instance of ToolBridge for TLC: two questions, a budget of two calls    *)
(* each out of three call ids, a character budget one result can exhaust.  *)
EXTENDS ToolBridge

CONSTANTS r1, r2, old

MCRequests == {r1, r2}
MCEarlierRequests == {old}
MCResultSizes == {1, 3}
=============================================================================
