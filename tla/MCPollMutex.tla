---------------------------- MODULE MCPollMutex -----------------------------
(* The poll mutex with three clients and a poller for TLC.                 *)
EXTENDS PollMutex

=============================================================================
