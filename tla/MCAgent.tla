------------------------------- MODULE MCAgent -------------------------------
(* The agent process for TLC: one VM name, one gRPC call at a time, so that
   the heartbeat's interleavings with the engine stay within reach. *)
EXTENDS AgentLedger, MCEngine

MCNamesOne == {a}

\* retry.Attempts(3) in SendHeartbeat.
MCMaxAttempts == 3

=============================================================================
