---------------------------- MODULE MCAgentCalls ----------------------------
(* One store with an agent on one stream; an update asked for by an          *)
(* admin, a ping, and an update begun on the Pi.                             *)
EXTENDS AgentCalls, TLC

CONSTANTS s1, d1, u1, p1, own

MCFrameScope == [i \in Frames |-> s1]
MCStoreOf == [d \in Devices |-> s1]
MCKind == (u1 :> "update") @@ (p1 :> "ask") @@ (own :> "own")
=============================================================================
