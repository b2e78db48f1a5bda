----------------------------- MODULE MCAgentLink -----------------------------
(* AgentLink with two agents of one store, one of another, and a frame of  *)
(* each.                                                                   *)
EXTENDS AgentLink, TLC

CONSTANTS s1, s2, d1, d2, d3, f1, f2

ScopeOf == (d1 :> s1) @@ (d2 :> s1) @@ (d3 :> s2)
FramesOf == (f1 :> s1) @@ (f2 :> s2)
=============================================================================
