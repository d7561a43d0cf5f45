--------------------------- MODULE MCAgentService ---------------------------
(***************************************************************************)
(* An agent with two messages, and one that a turn runs, on two slots and a *)
(* budget that a second run may exceed.                                    *)
(***************************************************************************)
EXTENDS AgentService, TLC

CONSTANTS chat, worker, m1, m2, t1, s1

MCAgents   == {chat, worker}
MCRuns     == {m1, m2, t1}
MCAgentOf  == (m1 :> chat) @@ (m2 :> chat) @@ (t1 :> worker)
=============================================================================
