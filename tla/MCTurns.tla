----------------------------- MODULE MCTurns -----------------------------
(***************************************************************************)
(* One agent that works, and is stopped and submitted while it does, and   *)
(* one that is consulted and re-iterated, two requests each.               *)
(***************************************************************************)
EXTENDS Turns, TLC

CONSTANTS worker, reviewed, w1, w2, r1, r2

MCAgents  == {worker, reviewed}
MCJobs    == {w1, w2, r1, r2}
MCAgentOf == (w1 :> worker) @@ (w2 :> worker) @@ (r1 :> reviewed) @@ (r2 :> reviewed)

MCFailing == (worker :> {"turn", "reconcile"}) @@ (reviewed :> {"consultation", "reiteration"})

MCPurposeOf == (w1 :> "turn") @@ (w2 :> "turn") @@ (r1 :> "consultation") @@ (r2 :> "reiteration")

MCDays == {{w1, w2}, {r1, r2}, {w1, r2}}
=============================================================================
