------------------------------ MODULE MCReview ------------------------------
(***************************************************************************)
(* Two humans with an agent each.                                          *)
(***************************************************************************)
EXTENDS Review, TLC

CONSTANTS a1, a2, h1, h2

MCOwnerOf == (a1 :> h1) @@ (a2 :> h2)
=============================================================================
