---------------------------- MODULE MCAuthority ----------------------------
(***************************************************************************)
(* Three people, two agents, one document or two.                          *)
(***************************************************************************)
EXTENDS Authority, TLC

CONSTANTS h1, h2, h3, a1, a2, file, other

MCCovers == {<<d, d>> : d \in Docs}

Symmetry == Permutations(Humans) \cup Permutations(Agents)
=============================================================================
