------------------------------ MODULE MCTileNet ------------------------------
EXTENDS WebTile

P(a, t, s, c) == [author |-> a, ts |-> t, sig |-> s, coord |-> c]

\* Author 1 fills one slot twice and overflows both layers; author 2 writes to
\* the same coordinate.
MCPlacements ==
  {P(1, 0, 1, "x"), P(1, 1, 1, "y"), P(1, 1, 2, "x"), P(1, 2, 1, "x"),
   P(2, 1, 1, "x")}

\* Three placements, the middle one within the cooldown of the first.
BurstPlacements == {P(1, 0, 1, "x"), P(1, 1, 1, "y"), P(1, 2, 1, "z")}

MCCooldown == (1 :> 2) @@ (2 :> 1)

Symmetry == Permutations(Peers)
=============================================================================
