------------------------------ MODULE MCChatNet ------------------------------
EXTENDS WebChat

M(a, t, q, s) == [author |-> a, ts |-> t, seq |-> q, sig |-> s]

\* Author 2 floods, within a second and across seconds, and fills one id
\* twice; author 1 writes before and between.
MCMessages ==
  {M(2, 0, 0, 1), M(2, 1, 0, 1), M(2, 1, 0, 2), M(2, 1, 1, 1),
   M(1, 0, 0, 1), M(1, 1, 0, 1)}

Symmetry == Permutations(Peers)
=============================================================================
