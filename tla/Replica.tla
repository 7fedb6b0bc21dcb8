------------------------------- MODULE Replica -------------------------------
(***************************************************************************)
(* What each of the four contracts promises of one replica, however it is  *)
(* told: it learns facts, one or many at a time, some perhaps again, and   *)
(* what it holds is the join of all that it was told, as of a replica that *)
(* was told everything at once.                                            *)
(***************************************************************************)
CONSTANTS Facts,           \* what a replica may be told
          IsJoin(_, _)     \* is this value the join of these facts?

VARIABLES value,   \* what the replica holds
          told     \* the facts learnt

vars == <<value, told>>

Init == told = {} /\ IsJoin(value, told)

Learn ==
  /\ told \subseteq told' /\ told' \in SUBSET Facts
  /\ IsJoin(value', told')

Spec == Init /\ [][Learn]_vars
=============================================================================
