-------------------------- MODULE MCTaskScheduler --------------------------
(* TaskScheduler for TLC: two parties, each with a node of its own or both *)
(* on one node, with one duplicate filter.                                 *)
EXTENDS TaskScheduler, TLC

CONSTANTS p1, p2, n1, n2, aux

OneNode  == [p \in Parties |-> n1]
OwnNodes == p1 :> n1 @@ p2 :> n2

(* The two parties are interchangeable together with their nodes.  *)
PartySymmetry ==
  {f \in Permutations({p1, p2, n1, n2}) : \A p \in Parties : f[p] \in Parties /\ f[NodeOf[p]] = NodeOf[f[p]]}
=============================================================================
