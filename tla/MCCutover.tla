----------------------------- MODULE MCCutover -----------------------------
(***************************************************************************)
(* Instances of CutoverAction: the StatefulSets and Deployments of a small *)
(* tenant, with the replicas they start from.                              *)
(***************************************************************************)
EXTENDS CutoverAction

NoClaims == [c \in {} |-> c]

OneReplica == [w \in Scalable |-> 1]
TwoReplicas == [w \in Scalable |-> 2]

NeverCut == [w \in Scalable |-> NoMark]
CutBefore == [w \in Scalable |-> 1]
=============================================================================
