------------------------------ MODULE WarmCopy ------------------------------
(***************************************************************************)
(* What replicating a volume promises, without saying how: the repository  *)
(* between the two clusters is initialised once and keeps its key, holds   *)
(* only what the source volume held, and the volume in dest only ever      *)
(* receives snapshots of the repository, never an older one after a newer. *)
(***************************************************************************)
EXTENDS Naturals

CONSTANTS
    Keys,     \* restic passwords
    NoKey,    \* a repository that was never initialised
    MaxData   \* bound: versions of the source volume

VARIABLES
    data,  \* version of the source volume
    key,   \* key the repository was initialised with
    snap,  \* version in the newest snapshot, 0 when there is none
    copy   \* version in the dest volume, 0 when it is empty

vars == <<data, key, snap, copy>>

Init == data = 1 /\ key = NoKey /\ snap = 0 /\ copy = 0

Write == data' \in data .. MaxData /\ UNCHANGED <<key, snap, copy>>

\* Once only: a repository that has a key is never initialised again.
Initialise == key = NoKey /\ key' \in Keys /\ UNCHANGED <<data, snap, copy>>

Take ==
    /\ key # NoKey
    /\ snap' \in 1 .. data
    /\ snap' >= snap
    /\ UNCHANGED <<data, key, copy>>

Receive ==
    /\ copy' \in 1 .. snap
    /\ copy' >= copy
    /\ UNCHANGED <<data, key, snap>>

\* The dest volume is removed.
Lose == copy' = 0 /\ UNCHANGED <<data, key, snap>>

Next == Write \/ Initialise \/ Take \/ Receive \/ Lose

Spec == Init /\ [][Next]_vars
=============================================================================
