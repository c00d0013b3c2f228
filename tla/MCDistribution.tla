-------------------------- MODULE MCDistribution --------------------------
(***************************************************************************)
(* Instances of Distribution for TLC.                                       *)
(***************************************************************************)
EXTENDS Distribution

MCMerkleLeaves == {<<1, 7>>}

MCLockWeight == [d \in {1, 2} |-> 100 * d]

MCShares == { [p \in PoolType |-> IF p = "ATOM" THEN 2 ELSE 1] }

MCNoUpdates == {}
=============================================================================
