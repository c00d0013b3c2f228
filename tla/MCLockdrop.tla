---------------------------- MODULE MCLockdrop ----------------------------
(***************************************************************************)
(* Instances of Lockdrop for TLC. LockWeight is in hundredths.              *)
(***************************************************************************)
EXTENDS Lockdrop

\* Durations 1 and 2 with whole weights 1 and 2, or with the weight 1.5.
MCWholeWeight == [d \in {1, 2} |-> 100 * d]
MCFractionalWeight == [d \in {1, 2} |-> 50 + 50 * d]

MCShares == { [p \in PoolType |-> IF p = "ATOM" THEN 2 ELSE 1] }

\* The owner changes the generator, or nothing.
MCUpdates == { [auction |-> NONE, generator |-> "generator2"] }

MCNoUpdates == {}
=============================================================================
