---------------------------- MODULE MCMigration ----------------------------
(***************************************************************************)
(* Instances of LockdropMigration for TLC. LockWeight is in hundredths.     *)
(***************************************************************************)
EXTENDS LockdropMigration

MCWholeWeight == [d \in {1, 2} |-> 100 * d]

MCShares == { [p \in PoolType |-> IF p = "ATOM" THEN 2 ELSE 1] }

\* Two users in one pool, the first with two durations; two users in both
\* pools; a lockup of 0 units beside another of its owner.
MCBooks ==
    { [k \in {<<"ATOM", 1, 1>>, <<"ATOM", 1, 2>>, <<"ATOM", 2, 2>>} |-> k[3]],
      [k \in {<<"ATOM", 1, 1>>, <<"USDC", 1, 2>>, <<"USDC", 2, 1>>} |-> k[2]],
      [k \in {<<"ATOM", 1, 1>>, <<"ATOM", 1, 2>>, <<"ATOM", 2, 1>>} |->
           IF k[3] = 2 THEN 0 ELSE 2] }

MCNoUpdates == {}
=============================================================================
