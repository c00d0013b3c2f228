------------------------------ MODULE MCLaunch ------------------------------
(***************************************************************************)
(* Instances of Launch for TLC. The lockdrop's windows start when the       *)
(* auction's withdrawal window ends and fill its lock window.               *)
(***************************************************************************)
EXTENDS Launch, Sequences

MCFeedReplies ==
    { <<[rate |-> 1, age |-> 0], [rate |-> 1, age |-> 0]>> }

MCUpdateConfigMsgs ==
    { [owner |-> NONE, lockdrop |-> TRUE, pool_info |-> TRUE, pack_size |-> NONE] }

MCTokenInfoMsgs == { [denoms |-> PoolType, pool_info |-> FALSE] }

MCLockWeight == [d \in {1, 2} |-> 100 * d]

MCShares == { [p \in PoolType |-> IF p = "ATOM" THEN 40 - n ELSE n] : n \in 0..40 }

MCNoUpdates == {}
=============================================================================
