----------------------------- MODULE MCAuction -----------------------------
(***************************************************************************)
(* Instances of Auction for TLC. A Decimal has two digits, so that the      *)
(* roundings of from_ratio and of the products are frequent; sums stay far  *)
(* below the 32 bits of TLC's integers.                                     *)
(***************************************************************************)
EXTENDS Auction, Sequences

Rate(rate, age) == [rate |-> rate, age |-> age]

\* Two usable price ratios, a reply that is too old, a reply whose USDC
\* entry is old (the contract looks at the ATOM entry only), an incomplete one.
MCFeedReplies ==
    { <<Rate(2, 0), Rate(1, 0)>>, <<Rate(1, 0), Rate(1, 3)>>,
      <<Rate(2, 3), Rate(1, 0)>>, <<Rate(2, 0)>> }

\* The owner configures everything in one go, or changes the pack size.
MCUpdateConfigMsgs ==
    { [owner |-> NONE, lockdrop |-> TRUE, pool_info |-> TRUE, pack_size |-> NONE],
      [owner |-> MANAGER, lockdrop |-> FALSE, pool_info |-> FALSE, pack_size |-> 2] }

MCOneUpdate ==
    { [owner |-> NONE, lockdrop |-> TRUE, pool_info |-> TRUE, pack_size |-> NONE] }

MCTokenInfoMsgs == { [denoms |-> PoolType, pool_info |-> FALSE] }
=============================================================================
