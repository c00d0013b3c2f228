------------------------------ MODULE Airdrop ------------------------------
(***************************************************************************)
(* The airdrop contract with the credits contract whose token it hands out. *)
(* A transaction, the messages to the credits contract and to the bank      *)
(* included, is one action.                                                 *)
(*                                                                         *)
(* The Merkle tree is the set MerkleLeaves of its <<user, amount>> leaves:  *)
(* a proof exists for these and, the hash being sound, for nothing else.    *)
(***************************************************************************)
EXTENDS Credits

CONSTANTS
    AIRDROP,            \* this contract
    LOCKDROP,           \* the lockdrop contract
    RESERVE,            \* reserve_address given at instantiation
    AIRDROP_START, VESTING_START, VESTING_DURATION,
    MerkleLeaves,       \* the leaves of the tree
    ClaimAmounts,       \* amounts a user may claim
    LockdropRewards     \* one time lockdrop rewards of a user

ASSUME AirdropAssumption ==
    /\ AIRDROP \in AirdropAddrs /\ LOCKDROP \in LockdropAddrs /\ RESERVE \in Reserves
    /\ AIRDROP_START \in Nat /\ VESTING_START \in Nat /\ VESTING_DURATION \in Nat
    /\ VESTING_START >= AIRDROP_START      \* else VestingBeforeAirdrop
    /\ MerkleLeaves \subseteq Users \X Nat
    /\ ClaimAmounts \subseteq Nat /\ LockdropRewards \subseteq Nat

VARIABLES
    claimed,          \* CLAIM
    amount_claimed,   \* AMOUNT_CLAIMED
    paused,           \* PAUSED
    reserve_address   \* of Config

claimVars   == <<claimed, amount_claimed, paused, reserve_address>>
airdropVars == <<now, creditsVars, claimVars>>

EXPIRATION == VESTING_START + VESTING_DURATION

AirdropInit ==
    /\ now \in 0..AIRDROP_START
    /\ CreditsInit
    /\ claimed = {}
    /\ amount_claimed = 0
    /\ paused = FALSE
    /\ reserve_address = RESERVE

\* Begun and not expired.
AirdropOpen == AIRDROP_START <= now /\ now <= EXPIRATION

execute_claim(u, amount) ==
    /\ AirdropOpen
    /\ ~paused
    /\ u \notin claimed
    /\ <<u, amount>> \in MerkleLeaves
    /\ claimed' = claimed \cup {u}
    /\ amount_claimed' = amount_claimed + amount
    /\ TransferAndVest(AIRDROP, u, amount, VESTING_START, VESTING_DURATION)
    /\ UNCHANGED <<paused, reserve_address>>

\* Fault: burns what was never claimed of the tree, not the balance.
execute_withdraw_all_OfTree(sender) ==
    /\ sender = reserve_address
    /\ now > EXPIRATION
    /\ ~paused
    /\ execute_burn(AIRDROP, reserve_address,
           SumOver([l \in MerkleLeaves |-> l[2]], MerkleLeaves) - amount_claimed)
    /\ UNCHANGED claimVars

\* Burns the whole balance and sends the untrn on to the reserve.
execute_withdraw_all(sender) ==
    /\ sender = reserve_address
    /\ now > EXPIRATION
    /\ ~paused
    /\ execute_burn(AIRDROP, reserve_address, balances[AIRDROP])
    /\ UNCHANGED claimVars

execute_update_reserve(sender, address) ==
    /\ sender \in {OWNER, reserve_address}
    /\ reserve_address' = address
    /\ UNCHANGED <<now, creditsVars, claimed, amount_claimed, paused>>

execute_pause(sender) ==
    /\ sender = OWNER
    /\ AirdropOpen
    /\ paused' = TRUE
    /\ UNCHANGED <<now, creditsVars, claimed, amount_claimed, reserve_address>>

execute_resume(sender) ==
    /\ sender = OWNER
    /\ AirdropOpen
    /\ paused
    /\ paused' = FALSE
    /\ UNCHANGED <<now, creditsVars, claimed, amount_claimed, reserve_address>>

\* The amount of the BurnFrom message that the lockdrop sends with the one
\* time reward of a user; AIRDROP_REWARDS_MULTIPLIER is 1.0.
AirdropTokensWithMultiplier(u, reward) ==
    SmallerOf(query_vested_amount(u), reward) + query_withdrawable_amount(u)

(***************************************************************************)
(* The lockdrop's part for a user with an airdrop: the two queries and the  *)
(* BurnFrom message, in the transaction that pays the one time reward.      *)
(***************************************************************************)
ClaimAirdropTokens(u, reward) ==
    /\ u \in DOMAIN allocations
    /\ compute_withdrawable_amount(allocations[u], now) >= 0
    /\ execute_burn_from(LOCKDROP, u, AirdropTokensWithMultiplier(u, reward))
    /\ UNCHANGED claimVars

\* Steps of the airdrop and of the credits contract without the lockdrop.
AirdropStep ==
    \/ CreditsStep /\ UNCHANGED claimVars
    \/ \E u \in Users, amount \in ClaimAmounts : execute_claim(u, amount)
    \/ \E s \in Parties : execute_withdraw_all(s)
    \/ \E s \in Parties, r \in Reserves : execute_update_reserve(s, r)
    \/ \E s \in Parties : execute_pause(s)
    \/ \E s \in Parties : execute_resume(s)

AirdropTick == NextBlock /\ UNCHANGED <<creditsVars, claimVars>>

\* The lockdrop may claim at any time, any of the rewards, and more than once:
\* that it does so once per user is not needed here.
AirdropNext ==
    \/ AirdropTick
    \/ AirdropStep
    \/ \E u \in Users, reward \in LockdropRewards :
           balances[u] > 0 /\ ClaimAirdropTokens(u, reward)

\* Every step of the two contracts is one of these, the lockdrop's included:
\* module Distribution shows that its claims burn nothing but what
\* claim_airdrop_tokens_with_multiplier_msg computes.
AirdropSpec == AirdropInit /\ [][AirdropNext]_airdropVars

(***************************************************************************)
(* Blocks are produced, each user goes on withdrawing and whoever is the    *)
(* reserve goes on asking for what was not claimed.                         *)
(***************************************************************************)
AirdropFairSpec ==
    /\ AirdropSpec
    /\ WF_airdropVars(AirdropTick)
    /\ \A u \in Users : WF_airdropVars(execute_withdraw(u) /\ UNCHANGED claimVars)
    /\ WF_airdropVars(execute_withdraw_all(reserve_address))
-----------------------------------------------------------------------------
AllocationRecords ==
    [allocated_amount : Nat, withdrawn_amount : Nat,
     schedule : [start_time : Nat, cliff : Nat, duration : Nat]]

\* The fields of both contracts have their types; no balance is negative.
AirdropTypeOK ==
    /\ now \in Nat
    /\ credits_config \in [airdrop : AirdropAddrs \cup {NONE},
                           lockdrop : LockdropAddrs \cup {NONE},
                           when_withdrawable : Nat \cup {NONE}]
    /\ balances \in [Holders -> Nat]
    /\ total_supply \in Nat
    /\ minted \in Nat
    /\ DOMAIN allocations \subseteq Users
    /\ \A u \in DOMAIN allocations : allocations[u] \in AllocationRecords
    /\ rewards_burned \in [Users -> Nat]
    /\ untrn \in [Accounts -> Nat]
    /\ claimed \subseteq Users
    /\ amount_claimed \in Nat
    /\ paused \in BOOLEAN
    /\ reserve_address \in Reserves

\* The credits contract holds one untrn for every token of the cw20 supply.
SupplyHeld == untrn[CREDITS] = total_supply

\* "holds vested untrn tokens in 1:1 proportion": the untrn of the credits
\* contract, the cw20 supply and the holders' tokens are the same amount
\* through minting, vesting, withdrawals, rewards and the final burn, and no
\* balance that adds up to it is negative.
Backed == AirdropTypeOK /\ SupplyHeld /\ total_supply = SumOver(balances, Holders)

\* A user's tokens are the allocation less what was withdrawn and less what
\* the lockdrop burnt ahead of vesting, and the user has been sent exactly
\* these two: the two ways out never pay the same token twice.
HoldersAccounted ==
    \A u \in Users :
        IF u \in DOMAIN allocations
        THEN /\ balances[u] + allocations[u].withdrawn_amount + rewards_burned[u]
                    = allocations[u].allocated_amount
             /\ untrn[u] = allocations[u].withdrawn_amount + rewards_burned[u]
        ELSE balances[u] = 0 /\ untrn[u] = 0 /\ rewards_burned[u] = 0

\* Nobody has withdrawn more than has vested, so that the checked subtraction
\* of compute_withdrawable_amount, which would stop the withdrawals and the
\* lockdrop claims of the user, never fails.
WithdrawnWithinVested ==
    \A u \in DOMAIN allocations :
        allocations[u].withdrawn_amount <= Vested(allocations[u], now)

\* The credits contract accepts the burn that a lockdrop claim of a positive
\* reward makes for a user with tokens: the two queries succeed and ask for
\* something, and for no more than the user has. Else the user could claim
\* neither the reward nor the LP tokens.
LockdropBurnAccepted ==
    \A u \in Users : balances[u] > 0 =>
        /\ u \in DOMAIN allocations
        /\ \A reward \in LockdropRewards :
               reward > 0 => AirdropTokensWithMultiplier(u, reward) \in 1..balances[u]

\* Once withdrawals are allowed every holder is paid in full, whatever the
\* lockdrop has burnt ahead of vesting.
AllocationsPaidOut ==
    \A u \in Users :
        (u \in DOMAIN allocations /\ credits_config.when_withdrawable # NONE)
            ~> (balances[u] = 0)

\* What nobody claimed leaves the airdrop contract, unless it was paused when
\* it expired: then neither Resume nor WithdrawAll is ever accepted again.
UnclaimedReturned ==
    (now > EXPIRATION /\ ~paused) ~> (balances[AIRDROP] = 0)
=============================================================================
