---------------------------- MODULE Distribution ----------------------------
(***************************************************************************)
(* The lockdrop together with the airdrop and the credits contract. The     *)
(* claim that pays the one time reward of a user who holds cNTRN queries    *)
(* the credits contract and sends it BurnFrom in the same transaction: if   *)
(* the credits contract refuses, the whole claim fails.                     *)
(***************************************************************************)
EXTENDS Lockdrop, Airdrop

distributionVars == <<lockdropVars, airdropVars>>

\* What a step of the one side leaves to the other.
lockdropSide == <<lockdrop_config, poolVars, lockerVars, lockdropEnv>>
airdropSide  == <<creditsVars, claimVars>>

DistributionInit == LockdropInit /\ AirdropInit

DistributionTick == NextBlock /\ UNCHANGED <<lockdropSide, airdropSide>>

\* Fault: all the tokens of the user are burnt, whatever the reward.
ClaimRewardsAndUnlock_WholeBalance(u, p, duration, withdraw_lp_stake) ==
    /\ handle_claim_rewards_and_unlock_for_lockup(u, p, duration, withdraw_lp_stake)
    /\ IF ntrn_transferred[u] \/ balances[u] = 0
       THEN UNCHANGED airdropSide
       ELSE /\ execute_burn_from(LOCKDROP, u, balances[u])
            /\ UNCHANGED claimVars

\* Fault: what has vested already is left out of the burn.
ClaimRewardsAndUnlock_VestedOnly(u, p, duration, withdraw_lp_stake) ==
    /\ handle_claim_rewards_and_unlock_for_lockup(u, p, duration, withdraw_lp_stake)
    /\ IF ntrn_transferred[u] \/ balances[u] = 0
       THEN UNCHANGED airdropSide
       ELSE /\ execute_burn_from(LOCKDROP, u,
                   SmallerOf(query_vested_amount(u), UserReward(u)))
            /\ UNCHANGED claimVars

\* Fault: BurnFrom is sent to the credits contract on every claim, also for a
\* user without tokens.
ClaimRewardsAndUnlock_NoCheck(u, p, duration, withdraw_lp_stake) ==
    /\ handle_claim_rewards_and_unlock_for_lockup(u, p, duration, withdraw_lp_stake)
    /\ ClaimAirdropTokens(u, UserReward(u))

ClaimRewardsAndUnlock(u, p, duration, withdraw_lp_stake) ==
    /\ handle_claim_rewards_and_unlock_for_lockup(u, p, duration, withdraw_lp_stake)
    /\ IF ntrn_transferred[u] \/ balances[u] = 0
       THEN UNCHANGED airdropSide
       ELSE ClaimAirdropTokens(u, UserReward(u))

DistributionNext ==
    \/ DistributionTick
    \/ (LockdropSetup \/ AuctionCalls) /\ UNCHANGED airdropSide
    \/ AirdropStep /\ UNCHANGED lockdropSide
    \/ \E u \in Users, p \in LockPools, d \in LockDurations, w \in BOOLEAN :
           ClaimRewardsAndUnlock(u, p, d, w)

DistributionSpec == DistributionInit /\ [][DistributionNext]_distributionVars

\* Blocks are produced and each user goes on asking for the LP tokens back.
DistributionFairSpec ==
    /\ DistributionSpec
    /\ WF_distributionVars(DistributionTick)
    /\ \A u \in Users, p \in LockPools, d \in LockDurations :
           WF_distributionVars(ClaimRewardsAndUnlock(u, p, d, TRUE))
-----------------------------------------------------------------------------
\* How far the lockdrop takes a user ahead of the vesting schedule: by the one
\* time reward and, because BurnFrom leaves withdrawn_amount alone, once more
\* by what had vested when the reward was claimed. Never further, whatever the
\* order of Withdraw and claims.
AheadOfVestingBounded ==
    \A u \in DOMAIN allocations :
        untrn[u] <= 2 * Vested(allocations[u], now)
                        + (IF ntrn_transferred[u] THEN UserReward(u) ELSE 0)

\* Holding an airdrop does not cost a user the lockup: once the credits
\* contract knows the lockdrop, every lockup is returned, also of a user whose
\* reward is zero and whose BurnFrom of nothing is refused at first.
AirdropHoldersReturned ==
    \A u \in Users : \A p \in LockPools : \A d \in LockDurations :
        LET k == <<p, u, d>>
        IN  (/\ is_staked[p] /\ k \in DOMAIN lockup
             /\ lockup[k].lp_units_locked > 0 /\ credits_config.lockdrop = LOCKDROP)
              ~> (k \in DOMAIN lockup \ LiveLockups)
=============================================================================
