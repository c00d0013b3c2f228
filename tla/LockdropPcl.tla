---------------------------- MODULE LockdropPcl ----------------------------
(***************************************************************************)
(* The lockdrop contract of the PCL pools. Lockups come only from the XYK   *)
(* lockdrop; their LP tokens stay in the contract until the last lockup of  *)
(* the pool has come, and are then staked in the incentives contract. Its   *)
(* rewards come in one token, counted per LP token and paid with every      *)
(* claim. The contract is never given NTRN to pay one time rewards from.    *)
(*                                                                         *)
(* The state is one record, so that a migration can bring several lockups   *)
(* in one transaction. The incentives contract and the LP tokens are        *)
(* external.                                                                *)
(***************************************************************************)
EXTENDS TgeCommon

CONSTANTS
    PclDurations,      \* durations of lockup_rewards_info
    INCENTIVES, IncentivesAddrs,   \* config.incentives, and addresses it may be
    PclAccruals, MAX_PCL_ACCRUED   \* rewards of one step; bound on their sum

ASSUME PclAssumption ==
    /\ PclDurations \subseteq Nat /\ INCENTIVES \in IncentivesAddrs
    /\ PclAccruals \subseteq Nat /\ MAX_PCL_ACCRUED \in Nat

VARIABLE pcl

PclNoPools == [p \in PoolType |-> 0]

\* instantiate. weighted_amount, the incentives shares and lockdrop_incentives
\* are left out: State's total_incentives_share is never set, so that every
\* one time reward computed here is 0.
PclInit ==
    pcl = [incentives |-> INCENTIVES,
           amount_in_lockups |-> PclNoPools,       \* PoolInfo
           rewards_per_share |-> PclNoPools,
           is_staked |-> [p \in PoolType |-> FALSE],
           lockup |-> [k \in {} |-> NONE],         \* LOCKUP_INFO
           user |-> [u \in {} |-> NONE],           \* USER_INFO
           total_user_lockup |-> [p \in PoolType |-> [u \in Users |-> 0]],
           lp_held |-> PclNoPools,                 \* LP tokens not staked
           deposit |-> [a \in IncentivesAddrs |-> PclNoPools],
           pending |-> [a \in IncentivesAddrs |-> PclNoPools],
           reserve |-> MAX_PCL_ACCRUED,            \* rewards still to come
           reward_balance |-> 0]                   \* reward tokens held

PclLpBalance(p) ==
    IF pcl.is_staked[p] THEN pcl.deposit[pcl.incentives][p] ELSE pcl.lp_held[p]

\* The incentives contract credits the stake.
IncentivesAccrue(a, p, amount) ==
    /\ pcl.deposit[a][p] > 0
    /\ amount <= pcl.reserve
    /\ pcl' = [pcl EXCEPT !.pending[a][p] = @ + amount, !.reserve = @ - amount]

\* Nothing may be deposited in the incentives contract that is replaced.
pcl_handle_update_config(sender, incentives) ==
    /\ sender = OWNER
    /\ \A p \in PoolType : pcl.deposit[pcl.incentives][p] = 0
    /\ pcl' = [pcl EXCEPT !.incentives = incentives]
-----------------------------------------------------------------------------
\* Fault: the term of the lockup begins and ends with the migration.
from_xyk_lockup_info_NoTerm(unlock_timestamp, lp_amount) ==
    [lp_units_locked |-> lp_amount, astroport_lp_transferred |-> NONE,
     incentives_debt |-> 0, unlock_timestamp |-> 0]

\* LockupInfo::from_xyk_lockup_info.
from_xyk_lockup_info(unlock_timestamp, lp_amount) ==
    [lp_units_locked |-> lp_amount, astroport_lp_transferred |-> NONE,
     incentives_debt |-> 0, unlock_timestamp |-> unlock_timestamp]

\* Fault: all LP tokens in the contract are taken for the lockup's.
LpMinted_All(before, after) == after

LpMinted(before, after) == after - before

\* Fault: the pool is staked with the first lockup that comes.
StakedNow_First(stake) == TRUE

StakedNow(stake) == stake

\* The LP tokens that came since prev_lp_token_amount was read become the
\* lockup, and if it is the last of its pool everything held is staked.
callback_finish_lockup_migration(state, key, prev, user_info, unlock_timestamp, stake) ==
    LET p       == key[1]
        u       == key[2]
        held    == state.lp_held[p]
        amount  == LpMinted(prev, held)
        arrived == [state EXCEPT
            !.lockup = [k \in DOMAIN @ \cup {key} |->
                IF k = key THEN from_xyk_lockup_info(unlock_timestamp, amount) ELSE @[k]],
            !.user = [v \in DOMAIN @ \cup {u} |-> IF v = u THEN user_info ELSE @[v]],
            !.amount_in_lockups[p] = @ + amount,
            !.total_user_lockup[p][u] = @ + amount]
    IN  IF StakedNow(stake)
        THEN [arrived EXCEPT !.lp_held[p] = 0, !.deposit[state.incentives][p] = @ + held,
                             !.is_staked[p] = TRUE]
        ELSE arrived

\* MigrateXYKLiquidity, from the XYK lockdrop contract only: the PCL pair
\* mints LP tokens for the assets sent.
pcl_handle_migrate_xyk_liquidity(state, key, minted, user_info, unlock_timestamp, stake) ==
    callback_finish_lockup_migration([state EXCEPT !.lp_held[key[1]] = @ + minted], key,
        state.lp_held[key[1]], user_info, unlock_timestamp, stake)

\* update_pool_on_dual_rewards_claim, after ClaimRewards. The division panics
\* without a stake.
PclPending(p) == IF pcl.is_staked[p] THEN pcl.pending[pcl.incentives][p] ELSE 0
PclPerShare(p) ==
    IF PclPending(p) = 0 THEN pcl.rewards_per_share[p]
    ELSE pcl.rewards_per_share[p] + FromRatio(PclPending(p), PclLpBalance(p))

PclLpAmount(k) ==
    (pcl.lockup[k].lp_units_locked * PclLpBalance(k[1])) \div pcl.amount_in_lockups[k[1]]

\* What a lockup has drawn after a payment.
Paid(debt, pending) == debt + pending

\* The part of the callback that returns the LP tokens of a lockup, unstaked
\* first when the pool is staked. The LP token refuses to transfer nothing.
PclReturned(state, key, lp_amount) ==
    LET p == key[1]  units == state.lockup[key].lp_units_locked
        after == [state EXCEPT
            !.lockup[key].astroport_lp_transferred = lp_amount,
            !.amount_in_lockups[p] = @ - units,
            !.total_user_lockup[p][key[2]] = @ - units]
    IN  IF state.is_staked[p] THEN [after EXCEPT !.deposit[state.incentives][p] = @ - lp_amount]
        ELSE [after EXCEPT !.lp_held[p] = @ - lp_amount]

(***************************************************************************)
(* handle_claim_rewards_and_unlock_for_lockup with its callbacks. A user    *)
(* whose one time reward were still due could not claim: there is no NTRN.  *)
(***************************************************************************)
pcl_handle_claim_rewards_and_unlock_for_lockup(u, p, duration, withdraw_lp_stake) ==
    LET key       == <<p, u, duration>>
        per_share == PclPerShare(p)
        lp_amount == PclLpAmount(key)
        pending   == IF pcl.is_staked[p]
                     THEN MulFloor(lp_amount, per_share) - pcl.lockup[key].incentives_debt
                     ELSE 0
        claimed   == [pcl EXCEPT
            !.rewards_per_share[p] = per_share,
            !.pending[pcl.incentives][p] = IF pcl.is_staked[p] THEN 0 ELSE @,
            !.reward_balance = @ + PclPending(p) - pending,
            !.lockup[key].incentives_debt = Paid(@, pending),
            !.user[u].ntrn_transferred = TRUE]
    IN  /\ u \in DOMAIN pcl.user
        /\ key \in DOMAIN pcl.lockup
        /\ withdraw_lp_stake => now >= pcl.lockup[key].unlock_timestamp
        /\ pcl.lockup[key].astroport_lp_transferred = NONE
        /\ PclPending(p) # 0 => PclLpBalance(p) # 0
        /\ pcl.amount_in_lockups[p] # 0
        /\ pending >= 0
        /\ pending <= pcl.reward_balance + PclPending(p)
        /\ (pcl.is_staked[p] /\ ~withdraw_lp_stake /\ pcl.user[u].ntrn_transferred)
               => pending # 0
        /\ pcl.user[u].ntrn_transferred \/ pcl.user[u].total_ntrn_rewards = 0
        /\ \/ ~withdraw_lp_stake /\ pcl' = claimed
           \/ /\ withdraw_lp_stake
              /\ lp_amount # 0 /\ lp_amount <= PclLpBalance(p)
              /\ pcl.lockup[key].lp_units_locked <= pcl.amount_in_lockups[p]
              /\ pcl.lockup[key].lp_units_locked <= pcl.total_user_lockup[p][u]
              /\ pcl' = PclReturned(claimed, key, lp_amount)

PclStep ==
    \/ \E a \in IncentivesAddrs, p \in PoolType, amount \in PclAccruals :
           IncentivesAccrue(a, p, amount)
    \/ \E s \in Senders, a \in IncentivesAddrs : pcl_handle_update_config(s, a)
    \/ \E u \in Users, p \in PoolType, d \in PclDurations, w \in BOOLEAN :
           pcl_handle_claim_rewards_and_unlock_for_lockup(u, p, d, w)
-----------------------------------------------------------------------------
PclLive == {k \in DOMAIN pcl.lockup : pcl.lockup[k].astroport_lp_transferred = NONE}
PclUnits(S) == SumOver([k \in DOMAIN pcl.lockup |-> pcl.lockup[k].lp_units_locked], S)

\* The fields of the contract have their types; no amount is negative.
PclTypeOK ==
    /\ pcl.incentives \in IncentivesAddrs
    /\ pcl.is_staked \in [PoolType -> BOOLEAN]
    /\ \A a \in {pcl.amount_in_lockups, pcl.rewards_per_share, pcl.lp_held} :
           a \in [PoolType -> Nat]
    /\ \A k \in DOMAIN pcl.lockup : pcl.lockup[k] \in
           [lp_units_locked : Nat, astroport_lp_transferred : Nat \cup {NONE},
            incentives_debt : Nat, unlock_timestamp : Nat]
    /\ \A u \in DOMAIN pcl.user : pcl.user[u] \in
           [total_ntrn_rewards : Nat, ntrn_transferred : BOOLEAN]
    /\ pcl.total_user_lockup \in [PoolType -> [Users -> Nat]]
    /\ pcl.deposit \in [IncentivesAddrs -> [PoolType -> Nat]]
    /\ pcl.pending \in [IncentivesAddrs -> [PoolType -> Nat]]
    /\ pcl.reserve \in Nat /\ pcl.reward_balance \in Nat

\* The ledgers of the PCL contract agree with its lockups and with the LP
\* tokens it has, before the pool is staked, by the stake and after it: every
\* lockup is worth the LP tokens minted for it.
PclLedgersAgree ==
    /\ PclTypeOK
    /\ \A p \in PoolType :
           /\ pcl.amount_in_lockups[p] = PclUnits({k \in PclLive : k[1] = p})
           /\ pcl.amount_in_lockups[p] = PclLpBalance(p)
           /\ \A u \in Users : pcl.total_user_lockup[p][u] =
                  PclUnits({k \in PclLive : k[1] = p /\ k[2] = u})

\* The rewards claimed so far cover what the lockups may still draw. A lockup
\* that came to a pool already staked would draw rewards it never earned: its
\* debt starts at 0 whatever the rate per share is.
PclRewardsCovered ==
    /\ \A k \in PclLive : pcl.lockup[k].incentives_debt
           <= MulFloor(pcl.lockup[k].lp_units_locked, pcl.rewards_per_share[k[1]])
    /\ SumOver([k \in DOMAIN pcl.lockup |->
                    MulFloor(pcl.lockup[k].lp_units_locked, pcl.rewards_per_share[k[1]])
                        - pcl.lockup[k].incentives_debt], PclLive)
           <= pcl.reward_balance
=============================================================================
