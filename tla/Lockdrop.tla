------------------------------ MODULE Lockdrop ------------------------------
(***************************************************************************)
(* The lockdrop contract: lockups of LP tokens opened and reduced by the    *)
(* auction for its users, the pools' LP tokens staked in the generator when *)
(* the auction initialises the pools, and after the windows the claim of    *)
(* the one time NTRN reward, of the generator's rewards and, once the       *)
(* lockup has expired, of the LP tokens.                                    *)
(*                                                                         *)
(* LOCKUP_INFO is a function whose domain is the set of stored keys         *)
(* <<pool type, user, duration>>. A transaction, callbacks included, is one *)
(* action. The generator, the LP tokens and the bank are external.          *)
(***************************************************************************)
EXTENDS TgeCommon

CONSTANTS
    AUCTION, AuctionAddrs,   \* config.auction_contract, and addresses it may be
    Generators,              \* addresses config.generator may be
    LOCKDROP_INIT_TIMESTAMP, LOCK_WINDOW, LOCKDROP_WITHDRAWAL_WINDOW,
    MIN_LOCK_DURATION, MAX_LOCK_DURATION, MAX_POSITIONS_PER_USER,
    LockWeight,              \* lockup_rewards_info: duration to 1 + coefficient
    LockDurations,           \* durations a user may name
    LockPools,               \* pools a user may name
    LockAmounts,             \* LP amounts the auction may name
    MAX_LOCKED,              \* bound: LP tokens a user may lock in a pool
    Incentives, MAX_INCENTIVES, \* NTRN of one transfer; bound on their sum
    Accruals, MAX_ACCRUED,   \* generator rewards of one step; bound on their sum
    IncentivesShares,        \* shares the auction may give to the two pools
    LockdropUpdateMsgs       \* contents of UpdateConfig messages

ASSUME LockdropWindowAssumption ==
    /\ LOCKDROP_INIT_TIMESTAMP \in Nat /\ LOCK_WINDOW \in Nat
    /\ LOCKDROP_WITHDRAWAL_WINDOW \in Nat
    /\ MIN_LOCK_DURATION \in Nat \ {0} /\ MAX_LOCK_DURATION \in Nat
    /\ MAX_POSITIONS_PER_USER \in Nat \ {0}
ASSUME LockdropAmountAssumption ==
    /\ LockDurations \subseteq Nat /\ LockAmounts \subseteq Nat
    /\ LockPools \subseteq PoolType /\ MAX_LOCKED \in Nat
    /\ Incentives \subseteq Nat /\ MAX_INCENTIVES \in Nat
    /\ Accruals \subseteq Nat /\ MAX_ACCRUED \in Nat
    /\ \A s \in IncentivesShares : s \in [PoolType -> Nat]
    /\ \A d \in DOMAIN LockWeight : LockWeight[d] \in Nat
ASSUME LockdropAddressAssumption ==
    /\ AUCTION \in AuctionAddrs /\ NONE \notin AuctionAddrs \cup Generators
    /\ IsFiniteSet(Generators)
    /\ \A m \in LockdropUpdateMsgs : /\ m.auction \in AuctionAddrs \cup {NONE}
                                     /\ m.generator \in Generators \cup {NONE}

VARIABLES
    lockdrop_config,      \* auction, generator and lockdrop_incentives of Config
    pools_set,            \* ASSET_POOLS holds the two pools
    amount_in_lockups, weighted_amount, incentives_share, is_staked,
    ntrn_per_share,       \* PoolInfo
    total_incentives_share, \* State
    lockup,               \* LOCKUP_INFO
    participants,         \* addresses with a lockdrop UserInfo record
    positions, total_ntrn_rewards, ntrn_transferred,  \* UserInfo
    total_user_lockup,    \* TOTAL_USER_LOCKUP_AMOUNT
    gen_deposit,          \* LP tokens of the lockdrop in a generator
    gen_reserve,          \* rewards the generators may still give the lockdrop
    gen_pending,          \* rewards of the lockdrop pending in a generator
    reward_balance,       \* generator reward tokens of the lockdrop
    incentives_balance,   \* NTRN of the lockdrop
    lp_held,              \* LP tokens of the lockdrop that are not staked
    received_ntrn,        \* one time rewards paid to a user
    received_lp           \* LP tokens returned to a user

poolVars   == <<pools_set, amount_in_lockups, weighted_amount, incentives_share,
                is_staked, ntrn_per_share, total_incentives_share>>
lockerVars == <<lockup, participants, positions, total_ntrn_rewards,
                ntrn_transferred, total_user_lockup>>
lockdropEnv == <<gen_deposit, gen_reserve, gen_pending, reward_balance,
                 incentives_balance, lp_held, received_ntrn, received_lp>>
lockdropVars == <<now, lockdrop_config, poolVars, lockerVars, lockdropEnv>>

Keys == PoolType \X Users \X LockDurations

\* The ends of the lock and of the withdrawal window.
LockCutoff  == LOCKDROP_INIT_TIMESTAMP + LOCK_WINDOW
WindowsEnd  == LockCutoff + LOCKDROP_WITHDRAWAL_WINDOW
UnlockTimestamp(duration) == WindowsEnd + duration

calculate_max_withdrawal_percent_allowed ==
    WithdrawalPercent(now, LockCutoff, LOCKDROP_WITHDRAWAL_WINDOW)

calculate_weight(amount, duration) == MulFloor(amount, LockWeight[duration])

ZeroPools == [p \in PoolType |-> 0]

\* instantiate, run at a block time not after LOCKDROP_INIT_TIMESTAMP.
LockdropInit ==
    /\ now \in 0..LOCKDROP_INIT_TIMESTAMP
    /\ lockdrop_config = [auction |-> AUCTION, generator |-> NONE,
                          lockdrop_incentives |-> 0]
    /\ pools_set = FALSE
    /\ amount_in_lockups = ZeroPools
    /\ weighted_amount = ZeroPools
    /\ incentives_share = ZeroPools
    /\ is_staked = [p \in PoolType |-> FALSE]
    /\ ntrn_per_share = ZeroPools
    /\ total_incentives_share = 0
    /\ lockup = [k \in {} |-> NONE]
    /\ participants = {}
    /\ positions = [u \in Users |-> 0]
    /\ total_ntrn_rewards = [u \in Users |-> 0]
    /\ ntrn_transferred = [u \in Users |-> FALSE]
    /\ total_user_lockup = [p \in PoolType |-> [u \in Users |-> 0]]
    /\ gen_deposit = [g \in Generators |-> ZeroPools]
    /\ gen_pending = [g \in Generators |-> ZeroPools]
    /\ gen_reserve = MAX_ACCRUED
    /\ reward_balance = 0
    /\ incentives_balance = 0
    /\ lp_held = ZeroPools
    /\ received_ntrn = [u \in Users |-> 0]
    /\ received_lp = [u \in Users |-> ZeroPools]
-----------------------------------------------------------------------------
\* The generator credits the lockdrop's stake with rewards.
GeneratorAccrues(g, p, amount) ==
    /\ gen_deposit[g][p] > 0
    /\ amount <= gen_reserve
    /\ gen_reserve' = gen_reserve - amount
    /\ gen_pending' = [gen_pending EXCEPT ![g][p] = @ + amount]
    /\ UNCHANGED <<now, lockdrop_config, poolVars, lockerVars, gen_deposit,
                   reward_balance, incentives_balance, lp_held, received_ntrn,
                   received_lp>>

\* Fault: the generator may be replaced while LP tokens are staked in it.
handle_update_config_AnyTime(sender, m) ==
    /\ sender = OWNER
    /\ lockdrop_config' = [lockdrop_config EXCEPT
           !.auction   = IF m.auction = NONE THEN @ ELSE m.auction,
           !.generator = IF m.generator = NONE THEN @ ELSE m.generator]
    /\ UNCHANGED <<now, poolVars, lockerVars, lockdropEnv>>

handle_update_config(sender, m) ==
    /\ sender = OWNER
    /\ \/ m.generator = NONE
       \/ lockdrop_config.generator = NONE
       \/ \A p \in PoolType : ~is_staked[p]
    /\ lockdrop_config' = [lockdrop_config EXCEPT
           !.auction   = IF m.auction = NONE THEN @ ELSE m.auction,
           !.generator = IF m.generator = NONE THEN @ ELSE m.generator]
    /\ UNCHANGED <<now, poolVars, lockerVars, lockdropEnv>>

\* Replaces both pools whatever they held.
handle_set_token_info(sender, generator) ==
    /\ sender \in {OWNER, MANAGER}
    /\ pools_set' = TRUE
    /\ amount_in_lockups' = ZeroPools
    /\ weighted_amount' = ZeroPools
    /\ incentives_share' = ZeroPools
    /\ is_staked' = [p \in PoolType |-> FALSE]
    /\ ntrn_per_share' = ZeroPools
    /\ lockdrop_config' = [lockdrop_config EXCEPT !.generator = generator]
    /\ UNCHANGED <<now, total_incentives_share, lockerVars, lockdropEnv>>

handle_increasing_ntrn_incentives(amount) ==
    /\ now < WindowsEnd
    /\ lockdrop_config.lockdrop_incentives + amount <= MAX_INCENTIVES
    /\ lockdrop_config' = [lockdrop_config EXCEPT !.lockdrop_incentives = @ + amount]
    /\ incentives_balance' = incentives_balance + amount
    /\ UNCHANGED <<now, poolVars, lockerVars, gen_deposit, gen_reserve,
                   gen_pending, reward_balance, lp_held, received_ntrn, received_lp>>

NewLockup(amount) ==
    [lp_units_locked |-> amount, astroport_lp_transferred |-> NONE,
     ntrn_rewards |-> 0, generator_ntrn_debt |-> 0, withdrawal_flag |-> FALSE]

handle_increase_lockup(sender, u, p, duration, amount) ==
    LET key == <<p, u, duration>>
    IN  /\ sender = lockdrop_config.auction
        /\ now < LockCutoff
        /\ duration \in DOMAIN LockWeight
        /\ pools_set
        /\ duration <= MAX_LOCK_DURATION /\ duration >= MIN_LOCK_DURATION
        /\ weighted_amount' = [weighted_amount EXCEPT
               ![p] = @ + calculate_weight(amount, duration)]
        /\ amount_in_lockups' = [amount_in_lockups EXCEPT ![p] = @ + amount]
        /\ \/ /\ key \in DOMAIN lockup
              /\ lockup' = [lockup EXCEPT ![key].lp_units_locked = @ + amount]
              /\ UNCHANGED positions
           \/ /\ key \notin DOMAIN lockup
              /\ positions[u] # MAX_POSITIONS_PER_USER
              /\ lockup' = [k \in DOMAIN lockup \cup {key} |->
                                IF k = key THEN NewLockup(amount) ELSE lockup[k]]
              /\ positions' = [positions EXCEPT ![u] = @ + 1]
        /\ participants' = participants \cup {u}
        /\ total_user_lockup' = [total_user_lockup EXCEPT ![p][u] = @ + amount]
        /\ UNCHANGED <<now, lockdrop_config, pools_set, incentives_share,
                       is_staked, ntrn_per_share, total_incentives_share,
                       total_ntrn_rewards, ntrn_transferred, lockdropEnv>>

\* Fault: neither the schedule nor the checked subtractions bound the amount.
WithdrawalAllowed_Unbounded(key, amount) == ~lockup[key].withdrawal_flag

\* One reduced withdrawal, within the schedule; the bounds on the pool's and
\* the user's amounts are checked subtractions.
WithdrawalAllowed(key, amount) ==
    /\ ~lockup[key].withdrawal_flag
    /\ amount <= MulFloor(lockup[key].lp_units_locked,
                          calculate_max_withdrawal_percent_allowed)
    /\ amount <= lockup[key].lp_units_locked
    /\ calculate_weight(amount, key[3]) <= weighted_amount[key[1]]
    /\ amount <= amount_in_lockups[key[1]]
    /\ amount <= total_user_lockup[key[1]][key[2]]

handle_withdraw_from_lockup(sender, u, p, duration, amount) ==
    LET key == <<p, u, duration>>
    IN  /\ sender = lockdrop_config.auction
        /\ now < WindowsEnd
        /\ amount # 0
        /\ pools_set
        /\ key \in DOMAIN lockup
        /\ WithdrawalAllowed(key, amount)
        /\ weighted_amount' = [weighted_amount EXCEPT
               ![p] = @ - calculate_weight(amount, duration)]
        /\ amount_in_lockups' = [amount_in_lockups EXCEPT ![p] = @ - amount]
        /\ \/ /\ amount = lockup[key].lp_units_locked
              /\ positions[u] > 0
              /\ lockup' = [k \in DOMAIN lockup \ {key} |-> lockup[k]]
              /\ positions' = [positions EXCEPT ![u] = @ - 1]
           \/ /\ amount # lockup[key].lp_units_locked
              /\ lockup' = [lockup EXCEPT
                     ![key].lp_units_locked = @ - amount,
                     ![key].withdrawal_flag = now >= LockCutoff]
              /\ UNCHANGED positions
        /\ total_user_lockup' = [total_user_lockup EXCEPT ![p][u] = @ - amount]
        /\ UNCHANGED <<now, lockdrop_config, pools_set, incentives_share,
                       is_staked, ntrn_per_share, total_incentives_share,
                       participants, total_ntrn_rewards, ntrn_transferred,
                       lockdropEnv>>

\* receive_cw20 and handle_initialize_pool for the pools with an amount: the
\* auction sends both messages in one transaction. The LP tokens go straight
\* to the generator.
handle_initialize_pool(sender, share, amount) ==
    LET funded == {p \in PoolType : amount[p] # 0}
        g      == lockdrop_config.generator
    IN  /\ sender = lockdrop_config.auction
        /\ funded # {} => pools_set /\ g # NONE
        /\ incentives_share' = [p \in PoolType |->
               IF p \in funded THEN share[p] ELSE incentives_share[p]]
        /\ is_staked' = [p \in PoolType |-> p \in funded \/ is_staked[p]]
        /\ total_incentives_share' = total_incentives_share
               + (IF "ATOM" \in funded THEN share["ATOM"] ELSE 0)
               + (IF "USDC" \in funded THEN share["USDC"] ELSE 0)
        /\ gen_deposit' = IF funded = {} THEN gen_deposit
               ELSE [gen_deposit EXCEPT
                   ![g] = [p \in PoolType |-> gen_deposit[g][p] + amount[p]]]
        /\ UNCHANGED <<now, lockdrop_config, pools_set, amount_in_lockups,
                       weighted_amount, ntrn_per_share, lockerVars, gen_reserve,
                       gen_pending, reward_balance, incentives_balance, lp_held,
                       received_ntrn, received_lp>>
-----------------------------------------------------------------------------
\* Faults: every pool distributes all incentives; the divisor is the amount
\* still in lockups instead of the weighted amount.
calculate_astro_incentives_AllToEach(weight, p) ==
    IF total_incentives_share = 0 \/ weighted_amount[p] = 0 THEN 0
    ELSE MulFloor(lockdrop_config.lockdrop_incentives,
                  FromRatio(weight, weighted_amount[p]))
calculate_astro_incentives_OfCurrent(weight, p) ==
    IF total_incentives_share = 0 \/ amount_in_lockups[p] = 0 THEN 0
    ELSE MulFloor(lockdrop_config.lockdrop_incentives,
                  FromRatio(incentives_share[p] * weight,
                            total_incentives_share * amount_in_lockups[p]))

calculate_astro_incentives_for_lockup(weight, p) ==
    IF total_incentives_share = 0 \/ weighted_amount[p] = 0 THEN 0
    ELSE MulFloor(lockdrop_config.lockdrop_incentives,
                  FromRatio(incentives_share[p] * weight,
                            total_incentives_share * weighted_amount[p]))

UserKeys(u) == {k \in DOMAIN lockup : k[2] = u}

\* The one time reward of a lockup: the stored one or, if that is zero, the
\* one that follows from the weights.
LockupReward(k) ==
    IF lockup[k].ntrn_rewards # 0 THEN lockup[k].ntrn_rewards
    ELSE calculate_astro_incentives_for_lockup(
             calculate_weight(lockup[k].lp_units_locked, k[3]), k[1])

\* What update_user_lockup_positions_and_calc_rewards returns for u, unless
\* the user's total is known already.
UserReward(u) ==
    IF total_ntrn_rewards[u] # 0 THEN total_ntrn_rewards[u]
    ELSE SumOver([k \in UserKeys(u) |-> LockupReward(k)], UserKeys(u))

\* LOCKUP_INFO as update_user_lockup_positions_and_calc_rewards leaves it.
RewardedLockups(u) ==
    IF total_ntrn_rewards[u] # 0 THEN lockup
    ELSE [k \in DOMAIN lockup |->
             IF k \in UserKeys(u)
             THEN [lockup[k] EXCEPT !.ntrn_rewards = LockupReward(k)]
             ELSE lockup[k]]

\* What PendingToken reports; ClaimRewards is sent when it is not zero.
PendingRewards(p) ==
    IF is_staked[p] THEN gen_pending[lockdrop_config.generator][p] ELSE 0

\* The LP tokens the pool holds: staked, or still in the contract.
PoolLpBalance(p) ==
    IF is_staked[p] THEN gen_deposit[lockdrop_config.generator][p] ELSE lp_held[p]

\* Fault: the balance before the claim is not subtracted.
UpdatedPerShare_WholeBalance(p) ==
    IF PendingRewards(p) = 0 THEN ntrn_per_share[p]
    ELSE ntrn_per_share[p]
             + FromRatio(reward_balance + PendingRewards(p), PoolLpBalance(p))

\* update_pool_on_dual_rewards_claim. The division panics without a stake.
UpdatedPerShare(p) ==
    IF PendingRewards(p) = 0 THEN ntrn_per_share[p]
    ELSE ntrn_per_share[p] + FromRatio(PendingRewards(p), PoolLpBalance(p))

\* The LP tokens that stand for a lockup. The division fails without lockups.
LockupLpAmount(k) ==
    (lockup[k].lp_units_locked * PoolLpBalance(k[1])) \div amount_in_lockups[k[1]]

\* The generator rewards of a lockup since it was opened, at a rate per share.
AccruedRewards(k, per_share) == MulFloor(LockupLpAmount(k), per_share)

\* Fault: the user's total keeps the returned units.
ReturnLp_NoUserTotal(key, lp_amount) ==
    LET p == key[1]  u == key[2]  units == lockup[key].lp_units_locked
        g == lockdrop_config.generator
    IN  /\ lp_amount # 0
        /\ lp_amount <= PoolLpBalance(p)
        /\ units <= amount_in_lockups[p]
        /\ amount_in_lockups' = [amount_in_lockups EXCEPT ![p] = @ - units]
        /\ received_lp' = [received_lp EXCEPT ![u][p] = @ + lp_amount]
        /\ gen_deposit' = IF is_staked[p]
               THEN [gen_deposit EXCEPT ![g][p] = @ - lp_amount] ELSE gen_deposit
        /\ lp_held' = IF is_staked[p] THEN lp_held
                      ELSE [lp_held EXCEPT ![p] = @ - lp_amount]
        /\ UNCHANGED total_user_lockup

\* The part of the callback that unstakes and returns the LP tokens of a
\* lockup. The LP token refuses to transfer nothing.
ReturnLp(key, lp_amount) ==
    LET p == key[1]  u == key[2]  units == lockup[key].lp_units_locked
        g == lockdrop_config.generator
    IN  /\ lp_amount # 0
        /\ lp_amount <= PoolLpBalance(p)
        /\ units <= amount_in_lockups[p]
        /\ units <= total_user_lockup[p][u]
        /\ amount_in_lockups' = [amount_in_lockups EXCEPT ![p] = @ - units]
        /\ total_user_lockup' = [total_user_lockup EXCEPT ![p][u] = @ - units]
        /\ received_lp' = [received_lp EXCEPT ![u][p] = @ + lp_amount]
        /\ gen_deposit' = IF is_staked[p]
               THEN [gen_deposit EXCEPT ![g][p] = @ - lp_amount] ELSE gen_deposit
        /\ lp_held' = IF is_staked[p] THEN lp_held
                      ELSE [lp_held EXCEPT ![p] = @ - lp_amount]

\* The part of the callback that pays the one time reward. For a user with an
\* airdrop it also sends BurnFrom to the credits contract, which changes
\* nothing here; module Distribution composes the two.
PayOneTimeReward(u, reward) ==
    /\ reward <= incentives_balance
    /\ incentives_balance' = incentives_balance - reward
    /\ received_ntrn' = [received_ntrn EXCEPT ![u] = @ + reward]
    /\ ntrn_transferred' = [ntrn_transferred EXCEPT ![u] = TRUE]

(***************************************************************************)
(* handle_claim_rewards_and_unlock_for_lockup with its callbacks            *)
(* update_pool_on_dual_rewards_claim and                                    *)
(* callback_withdraw_user_rewards_for_lockup_optional_withdraw, one         *)
(* transaction.                                                             *)
(***************************************************************************)
handle_claim_rewards_and_unlock_for_lockup(u, p, duration, withdraw_lp_stake) ==
    LET key       == <<p, u, duration>>
        g         == lockdrop_config.generator
        lp_amount == LockupLpAmount(key)
        per_share == UpdatedPerShare(p)
        pending   == IF is_staked[p]
                     THEN AccruedRewards(key, per_share)
                              - lockup[key].generator_ntrn_debt
                     ELSE 0
        reward    == UserReward(u)
    IN  /\ now >= WindowsEnd
        /\ pools_set
        /\ u \in participants
        /\ key \in DOMAIN lockup
        /\ withdraw_lp_stake => now >= UnlockTimestamp(duration)
        /\ lockup[key].astroport_lp_transferred = NONE
        /\ g # NONE
        /\ PendingRewards(p) # 0 => PoolLpBalance(p) # 0
        /\ amount_in_lockups[p] # 0
        /\ pending >= 0
        /\ withdraw_lp_stake \/ ~ntrn_transferred[u] \/ pending # 0
        /\ pending <= reward_balance + PendingRewards(p)
        /\ reward_balance' = reward_balance + PendingRewards(p) - pending
        /\ gen_pending' = IF is_staked[p] THEN [gen_pending EXCEPT ![g][p] = 0]
                          ELSE gen_pending
        /\ ntrn_per_share' = [ntrn_per_share EXCEPT ![p] = per_share]
        /\ total_ntrn_rewards' = [total_ntrn_rewards EXCEPT ![u] = reward]
        /\ lockup' = [RewardedLockups(u) EXCEPT
               ![key].generator_ntrn_debt = @ + pending,
               ![key].astroport_lp_transferred =
                   IF withdraw_lp_stake THEN lp_amount ELSE NONE]
        /\ IF withdraw_lp_stake
           THEN ReturnLp(key, lp_amount)
           ELSE UNCHANGED <<amount_in_lockups, total_user_lockup, received_lp,
                            gen_deposit, lp_held>>
        /\ IF ntrn_transferred[u]
           THEN UNCHANGED <<incentives_balance, received_ntrn, ntrn_transferred>>
           ELSE PayOneTimeReward(u, reward)
        /\ UNCHANGED <<now, lockdrop_config, pools_set, weighted_amount,
                       incentives_share, is_staked, total_incentives_share,
                       participants, positions, gen_reserve>>
-----------------------------------------------------------------------------
(***************************************************************************)
(* Steps that need no other contract of this repository. The manager is     *)
(* assumed to give the token addresses before anybody locks: SetTokenInfo   *)
(* does not check it, and a later call forgets every lockup of the pools.   *)
(***************************************************************************)
LockdropSetup ==
    \/ \E g \in Generators, p \in PoolType, amount \in Accruals :
           GeneratorAccrues(g, p, amount)
    \/ \E s \in Senders, m \in LockdropUpdateMsgs : handle_update_config(s, m)
    \/ /\ participants = {}
       /\ \E s \in Senders, g \in Generators : handle_set_token_info(s, g)
    \/ \E amount \in Incentives : handle_increasing_ntrn_incentives(amount)

LockdropStep ==
    \/ LockdropSetup
    \/ \E u \in Users, p \in LockPools, d \in LockDurations, w \in BOOLEAN :
           handle_claim_rewards_and_unlock_for_lockup(u, p, d, w)

(***************************************************************************)
(* What the lockdrop relies on: its auction changes lockups only before it  *)
(* initialises the pools, never beyond a user's entitlement, initialises    *)
(* once, and then sends the LP tokens of exactly the lockups there are.     *)
(* Module Launch shows that the auction contract keeps this promise.        *)
(***************************************************************************)
AuctionCalls ==
    /\ \A p \in PoolType : ~is_staked[p]
    /\ \/ \E s \in AuctionAddrs, u \in Users, p \in LockPools,
             d \in LockDurations, a \in LockAmounts :
              /\ total_user_lockup[p][u] + a <= MAX_LOCKED
              /\ handle_increase_lockup(s, u, p, d, a)
       \/ \E s \in AuctionAddrs, u \in Users, p \in LockPools,
             d \in LockDurations, a \in LockAmounts :
              handle_withdraw_from_lockup(s, u, p, d, a)
       \/ \E s \in AuctionAddrs, share \in IncentivesShares :
              handle_initialize_pool(s, share, amount_in_lockups)

LockdropTick ==
    /\ NextBlock
    /\ UNCHANGED <<lockdrop_config, poolVars, lockerVars, lockdropEnv>>

LockdropNext == LockdropTick \/ LockdropStep \/ AuctionCalls

LockdropSpec == LockdropInit /\ [][LockdropNext]_lockdropVars
-----------------------------------------------------------------------------
LockupRecords ==
    [lp_units_locked : Nat, astroport_lp_transferred : Nat \cup {NONE},
     ntrn_rewards : Nat, generator_ntrn_debt : Nat, withdrawal_flag : BOOLEAN]

\* The contract's fields have their types; no balance is negative.
LockdropTypeOK ==
    /\ lockdrop_config \in [auction : AuctionAddrs,
                            generator : Generators \cup {NONE},
                            lockdrop_incentives : Nat]
    /\ pools_set \in BOOLEAN
    /\ amount_in_lockups \in [PoolType -> Nat]
    /\ weighted_amount \in [PoolType -> Nat]
    /\ incentives_share \in [PoolType -> Nat]
    /\ is_staked \in [PoolType -> BOOLEAN]
    /\ ntrn_per_share \in [PoolType -> Nat]
    /\ total_incentives_share \in Nat
    /\ DOMAIN lockup \subseteq Keys
    /\ \A k \in DOMAIN lockup : lockup[k] \in LockupRecords
    /\ participants \subseteq Users
    /\ positions \in [Users -> 0..MAX_POSITIONS_PER_USER]
    /\ total_ntrn_rewards \in [Users -> Nat]
    /\ ntrn_transferred \in [Users -> BOOLEAN]
    /\ total_user_lockup \in [PoolType -> [Users -> Nat]]
    /\ gen_deposit \in [Generators -> [PoolType -> Nat]]
    /\ gen_pending \in [Generators -> [PoolType -> Nat]]
    /\ gen_reserve \in Nat
    /\ reward_balance \in Nat
    /\ incentives_balance \in Nat
    /\ lp_held \in [PoolType -> Nat]
    /\ received_ntrn \in [Users -> Nat]
    /\ received_lp \in [Users -> [PoolType -> Nat]]

\* Lockups whose LP tokens have not been returned.
LiveLockups == {k \in DOMAIN lockup : lockup[k].astroport_lp_transferred = NONE}

UnitsOf(S) == SumOver([k \in DOMAIN lockup |-> lockup[k].lp_units_locked], S)

\* The three ledgers agree: a pool's amount_in_lockups, the users' entries in
\* TOTAL_USER_LOCKUP_AMOUNT (voting power) and the lockup records, and the
\* position counter that limits a user counts the user's records.
LedgersAgree ==
    /\ \A p \in PoolType :
           /\ amount_in_lockups[p] = UnitsOf({k \in LiveLockups : k[1] = p})
           /\ \A u \in Users : total_user_lockup[p][u] =
                  UnitsOf({k \in LiveLockups : k[1] = p /\ k[2] = u})
    /\ \A u \in Users : positions[u] = Cardinality(UserKeys(u))

\* Every lockup is worth its units: the stake in the current generator is the
\* pool's amount in lockups, whoever has claimed or left, and a lockup that
\* was returned was returned in full. The proportional share
\* units * balance / amount_in_lockups never pays one user from another's LP.
LockupsWhole ==
    /\ \A p \in PoolType : is_staked[p] =>
           gen_deposit[lockdrop_config.generator][p] = amount_in_lockups[p]
    /\ \A k \in DOMAIN lockup \ LiveLockups :
           lockup[k].astroport_lp_transferred = lockup[k].lp_units_locked

\* The generator rewards already claimed cover what the live lockups may
\* still draw at the current rate per share, and no lockup has drawn more
\* than its share (the checked subtraction in the callback would fail).
GeneratorRewardsCovered ==
    /\ \A k \in LiveLockups :
           lockup[k].generator_ntrn_debt
               <= MulFloor(lockup[k].lp_units_locked, ntrn_per_share[k[1]])
    /\ SumOver([k \in DOMAIN lockup |->
                    MulFloor(lockup[k].lp_units_locked, ntrn_per_share[k[1]])
                        - lockup[k].generator_ntrn_debt], LiveLockups)
           <= reward_balance

PoolsInitialised == \E p \in PoolType : is_staked[p]

\* The contract's NTRN pays the one time reward of every user who has not
\* been paid, in whatever order they claim.
RewardsCovered ==
    PoolsInitialised =>
        SumOver([u \in Users |-> UserReward(u)], {u \in Users : ~ntrn_transferred[u]})
            <= incentives_balance

\* The one time reward of a lockup does not depend on who claims first, on
\* who has left, or on when it is claimed.
RewardStable ==
    [][(now >= WindowsEnd /\ PoolsInitialised) =>
           \A k \in DOMAIN lockup :
               k \in DOMAIN lockup' /\ LockupReward(k)' = LockupReward(k)]_lockdropVars

\* "Transfers claimable one time NTRN rewards to the user that the user gets
\* for all his lock": a user marked as paid has been paid the whole reward.
RewardPaidInFull ==
    \A u \in Users : ntrn_transferred[u] => received_ntrn[u] = UserReward(u)

\* "100% amount can be withdrawn during deposit window": the contract accepts
\* the withdrawal of a whole lockup while the lock window is open.
FullWithdrawalAccepted ==
    (now < LockCutoff /\ ~PoolsInitialised) =>
        \A k \in DOMAIN lockup : lockup[k].lp_units_locked > 0 =>
            ENABLED handle_withdraw_from_lockup(lockdrop_config.auction, k[2],
                        k[1], k[3], lockup[k].lp_units_locked)
=============================================================================
