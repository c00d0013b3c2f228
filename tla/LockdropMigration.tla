------------------------- MODULE LockdropMigration -------------------------
(***************************************************************************)
(* The migration of lockups from the lockdrop contract of the XYK pools to  *)
(* that of the PCL pools, and both contracts' claims around it. It starts   *)
(* where module Launch ends: the windows are over, the auction has          *)
(* initialised the pools, and LOCKUP_INFO holds one of the sets of lockups  *)
(* it may hold then. A lockup of 0 units is one of them: the auction        *)
(* accepts to lock nothing.                                                 *)
(*                                                                         *)
(* MigrateLiquidityToPCLPools moves all lockups of a user in one            *)
(* transaction, a chain of callbacks for each. The withdrawal from the XYK  *)
(* pair and the deposit in the PCL pair are external: together they turn    *)
(* the LP tokens of a lockup into a positive number of PCL LP tokens.       *)
(***************************************************************************)
EXTENDS Lockdrop, LockdropPcl

CONSTANTS
    InitialLockups,   \* functions from the keys of LOCKUP_INFO to LP units
    MintedLp          \* PCL LP tokens a migrated lockup may bring

ASSUME MigrationAssumption ==
    /\ \A book \in InitialLockups :
           /\ book \in [DOMAIN book -> Nat]
           /\ DOMAIN book \subseteq Keys /\ IsFiniteSet(DOMAIN book)
           /\ \A k \in DOMAIN book : k[3] \in DOMAIN LockWeight /\ k[3] >= MIN_LOCK_DURATION
           /\ \A u \in Users :
                  Cardinality({k \in DOMAIN book : k[2] = u}) <= MAX_POSITIONS_PER_USER
    /\ MintedLp \subseteq Nat \ {0}

VARIABLE lockdrop_migrated   \* PCL_LOCKDROP_CONTRACT is stored

migrationVars == <<lockdropVars, pcl, lockdrop_migrated>>

LockedIn(book, p) ==
    SumOver(book, {k \in DOMAIN book : k[1] = p})

MigrationInit ==
    \E book \in InitialLockups, g \in Generators, share \in IncentivesShares,
       incentives \in Incentives :
        LET holders == {k[2] : k \in DOMAIN book}
            locked  == [p \in PoolType |-> LockedIn(book, p)]
            staked  == {p \in PoolType : locked[p] # 0}
        IN  /\ now = WindowsEnd
            /\ lockdrop_config = [auction |-> AUCTION, generator |-> g,
                                  lockdrop_incentives |-> incentives]
            /\ pools_set = TRUE
            /\ amount_in_lockups = locked
            /\ weighted_amount = [p \in PoolType |->
                   SumOver([k \in DOMAIN book |-> calculate_weight(book[k], k[3])],
                           {k \in DOMAIN book : k[1] = p})]
            /\ incentives_share = [p \in PoolType |-> IF p \in staked THEN share[p] ELSE 0]
            /\ is_staked = [p \in PoolType |-> p \in staked]
            /\ ntrn_per_share = ZeroPools
            /\ total_incentives_share = SumOver(share, staked)
            /\ lockup = [k \in DOMAIN book |-> NewLockup(book[k])]
            /\ participants = holders
            /\ positions = [u \in Users |-> Cardinality({k \in DOMAIN book : k[2] = u})]
            /\ total_ntrn_rewards = [u \in Users |-> 0]
            /\ ntrn_transferred = [u \in Users |-> FALSE]
            /\ total_user_lockup = [p \in PoolType |-> [u \in Users |->
                   SumOver(book, {k \in DOMAIN book : k[1] = p /\ k[2] = u})]]
            /\ gen_deposit = [h \in Generators |-> IF h = g THEN locked ELSE ZeroPools]
            /\ gen_pending = [h \in Generators |-> ZeroPools]
            /\ gen_reserve = MAX_ACCRUED
            /\ reward_balance = 0
            /\ incentives_balance = incentives
            /\ lp_held = ZeroPools
            /\ received_ntrn = [u \in Users |-> 0]
            /\ received_lp = [u \in Users |-> ZeroPools]
            /\ PclInit
            /\ lockdrop_migrated = FALSE

\* migrate of the lockdrop contract stores the address of the other one.
lockdrop_migrate ==
    /\ ~lockdrop_migrated
    /\ lockdrop_migrated' = TRUE
    /\ UNCHANGED <<lockdropVars, pcl>>
-----------------------------------------------------------------------------
\* The order in which a user's lockups are migrated: by pool, by duration.
KeyBefore(k, l) ==
    \/ k[1] = "ATOM" /\ l[1] = "USDC"
    \/ k[1] = l[1] /\ k[3] < l[3]
LastMigrated(S) == CHOOSE k \in S : \A l \in S \ {k} : KeyBefore(l, k)

\* Fault: the other contract is told of a user whose reward is still due.
SentUserInfo_Unpaid(u) ==
    [total_ntrn_rewards |-> UserReward(u), ntrn_transferred |-> FALSE]

\* USER_INFO as it is when it is sent: the first of the lockups has paid the
\* one time reward.
SentUserInfo(u) ==
    [total_ntrn_rewards |-> UserReward(u), ntrn_transferred |-> TRUE]

\* Fault: rewards that accrued before the migration are not paid out.
RewardAtMigration_Dropped(k, lp_amount) == 0

\* The part of callback_transfer_all_rewards_before_migration that computes
\* the generator rewards of a lockup. The debt is not stored again.
RewardAtMigration(k, lp_amount) ==
    MulFloor(lp_amount, UpdatedPerShare(k[1])) - lockup[k].generator_ntrn_debt

\* Fault: the total of the user still counts the lockup that leaves.
WithdrawnLockup_TotalKept(x, key, lp_amount) ==
    LET p     == key[1]
        units == lockup[key].lp_units_locked
    IN  [x EXCEPT
            !.ok = @ /\ lp_amount # 0 /\ units <= x.amount[p] /\ units <= x.user_total[p],
            !.amount[p] = @ - units,
            !.deposit[p] = @ - lp_amount,
            !.lockup[key].astroport_lp_transferred = lp_amount]

\* callback_withdraw_user_lockup: the books after the LP tokens have left.
\* The LP token refuses to send nothing, the subtractions are checked.
WithdrawnLockup(x, key, lp_amount) ==
    LET p     == key[1]
        units == lockup[key].lp_units_locked
    IN  [x EXCEPT
            !.ok = @ /\ lp_amount # 0 /\ units <= x.amount[p] /\ units <= x.user_total[p],
            !.amount[p] = @ - units,
            !.deposit[p] = @ - lp_amount,
            !.user_total[p] = @ - units,
            !.lockup[key].astroport_lp_transferred = lp_amount]

\* callback_migrate_user_lockup_to_pcl_pair: the lockup is handed over, with
\* the order to stake when nothing of the pool is left here.
HandedOver(x, key, minted) ==
    [x EXCEPT !.ok = @ /\ key[3] \in PclDurations,
              !.pcl = pcl_handle_migrate_xyk_liquidity(@, key, minted[key],
                  SentUserInfo(key[2]), UnlockTimestamp(key[3]), x.deposit[key[1]] = 0)]

(***************************************************************************)
(* One lockup of the chain: callback_init_migrate_lockup_to_pcl_pools and   *)
(* callback_transfer_all_rewards_before_migration, then the two above. x is *)
(* what the chain has changed so far; x.ok becomes FALSE when the           *)
(* transaction fails.                                                       *)
(***************************************************************************)
MigrateLockup(x, key, minted) ==
    LET p         == key[1]
        lp_amount == (lockup[key].lp_units_locked * x.deposit[p]) \div x.amount[p]
        reward    == RewardAtMigration(key, lp_amount)
        paid      == [x EXCEPT !.ok = reward >= 0, !.rewards = @ + reward]
    IN  IF ~x.ok \/ x.amount[p] = 0 \/ x.deposit[p] = 0 THEN [x EXCEPT !.ok = FALSE]
        ELSE HandedOver(WithdrawnLockup(paid, key, lp_amount), key, minted)

\* The books after the chains of the lockups in mine, one after the other.
Migrated(mine, start, minted) ==
    LET after[S \in SUBSET mine] ==
            IF S = {} THEN start
            ELSE MigrateLockup(after[S \ {LastMigrated(S)}], LastMigrated(S), minted)
    IN  after[mine]

\* MigrateLiquidityToPCLPools, for any user and from any sender. A lockup in
\* a pool that is not staked, or whose LP tokens are none, fails the whole.
handle_migrate_liquidity_to_pcl_pools(u, minted) ==
    LET g       == lockdrop_config.generator
        mine    == {k \in LiveLockups : k[2] = u}
        pools   == {k[1] : k \in mine}
        pending == SumOver([p \in PoolType |-> PendingRewards(p)], pools)
        start   == [ok |-> TRUE, amount |-> amount_in_lockups, deposit |-> gen_deposit[g],
                    user_total |-> [p \in PoolType |-> total_user_lockup[p][u]],
                    rewards |-> 0, lockup |-> RewardedLockups(u), pcl |-> pcl]
        done    == Migrated(mine, start, minted)
    IN  /\ u \in participants
        /\ mine # {} => lockdrop_migrated /\ \A p \in pools : is_staked[p]
        /\ \A p \in pools : PendingRewards(p) # 0 => PoolLpBalance(p) # 0
        /\ done.ok
        /\ done.rewards <= reward_balance + pending
        /\ total_ntrn_rewards' = [total_ntrn_rewards EXCEPT ![u] = UserReward(u)]
        /\ lockup' = done.lockup
        /\ amount_in_lockups' = done.amount
        /\ total_user_lockup' = [p \in PoolType |->
               [total_user_lockup[p] EXCEPT ![u] = done.user_total[p]]]
        /\ ntrn_per_share' = [p \in PoolType |->
               IF p \in pools THEN UpdatedPerShare(p) ELSE ntrn_per_share[p]]
        /\ gen_deposit' = [gen_deposit EXCEPT ![g] = done.deposit]
        /\ gen_pending' = [gen_pending EXCEPT ![g] = [p \in PoolType |->
               IF p \in pools THEN 0 ELSE @[p]]]
        /\ reward_balance' = reward_balance + pending - done.rewards
        /\ pcl' = done.pcl
        /\ IF mine = {} \/ ntrn_transferred[u]
           THEN UNCHANGED <<incentives_balance, received_ntrn, ntrn_transferred>>
           ELSE PayOneTimeReward(u, UserReward(u))
        /\ UNCHANGED <<now, lockdrop_config, pools_set, weighted_amount, incentives_share,
                       is_staked, total_incentives_share, participants, positions,
                       gen_reserve, lp_held, received_lp, lockdrop_migrated>>
-----------------------------------------------------------------------------
MigrationStep ==
    \/ (LockdropStep \/ LockdropTick) /\ UNCHANGED <<pcl, lockdrop_migrated>>
    \/ PclStep /\ UNCHANGED <<lockdropVars, lockdrop_migrated>>
    \/ lockdrop_migrate
    \/ \E u \in Users : \E minted \in [{k \in LiveLockups : k[2] = u} -> MintedLp] :
           handle_migrate_liquidity_to_pcl_pools(u, minted)

\* Time passes, and each user goes on asking both contracts for the LP tokens.
MigrationFairness ==
    /\ WF_migrationVars(LockdropTick /\ UNCHANGED <<pcl, lockdrop_migrated>>)
    /\ \A u \in Users, p \in PoolType, d \in LockDurations :
           /\ WF_migrationVars(handle_claim_rewards_and_unlock_for_lockup(u, p, d, TRUE)
                               /\ UNCHANGED <<pcl, lockdrop_migrated>>)
           /\ WF_migrationVars(pcl_handle_claim_rewards_and_unlock_for_lockup(u, p, d, TRUE)
                               /\ UNCHANGED <<lockdropVars, lockdrop_migrated>>)

MigrationSpec == MigrationInit /\ [][MigrationStep]_migrationVars /\ MigrationFairness
-----------------------------------------------------------------------------
\* Where the LP tokens of a lockup are.
Place(k) ==
    CASE k \in LiveLockups \cap DOMAIN pcl.lockup -> "both"
      [] k \in LiveLockups \ DOMAIN pcl.lockup -> "xyk"
      [] k \in PclLive \ LiveLockups -> "pcl"
      [] k \in DOMAIN lockup \ (LiveLockups \cup PclLive) -> "returned"
      [] OTHER -> "none"

Custody == INSTANCE LockupCustody WITH
    Lockups  <- Keys,
    HolderOf <- LAMBDA k : k[2],
    place    <- [k \in Keys |-> Place(k)],
    expired  <- {k \in Keys : now > WindowsEnd /\ now >= UnlockTimestamp(k[3])}

\* The two contracts implement the custody of module LockupCustody: the chain
\* of callbacks moves all lockups of a user or none, neither loses one nor
\* leaves one in both contracts, and no way through them returns LP tokens
\* before the unlock time that the user agreed to, or twice.
CustodyKept == Custody!CustodySpec

\* Of a pool that was staked, only lockups of nothing are left here.
AllGone(p) ==
    is_staked[p] => \A k \in LiveLockups : k[1] = p => lockup[k].lp_units_locked = 0

\* "This makes sure the XYK lockdrop contract has no obligations once the
\* liquidity is migrated": when the last lockup of a pool is gone, by
\* migrations and returns in any order, the contract has no stake in it, no
\* user total and no one time reward to pay for it.
NoObligationsLeft ==
    \A p \in PoolType : (is_staked[p] /\ AllGone(p)) =>
        /\ amount_in_lockups[p] = 0
        /\ gen_deposit[lockdrop_config.generator][p] = 0
        /\ \A u \in Users : total_user_lockup[p][u] = 0
        /\ \A k \in DOMAIN lockup : k[1] = p /\ lockup[k].lp_units_locked > 0 =>
               ntrn_transferred[k[2]] /\ received_ntrn[k[2]] = UserReward(k[2])

\* Nor does it keep generator rewards that a lockup earned: when the lockups
\* of both pools are gone, at most one is left for each of them. The rate per
\* share is rounded as well, every time that rewards come, by less than one
\* while the LP tokens of a pool are fewer than DECIMAL_FRACTIONAL: the bound
\* is for rewards that come once.
OnlyDustKept ==
    (\A p \in PoolType : AllGone(p)) => reward_balance <= Cardinality(DOMAIN lockup)

\* Every lockup that holds anything is returned by the contract it is in: no
\* rounding, order of claims and migrations, or unpaid reward blocks a claim.
EveryLockupReturned ==
    \A k \in Keys :
        (k \in DOMAIN lockup /\ lockup[k].lp_units_locked > 0) ~> (Place(k) = "returned")

\* "zero LP tokens left for the XYK lockdrop contract means this is the last
\* lockdrop participant being migrated, => time to stake pool's LP tokens":
\* once the XYK contract has no LP tokens of a pool left, the LP tokens that
\* came to the PCL contract are staked.
StakedOnceAllHaveCome ==
    \A p \in PoolType :
        (gen_deposit[lockdrop_config.generator][p] = 0 /\ pcl.lp_held[p] > 0)
            => pcl.is_staked[p]
=============================================================================
