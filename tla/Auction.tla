------------------------------ MODULE Auction ------------------------------
(***************************************************************************)
(* The auction contract: users deposit ATOM and USDC, may take part of it   *)
(* back in the withdrawal window, the pool sizes are fixed from a price     *)
(* feed, users lock their future LP tokens in the lockdrop contract, the    *)
(* pools are initialised and what is not locked goes to vesting, a pack of  *)
(* users at a time.                                                         *)
(*                                                                         *)
(* One execute message is one action. A handler that returns an error, or   *)
(* whose arithmetic panics (overflow-checks = true), or whose submessage is  *)
(* refused leaves no trace, so every check of the code is a guard. The      *)
(* fields of State and UserInfo that exist once per asset are functions on  *)
(* PoolType.                                                                *)
(***************************************************************************)
EXTENDS TgeCommon

CONSTANTS
    INIT_TIMESTAMP, DEPOSIT_WINDOW, WITHDRAWAL_WINDOW, LP_TOKENS_LOCK_WINDOW,
    MAX_EXCHANGE_RATE_AGE, MIN_NTRN_AMOUNT, MINIMUM_LIQUIDITY_AMOUNT,
    PACK_SIZE,              \* vesting_migration_pack_size at instantiation
    WALLET,                 \* coins of each asset a user starts with
    MAX_NTRN,               \* bound: NTRN ever sent to the auction
    Amounts,                \* amounts a user may name in Deposit / Withdraw
    LpAmounts,              \* amounts a user may name in LockLp / WithdrawLp
    NtrnFunds,              \* amounts of one NTRN transfer to the auction
    FeedReplies,            \* replies the price feed may give, oldest query first
    UpdateConfigMsgs,       \* contents of UpdateConfig messages
    TokenInfoMsgs           \* contents of SetTokenInfo messages

ASSUME WindowAssumption ==
    /\ INIT_TIMESTAMP \in Nat /\ DEPOSIT_WINDOW \in Nat
    /\ WITHDRAWAL_WINDOW \in Nat \ {0} /\ LP_TOKENS_LOCK_WINDOW \in Nat
    /\ MAX_EXCHANGE_RATE_AGE \in Nat
ASSUME AmountAssumption ==
    /\ MIN_NTRN_AMOUNT \in Nat /\ MINIMUM_LIQUIDITY_AMOUNT \in Nat
    /\ PACK_SIZE \in Nat /\ WALLET \in Nat /\ MAX_NTRN \in Nat
    /\ Amounts \subseteq Nat /\ LpAmounts \subseteq Nat /\ NtrnFunds \subseteq Nat

\* Vec<PriceFeedRate>: index 1 is ATOM, index 2 is USDC; resolve_time is
\* given by its age at the time of the query.
ASSUME FeedAssumption ==
    \A reply \in FeedReplies : \A i \in DOMAIN reply :
        reply[i].rate \in Nat /\ reply[i].age \in Nat
ASSUME MsgAssumption ==
    /\ \A m \in UpdateConfigMsgs :
           /\ m.owner \in Senders \cup {NONE}
           /\ m.lockdrop \in BOOLEAN /\ m.pool_info \in BOOLEAN
           /\ m.pack_size \in Nat \cup {NONE}
    /\ \A m \in TokenInfoMsgs :
           m.denoms \subseteq PoolType /\ m.pool_info \in BOOLEAN

VARIABLES
    config,              \* the mutable part of Config
    total_deposited, ntrn_size, lp_size, lp_locked, lp_minted,
    pool_init_timestamp, \* State
    known,               \* addresses with a UserInfo record
    deposited, user_lp_locked, withdrawn, is_vested,  \* UserInfo
    wallet,              \* users' own coins
    bank,                \* the auction's ATOM and USDC
    ntrn,                \* the auction's NTRN
    lp_balance,          \* LP tokens of the auction
    reserve_lp,          \* LP tokens sent to the reserve
    lockdrop_lp,         \* LP tokens sent to the lockdrop contract
    vesting_lp           \* LP tokens registered for a user in vesting

stateVars  == <<total_deposited, ntrn_size, lp_size, lp_locked, lp_minted,
                pool_init_timestamp>>
userVars   == <<known, deposited, user_lp_locked, withdrawn, is_vested>>
coinVars   == <<wallet, bank, ntrn>>
lpVars     == <<lp_balance, reserve_lp, lockdrop_lp, vesting_lp>>
auctionVars == <<now, config, stateVars, userVars, coinVars, lpVars>>

\* The ends of the deposit, withdrawal and lock windows.
DepositEnd    == INIT_TIMESTAMP + DEPOSIT_WINDOW
WithdrawalEnd == DepositEnd + WITHDRAWAL_WINDOW
LockEnd       == WithdrawalEnd + LP_TOKENS_LOCK_WINDOW

\* Faults: the end of a window forgotten, or one window too early or too late.
is_deposit_open_NoEnd         == INIT_TIMESTAMP <= now
are_windows_closed_TooEarly   == now >= DepositEnd
allowed_withdrawal_percent_TooLate ==
    WithdrawalPercent(now, DepositEnd + 1, WITHDRAWAL_WINDOW)

is_deposit_open        == INIT_TIMESTAMP <= now /\ now < DepositEnd
are_windows_closed     == now >= WithdrawalEnd
is_lock_window_closed  == now >= LockEnd
allowed_withdrawal_percent ==
    WithdrawalPercent(now, DepositEnd, WITHDRAWAL_WINDOW)

get_denoms == config.denoms = PoolType

\* instantiate, run at a block time not after INIT_TIMESTAMP.
AuctionInit ==
    /\ now \in 0..INIT_TIMESTAMP
    /\ config = [owner |-> OWNER, lockdrop |-> FALSE, pool_info |-> FALSE,
                 denoms |-> {}, pack_size |-> PACK_SIZE]
    /\ total_deposited = [p \in PoolType |-> 0]
    /\ ntrn_size = [p \in PoolType |-> 0]
    /\ lp_size = [p \in PoolType |-> 0]
    /\ lp_locked = [p \in PoolType |-> 0]
    /\ lp_minted = [p \in PoolType |-> NONE]
    /\ pool_init_timestamp = 0
    /\ known = {}
    /\ deposited = [u \in Users |-> [p \in PoolType |-> 0]]
    /\ user_lp_locked = [u \in Users |-> [p \in PoolType |-> 0]]
    /\ withdrawn = [u \in Users |-> FALSE]
    /\ is_vested = [u \in Users |-> FALSE]
    /\ wallet = [u \in Users |-> [p \in PoolType |-> WALLET]]
    /\ bank = [p \in PoolType |-> 0]
    /\ ntrn = 0
    /\ lp_balance = [p \in PoolType |-> 0]
    /\ reserve_lp = [p \in PoolType |-> 0]
    /\ lockdrop_lp = [p \in PoolType |-> 0]
    /\ vesting_lp = [u \in Users |-> [p \in PoolType |-> 0]]
-----------------------------------------------------------------------------
Tick ==
    /\ NextBlock
    /\ UNCHANGED <<config, stateVars, userVars, coinVars, lpVars>>

\* Anybody, in practice the DAO, sends NTRN to the auction.
FundNtrn(amount) ==
    /\ ntrn + amount <= MAX_NTRN
    /\ ntrn' = ntrn + amount
    /\ UNCHANGED <<now, config, stateVars, userVars, wallet, bank, lpVars>>

execute_update_config(sender, m) ==
    /\ sender = config.owner
    /\ config' = [config EXCEPT
           !.owner     = IF m.owner = NONE THEN @ ELSE m.owner,
           !.lockdrop  = @ \/ m.lockdrop,
           !.pool_info = @ \/ m.pool_info,
           !.pack_size = IF m.pack_size = NONE THEN @ ELSE m.pack_size]
    /\ UNCHANGED <<now, stateVars, userVars, coinVars, lpVars>>

execute_set_token_info(sender, m) ==
    /\ sender \in {MANAGER, config.owner}
    /\ config' = [config EXCEPT !.denoms    = @ \cup m.denoms,
                                !.pool_info = @ \/ m.pool_info]
    /\ UNCHANGED <<now, stateVars, userVars, coinVars, lpVars>>

\* funds: the ATOM and USDC coins attached to the message.
execute_deposit(u, funds) ==
    /\ get_denoms
    /\ is_deposit_open
    /\ \E p \in PoolType : funds[p] # 0
    /\ \A p \in PoolType : funds[p] <= wallet[u][p]
    /\ total_deposited' = [p \in PoolType |-> total_deposited[p] + funds[p]]
    /\ known' = known \cup {u}
    /\ deposited' = [deposited EXCEPT
           ![u] = [p \in PoolType |-> deposited[u][p] + funds[p]]]
    /\ wallet' = [wallet EXCEPT
           ![u] = [p \in PoolType |-> wallet[u][p] - funds[p]]]
    /\ bank' = [p \in PoolType |-> bank[p] + funds[p]]
    /\ UNCHANGED <<now, config, ntrn_size, lp_size, lp_locked, lp_minted,
                   pool_init_timestamp, user_lp_locked, withdrawn, is_vested,
                   ntrn, lpVars>>

\* The bounds on total_deposited and bank are the checked subtraction of the
\* state and the bank module's refusal to overdraw.
execute_withdraw(u, amount) ==
    /\ get_denoms
    /\ u \in known
    /\ ~withdrawn[u]
    /\ \A p \in PoolType :
           amount[p] <= MulFloor(deposited[u][p], allowed_withdrawal_percent)
    /\ \E p \in PoolType : amount[p] # 0
    /\ \A p \in PoolType : /\ amount[p] <= total_deposited[p]
                           /\ amount[p] <= deposited[u][p]
                           /\ amount[p] <= bank[p]
    /\ withdrawn' = [withdrawn EXCEPT ![u] = now >= DepositEnd]
    /\ total_deposited' = [p \in PoolType |-> total_deposited[p] - amount[p]]
    /\ deposited' = [deposited EXCEPT
           ![u] = [p \in PoolType |-> deposited[u][p] - amount[p]]]
    /\ wallet' = [wallet EXCEPT
           ![u] = [p \in PoolType |-> wallet[u][p] + amount[p]]]
    /\ bank' = [p \in PoolType |-> bank[p] - amount[p]]
    /\ UNCHANGED <<now, config, ntrn_size, lp_size, lp_locked, lp_minted,
                   pool_init_timestamp, known, user_lp_locked, is_vested,
                   ntrn, lpVars>>
-----------------------------------------------------------------------------
\* U256::integer_sqrt, as the set with the root as its only element.
integer_sqrt(n) == {r \in 0..n : r * r <= n /\ n < (r + 1) * (r + 1)}

\* Fault: the subtraction of the minimum liquidity wraps.
get_lp_size_NoMinimum(token1, token2) ==
    {r - MINIMUM_LIQUIDITY_AMOUNT : r \in integer_sqrt(token1 * token2)}

\* get_lp_size: empty when the root does not reach MINIMUM_LIQUIDITY_AMOUNT.
get_lp_size(token1, token2) ==
    {r - MINIMUM_LIQUIDITY_AMOUNT :
        r \in {q \in integer_sqrt(token1 * token2) :
                   q >= MINIMUM_LIQUIDITY_AMOUNT}}

\* The share of the auction's NTRN that goes with the USDC deposits.
UsdcNtrnSize(reply) ==
    LET usdc_to_atom_rate == FromRatio(reply[2].rate, reply[1].rate)
        all_in_usdc == total_deposited["USDC"]
                         + DivFloor(total_deposited["ATOM"], usdc_to_atom_rate)
    IN  MulFloor(ntrn, FromRatio(total_deposited["USDC"], all_in_usdc))

\* The divisions of UsdcNtrnSize that would panic.
UsableRates(reply) ==
    /\ reply[1].rate # 0
    /\ FromRatio(reply[2].rate, reply[1].rate) # 0
    /\ total_deposited["USDC"]
         + DivFloor(total_deposited["ATOM"],
                    FromRatio(reply[2].rate, reply[1].rate)) # 0

execute_set_pool_size(reply) ==
    /\ \A p \in PoolType : lp_minted[p] = NONE
    /\ are_windows_closed
    /\ \A p \in PoolType : ntrn_size[p] = 0
    /\ DOMAIN reply = 1..2
    /\ MAX_EXCHANGE_RATE_AGE <= now
    /\ reply[1].age <= MAX_EXCHANGE_RATE_AGE
    /\ ntrn >= MIN_NTRN_AMOUNT
    /\ UsableRates(reply)
    /\ UsdcNtrnSize(reply) <= ntrn
    /\ LET usdc == UsdcNtrnSize(reply)
       IN  /\ ntrn_size' = [p \in PoolType |->
                                IF p = "USDC" THEN usdc ELSE ntrn - usdc]
           /\ \E atom_lp \in get_lp_size(ntrn - usdc, total_deposited["ATOM"]),
                 usdc_lp \in get_lp_size(usdc, total_deposited["USDC"]) :
                  lp_size' = [p \in PoolType |->
                                IF p = "USDC" THEN usdc_lp ELSE atom_lp]
    /\ UNCHANGED <<now, config, total_deposited, lp_locked, lp_minted,
                   pool_init_timestamp, userVars, coinVars, lpVars>>

\* Fault: the half of a user is rounded up.
get_user_lp_info_RoundUp(u, p) ==
    IF total_deposited[p] = 0 THEN 0
    ELSE (MulFloor(lp_size[p], FromRatio(deposited[u][p], total_deposited[p])) + 1)
             \div 2

\* Half of the LP tokens that the deposits of u stand for; the other half
\* goes to the reserve.
get_user_lp_info(u, p) ==
    IF total_deposited[p] = 0 THEN 0
    ELSE MulFloor(lp_size[p], FromRatio(deposited[u][p], total_deposited[p]))
             \div 2

\* Checks that LockLp and WithdrawLp share.
LockWindowOpen(u) ==
    /\ u \in known
    /\ \A p \in PoolType : ntrn_size[p] # 0
    /\ ~is_lock_window_closed
    /\ config.lockdrop

execute_lock_lp_tokens(u, p, amount) ==
    /\ LockWindowOpen(u)
    /\ deposited[u][p] # 0
    /\ user_lp_locked[u][p] <= get_user_lp_info(u, p)
    /\ amount <= get_user_lp_info(u, p) - user_lp_locked[u][p]
    /\ user_lp_locked' = [user_lp_locked EXCEPT ![u][p] = @ + amount]
    /\ lp_locked' = [lp_locked EXCEPT ![p] = @ + amount]
    /\ UNCHANGED <<now, config, total_deposited, ntrn_size, lp_size, lp_minted,
                   pool_init_timestamp, known, deposited, withdrawn, is_vested,
                   coinVars, lpVars>>

\* Fault: the pool's total is not reduced.
execute_withdraw_lp_tokens_NoTotal(u, p, amount) ==
    /\ LockWindowOpen(u)
    /\ amount <= user_lp_locked[u][p]
    /\ user_lp_locked' = [user_lp_locked EXCEPT ![u][p] = @ - amount]
    /\ UNCHANGED <<now, config, stateVars, known, deposited, withdrawn,
                   is_vested, coinVars, lpVars>>

execute_withdraw_lp_tokens(u, p, amount) ==
    /\ LockWindowOpen(u)
    /\ amount <= user_lp_locked[u][p]
    /\ amount <= lp_locked[p]
    /\ user_lp_locked' = [user_lp_locked EXCEPT ![u][p] = @ - amount]
    /\ lp_locked' = [lp_locked EXCEPT ![p] = @ - amount]
    /\ UNCHANGED <<now, config, total_deposited, ntrn_size, lp_size, lp_minted,
                   pool_init_timestamp, known, deposited, withdrawn, is_vested,
                   coinVars, lpVars>>
-----------------------------------------------------------------------------
(***************************************************************************)
(* The Astroport pair and the LP token, external. A fresh pair mints        *)
(* integer_sqrt(ntrn * amount) - MINIMUM_LIQUIDITY_AMOUNT shares, what      *)
(* get_lp_size predicted, and refuses to mint none; the LP token refuses to *)
(* transfer a zero amount.                                                  *)
(***************************************************************************)
PairAccepts(p) == lp_size[p] \div 2 > 0

\* execute_init_pool, the two ProvideLiquidity messages and the callback
\* execute_finalize_init_pool: one transaction.
execute_init_pool ==
    /\ get_denoms
    /\ \A p \in PoolType : lp_minted[p] = NONE
    /\ \E p \in PoolType : lp_size[p] # 0
    /\ is_lock_window_closed
    /\ config.pool_info
    /\ \A p \in PoolType : total_deposited[p] <= bank[p] /\ PairAccepts(p)
    /\ ntrn_size["ATOM"] + ntrn_size["USDC"] <= ntrn
    /\ config.lockdrop
    /\ bank' = [p \in PoolType |-> bank[p] - total_deposited[p]]
    /\ ntrn' = ntrn - (ntrn_size["ATOM"] + ntrn_size["USDC"])
    /\ lp_minted' = lp_size
    /\ pool_init_timestamp' = now
    /\ reserve_lp' = [p \in PoolType |-> reserve_lp[p] + lp_size[p] \div 2]
    /\ lockdrop_lp' = [p \in PoolType |-> lockdrop_lp[p] + lp_locked[p]]
    /\ \A p \in PoolType :
           lp_size[p] \div 2 + lp_locked[p] <= lp_balance[p] + lp_size[p]
    /\ lp_balance' = [p \in PoolType |->
           lp_balance[p] + lp_size[p] - (lp_size[p] \div 2 + lp_locked[p])]
    /\ UNCHANGED <<now, config, total_deposited, ntrn_size, lp_size, lp_locked,
                   userVars, wallet, vesting_lp>>

\* Fault: the is_vested index is ignored.
Unvested_All == known

Unvested == {u \in known : ~is_vested[u]}

\* Fault: a last, smaller pack is refused.
IsPack_Full(pack) ==
    /\ Cardinality(pack) = config.pack_size
    /\ \A u \in pack, v \in Unvested \ pack : u < v

\* users_store.idx.vested.prefix(0) in ascending order, the first pack_size.
IsPack(pack) ==
    /\ Cardinality(pack) = IF config.pack_size <= Cardinality(Unvested)
                           THEN config.pack_size ELSE Cardinality(Unvested)
    /\ \A u \in pack, v \in Unvested \ pack : u < v

\* What a migrated user gets in vesting.
VestAmount(u, p) == get_user_lp_info(u, p) - user_lp_locked[u][p]

execute_migrate_to_vesting ==
    /\ config.pool_info
    /\ pool_init_timestamp # 0
    /\ \E pack \in SUBSET Unvested :
         /\ IsPack(pack)
         /\ pack # {}
         /\ \A u \in pack, p \in PoolType :
                user_lp_locked[u][p] <= get_user_lp_info(u, p)
         /\ \E atom \in 0..lp_balance["ATOM"], usdc \in 0..lp_balance["USDC"] :
              /\ atom = SumOver([u \in pack |-> VestAmount(u, "ATOM")], pack)
              /\ usdc = SumOver([u \in pack |-> VestAmount(u, "USDC")], pack)
              /\ lp_balance' = [p \in PoolType |->
                    lp_balance[p] - (IF p = "USDC" THEN usdc ELSE atom)]
         /\ vesting_lp' = [u \in Users |->
               IF u \in pack
               THEN [p \in PoolType |-> vesting_lp[u][p] + VestAmount(u, p)]
               ELSE vesting_lp[u]]
         /\ is_vested' = [u \in Users |-> u \in pack \/ is_vested[u]]
    /\ UNCHANGED <<now, config, stateVars, known, deposited, user_lp_locked,
                   withdrawn, coinVars, reserve_lp, lockdrop_lp>>
-----------------------------------------------------------------------------
AssetAmounts == [PoolType -> Amounts]

\* The steps that involve no other contract of this repository.
AuctionStep ==
    \/ \E amount \in NtrnFunds : FundNtrn(amount)
    \/ \E s \in Senders, m \in UpdateConfigMsgs : execute_update_config(s, m)
    \/ \E s \in Senders, m \in TokenInfoMsgs : execute_set_token_info(s, m)
    \/ \E u \in Users, funds \in AssetAmounts : execute_deposit(u, funds)
    \/ \E u \in Users, amount \in AssetAmounts : execute_withdraw(u, amount)
    \/ \E reply \in FeedReplies : execute_set_pool_size(reply)
    \/ execute_migrate_to_vesting

\* The contract alone: the lockdrop may accept whatever it is sent.
AuctionNext ==
    \/ Tick
    \/ AuctionStep
    \/ \E u \in Users, p \in PoolType, amount \in LpAmounts :
           execute_lock_lp_tokens(u, p, amount)
    \/ \E u \in Users, p \in PoolType, amount \in LpAmounts :
           execute_withdraw_lp_tokens(u, p, amount)
    \/ execute_init_pool

AuctionSpec == AuctionInit /\ [][AuctionNext]_auctionVars
-----------------------------------------------------------------------------
\* The contract's fields have their types; no balance is negative.
AuctionTypeOK ==
    /\ now \in Nat
    /\ config \in [owner : Senders, lockdrop : BOOLEAN, pool_info : BOOLEAN,
                   denoms : SUBSET PoolType, pack_size : Nat]
    /\ total_deposited \in [PoolType -> Nat]
    /\ ntrn_size \in [PoolType -> Nat]
    /\ lp_size \in [PoolType -> Nat]
    /\ lp_locked \in [PoolType -> Nat]
    /\ lp_minted \in [PoolType -> Nat \cup {NONE}]
    /\ pool_init_timestamp \in Nat
    /\ known \subseteq Users
    /\ deposited \in [Users -> [PoolType -> Nat]]
    /\ user_lp_locked \in [Users -> [PoolType -> Nat]]
    /\ withdrawn \in [Users -> BOOLEAN]
    /\ is_vested \in [Users -> BOOLEAN]
    /\ wallet \in [Users -> [PoolType -> Nat]]
    /\ bank \in [PoolType -> Nat]
    /\ ntrn \in Nat
    /\ lp_balance \in [PoolType -> Nat]
    /\ reserve_lp \in [PoolType -> Nat]
    /\ lockdrop_lp \in [PoolType -> Nat]
    /\ vesting_lp \in [Users -> [PoolType -> Nat]]

\* Nobody has more LP tokens locked than the deposits entitle to. LockLp and
\* MigrateToVesting subtract the one from the other and panic otherwise: the
\* user, and every user behind it in the migration order, would be stuck.
LockedWithinEntitlement ==
    \A u \in Users, p \in PoolType :
        user_lp_locked[u][p] <= get_user_lp_info(u, p)

\* The phases of the launch cannot overlap: the pool sizes exist only after
\* the withdrawal window, both of them before anything is locked, the pools
\* are initialised only after the lock window and together with their shares,
\* and nobody is migrated before that. An LP size comes with an NTRN size.
PhaseOrder ==
    /\ \A p \in PoolType : lp_size[p] # 0 => ntrn_size[p] # 0
    /\ (\E p \in PoolType : ntrn_size[p] # 0) => now >= WithdrawalEnd
    /\ \A u \in Users, p, q \in PoolType :
           user_lp_locked[u][p] # 0 => ntrn_size[q] # 0
    /\ pool_init_timestamp # 0 =>
           now >= LockEnd /\ \A p \in PoolType : lp_minted[p] # NONE
    /\ \A u \in Users : is_vested[u] => pool_init_timestamp # 0

\* The totals of State are the sums over UserInfo, and the contract holds
\* every deposited coin until the pools are initialised, none afterwards.
DepositsBacked ==
    \A p \in PoolType :
        /\ total_deposited[p] = SumOver([u \in Users |-> deposited[u][p]], Users)
        /\ bank[p] = IF pool_init_timestamp = 0 THEN total_deposited[p] ELSE 0
        /\ lp_locked[p] = SumOver([u \in Users |-> user_lp_locked[u][p]], Users)

\* The LP tokens left after the reserve took its half and the lockdrop the
\* locked ones pay every user still to be migrated, whatever the rounding:
\* no pack of MigrateToVesting runs out of tokens.
LpSolvent ==
    \A p \in PoolType :
        LET owed == SumOver([u \in Users |-> VestAmount(u, p)], Unvested)
        IN  IF pool_init_timestamp = 0
            THEN owed + lp_locked[p] <= lp_size[p] - lp_size[p] \div 2
            ELSE owed <= lp_balance[p]

\* A migrated user has been given, in vesting and in the lockdrop together,
\* exactly the entitlement: nobody is migrated twice, and nothing is locked
\* or unlocked after the migration. Before it nothing is in vesting.
EntitlementDelivered ==
    \A u \in Users, p \in PoolType :
        vesting_lp[u][p] = IF is_vested[u] THEN VestAmount(u, p) ELSE 0

\* Once SetPoolSize has succeeded the sizes it computed, and the deposits
\* they were computed from, never change again: the shares a user locks,
\* vests or sends to the reserve are shares of one fixed pool.
PoolSizeFrozen ==
    [][(\E p \in PoolType : lp_size[p] # 0) =>
           UNCHANGED <<ntrn_size, lp_size, total_deposited, deposited>>]_auctionVars

\* The one withdrawal after the deposit window leaves at least half of what a
\* user had deposited when the window closed, whenever it is made.
HalfStays ==
    \A u \in Users : \A p \in PoolType : \A n \in 0..WALLET :
        []((now = DepositEnd /\ ~withdrawn[u] /\ deposited[u][p] = n)
               => [](deposited[u][p] + deposited[u][p] >= n))

(***************************************************************************)
(* Time passes, and InitPool and MigrateToVesting, which anybody may call,  *)
(* are called again and again while they succeed.                           *)
(***************************************************************************)
AuctionFairness ==
    /\ WF_auctionVars(Tick)
    /\ WF_auctionVars(execute_init_pool)
    /\ WF_auctionVars(execute_migrate_to_vesting)
    /\ \A s \in Senders, m \in UpdateConfigMsgs :
           WF_auctionVars(execute_update_config(s, m))

AuctionFairSpec == AuctionSpec /\ AuctionFairness

\* When the pool sizes are set and each pool is large enough to split, every
\* depositor ends up migrated: no window, rounding or order of locks blocks
\* InitPool or a pack of MigrateToVesting.
LaunchCompletes ==
    (\A p \in PoolType : PairAccepts(p)) ~> (known # {} /\ Unvested = {})
=============================================================================
