------------------------------- MODULE Launch -------------------------------
(***************************************************************************)
(* The auction and the lockdrop contract together, on one chain. A message  *)
(* that the auction sends to the lockdrop is part of the auction's          *)
(* transaction: either both handlers succeed, in one step, or neither       *)
(* leaves a trace. This holds for                                           *)
(*    LockLp      -> IncreaseLockupFor,                                     *)
(*    WithdrawLp  -> WithdrawFromLockup,                                    *)
(*    InitPool    -> InitializePool, by a cw20 Send of the locked LP tokens *)
(*                   of each pool.                                          *)
(***************************************************************************)
EXTENDS Auction, Lockdrop

launchVars == <<auctionVars, lockdropVars>>

\* What a step of the one contract leaves to the other.
auctionOnly  == <<config, stateVars, userVars, coinVars, lpVars>>
lockdropOnly == <<lockdrop_config, poolVars, lockerVars, lockdropEnv>>

LaunchInit == AuctionInit /\ LockdropInit

LaunchTick == NextBlock /\ UNCHANGED <<auctionOnly, lockdropOnly>>

LockLp(u, p, amount, duration) ==
    /\ execute_lock_lp_tokens(u, p, amount)
    /\ handle_increase_lockup(AUCTION, u, p, duration, amount)

WithdrawLp(u, p, amount, duration) ==
    /\ execute_withdraw_lp_tokens(u, p, amount)
    /\ handle_withdraw_from_lockup(AUCTION, u, p, duration, amount)

InitPool ==
    /\ execute_init_pool
    /\ handle_initialize_pool(AUCTION, ntrn_size, lp_locked)

LaunchNext ==
    \/ LaunchTick
    \/ AuctionStep /\ UNCHANGED lockdropOnly
    \/ LockdropStep /\ UNCHANGED auctionOnly
    \/ \E u \in Users, p \in LockPools, a \in LpAmounts, d \in LockDurations :
           LockLp(u, p, a, d)
    \/ \E u \in Users, p \in LockPools, a \in LpAmounts, d \in LockDurations :
           WithdrawLp(u, p, a, d)
    \/ InitPool

LaunchSpec == LaunchInit /\ [][LaunchNext]_launchVars
-----------------------------------------------------------------------------
\* Every minted LP token is in one place: with the auction, the reserve, a
\* vesting account, a generator, or a user whose lockup was returned.
LpAccounted ==
    \A p \in PoolType :
        (IF lp_minted[p] = NONE THEN 0 ELSE lp_minted[p])
          = lp_balance[p] + reserve_lp[p] + lp_held[p]
            + SumOver([u \in Users |-> vesting_lp[u][p] + received_lp[u][p]], Users)
            + SumOver([g \in Generators |-> gen_deposit[g][p]], Generators)

\* The two contracts keep one ledger in two places: what the auction has
\* recorded as locked for a user is what the lockdrop still holds for that
\* user or has returned. Before the pools are initialised the pools' totals
\* agree as well, so that InitPool sends the lockdrop exactly the LP tokens
\* of its lockups, and none is lost on the way. A message that only one side
\* accepted would break this.
LocksHonoured ==
    /\ \A u \in Users, p \in PoolType :
           user_lp_locked[u][p] = total_user_lockup[p][u] + received_lp[u][p]
    /\ pool_init_timestamp = 0 =>
           \A p \in PoolType : lp_locked[p] = amount_in_lockups[p]
    /\ LpAccounted
=============================================================================
