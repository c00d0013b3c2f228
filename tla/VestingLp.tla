----------------------------- MODULE VestingLp -----------------------------
(***************************************************************************)
(* The migration of vesting-lp: after the contract is migrated, anybody may *)
(* have the liquidity of one account moved from the XYK pair to the PCL     *)
(* pair, and the account to vesting-lp-pcl. The messages and callbacks run  *)
(* in one transaction: the contract withdraws the account's share, provides *)
(* what that brought, and sends what that minted with the new schedule.     *)
(*                                                                         *)
(* The pairs are external: a price at which LP tokens are withdrawn, and    *)
(* any number of minted LP tokens. A call a pair refuses (slippage) is a    *)
(* transaction that fails. The LP token of the PCL pair is the vesting      *)
(* token of "pcl", the one of the XYK pair that of "lp".                    *)
(***************************************************************************)
EXTENDS VestingBase

CONSTANTS
    SharePrices,   \* [ntrn, paired, lp]: what lp LP tokens of the XYK pair bring
    MintedLp,      \* LP tokens a deposit in the PCL pair may mint
    DirectInfos,   \* accounts that a message of any sender may store in "pcl"
    DONATION       \* tokens of each kind somebody may send to the contract

ASSUME PairAssumption ==
    /\ \A price \in SharePrices :
           price.ntrn \in Nat /\ price.paired \in Nat /\ price.lp \in Nat \ {0}
    /\ MintedLp \subseteq Nat /\ DONATION \in Nat
    /\ DirectInfos \subseteq [schedules : Seq(Schedules), released_amount : Nat]

VARIABLES
    lp_migrated,   \* XYK_TO_CL_MIGRATION_CONFIG is stored
    lp_holds       \* vesting-lp's balances of NTRN, the paired asset, PCL LP

lpMigrationVars == <<vestingVars, lp_migrated, lp_holds>>

VestingLpInit ==
    /\ VestingInit
    /\ lp_migrated = FALSE
    /\ lp_holds = [ntrn |-> 0, paired |-> 0, pcl_lp |-> 0]

NoAccount == [schedules |-> <<>>, released_amount |-> 0]

\* compute_share: schedules without an end point are not counted; the
\* subtraction is checked.
EndAmount(sch) == IF sch.end_point # NONE THEN sch.end_point.amount ELSE 0
compute_share(info) == SumOverSeq(EndAmount, info.schedules) - info.released_amount

\* The pair's answer to Share, and what it pays for as many LP tokens.
ShareAssets(share, price) ==
    [ntrn   |-> (share * price.ntrn) \div price.lp,
     paired |-> (share * price.paired) \div price.lp]

migrate ==
    /\ "lp" \in deployed /\ ~lp_migrated
    /\ lp_migrated' = TRUE
    /\ UNCHANGED <<vestingVars, lp_holds>>

\* Tokens sent to the contract, not for a registration. Ghost of the world.
Donate ==
    /\ "lp" \in deployed /\ lp_holds.ntrn = 0
    /\ lp_holds' = [ntrn |-> DONATION, paired |-> DONATION, pcl_lp |-> DONATION]
    /\ UNCHANGED <<vestingVars, lp_migrated>>

\* Nothing to migrate, or dust: the share goes to the account's owner as it
\* is and the account is emptied. The totals are left as they were.
SendDust(user, share) ==
    /\ vesting_info' = [vesting_info EXCEPT !.lp[user] = NoAccount]
    /\ token_balance' = [token_balance EXCEPT !.lp = @ - share]
    /\ UNCHANGED <<vesting_state, lp_holds>>

\* Fault: all the contract has is taken for what the call brought.
Brought_All(before, after) == after

\* Fault: the difference is taken the wrong way round.
Brought_Swapped(before, after) == before - after

\* The balances before a call and after it tell what it brought.
Brought(before, after) == after - before

\* The schedule of a migrated account: the times of the account's oldest
\* schedule, everything vesting between them.
MigratedSchedule(schedules, lp_amount) ==
    LET schedule == schedules[Len(schedules)]
    IN  [start_point |-> [schedule.start_point EXCEPT !.amount = 0],
         end_point   |-> IF schedule.end_point = NONE THEN NONE
                         ELSE [schedule.end_point EXCEPT !.amount = lp_amount]]

\* Fault: what the account was paid before counts against the new schedule.
MigratedInfo_KeepReleased(info, lp_amount) ==
    [info EXCEPT !.schedules = <<MigratedSchedule(@, lp_amount)>>]

MigratedInfo(info, lp_amount) ==
    [schedules |-> <<MigratedSchedule(info.schedules, lp_amount)>>, released_amount |-> 0]

\* handle_migrate_xyk_liquidity of vesting-lp-pcl: the account there, if any, is
\* overwritten, and its schedules are not validated.
handle_migrate_xyk_liquidity(infos, state, user, info) ==
    LET old == IF state = NONE
               THEN [total_granted |-> 0, total_released |-> 0] ELSE state
    IN  [infos |-> [u \in DOMAIN infos \cup {user} |->
                       IF u = user THEN info ELSE infos[u]],
         state |-> [old EXCEPT !.total_granted = @ + TotalGranted(info.schedules)]]

(***************************************************************************)
(* receive_cw20 of vesting-lp-pcl, sent by anybody. The branch of           *)
(* MigrateXYKLiquidity looks at the sender the message names and not, as    *)
(* that of RegisterVestingAccounts does, at the token the message is from:  *)
(* an account of any content is stored, and no tokens come.                 *)
(***************************************************************************)
receive_cw20(user, info) ==
    LET stored == handle_migrate_xyk_liquidity(vesting_info.pcl, vesting_state.pcl, user, info)
    IN  /\ "pcl" \in deployed
        /\ vesting_info' = [vesting_info EXCEPT !.pcl = stored.infos]
        /\ vesting_state' = [vesting_state EXCEPT !.pcl = stored.state]
        /\ unfunded' = [unfunded EXCEPT !.pcl = @ \cup {user}]
        /\ registrations' = registrations + 1
        /\ UNCHANGED <<now, vestingAdmin, token_balance, unfunded_claims,
                       lp_migrated, lp_holds>>

(***************************************************************************)
(* The three callbacks: withdraw the share, provide what it brought, hand   *)
(* the account over with what that minted. Nothing is sent when nothing was *)
(* minted.                                                                  *)
(***************************************************************************)
MigrateShare(user, share, assets, minted) ==
    LET provided  == [ntrn   |-> Brought(lp_holds.ntrn, lp_holds.ntrn + assets.ntrn),
                      paired |-> Brought(lp_holds.paired, lp_holds.paired + assets.paired)]
        lp_amount == Brought(lp_holds.pcl_lp, lp_holds.pcl_lp + minted)
        moved     == handle_migrate_xyk_liquidity(vesting_info.pcl, vesting_state.pcl, user,
                         MigratedInfo(vesting_info.lp[user], lp_amount))
        handed    == lp_amount > 0
    IN  /\ share <= vesting_state.lp.total_granted
        /\ vesting_info' = [vesting_info EXCEPT
               !.lp[user] = NoAccount, !.pcl = IF handed THEN moved.infos ELSE @]
        /\ vesting_state' = [vesting_state EXCEPT
               !.lp.total_granted = @ - share, !.pcl = IF handed THEN moved.state ELSE @]
        /\ token_balance' = [token_balance EXCEPT
               !.lp = @ - share, !.pcl = @ + lp_amount]
        /\ lp_holds' = [ntrn   |-> lp_holds.ntrn + assets.ntrn - provided.ntrn,
                        paired |-> lp_holds.paired + assets.paired - provided.paired,
                        pcl_lp |-> lp_holds.pcl_lp + minted - lp_amount]

\* MigrateLiquidityToPCLPool, for any account and from any sender.
MigrateLiquidityToPCLPool(user, price, minted) ==
    /\ lp_migrated
    /\ user \in DOMAIN vesting_info.lp
    /\ LET share  == compute_share(vesting_info.lp[user])
           assets == ShareAssets(share, price)
       IN  /\ share >= 0 /\ share <= token_balance.lp
           /\ IF assets.ntrn = 0 \/ assets.paired = 0
              THEN SendDust(user, share)
              ELSE MigrateShare(user, share, assets, minted)
    /\ UNCHANGED <<now, vestingAdmin, registrations, vestingHistory, lp_migrated>>

VestingLpStep ==
    \/ (VestingTick \/ VestingStep) /\ UNCHANGED <<lp_migrated, lp_holds>>
    \/ migrate
    \/ Donate
    \/ \E u \in Users, price \in SharePrices, m \in MintedLp :
           MigrateLiquidityToPCLPool(u, price, m)
    \/ /\ registrations < MAX_REGISTRATIONS
       /\ \E u \in Users, info \in DirectInfos : receive_cw20(u, info)

\* Blocks go on, and an account claims what is vested as long as there is any.
VestingLpFairness ==
    /\ WF_lpMigrationVars(VestingTick /\ UNCHANGED <<lp_migrated, lp_holds>>)
    /\ \A c \in Vestings, u \in Users :
           WF_lpMigrationVars(claim(c, u, NONE) /\ UNCHANGED <<lp_migrated, lp_holds>>)

VestingLpSpec ==
    VestingLpInit /\ [][VestingLpStep]_lpMigrationVars /\ VestingLpFairness
-----------------------------------------------------------------------------
\* What is sent to vesting-lp outside a migration stays where it is: every
\* balance a migration moves is one that its own calls brought, and it moves
\* all of it (the differences that the two callbacks compute).
OthersTokensUntouched ==
    [][lp_holds' # lp_holds =>
           lp_holds' = [ntrn |-> DONATION, paired |-> DONATION, pcl_lp |-> DONATION]
           /\ UNCHANGED vestingVars]_lpMigrationVars

\* Every grant whose tokens came is paid out, by whichever contract it ended in,
\* once the last schedule has ended and its owner goes on claiming; unless
\* accounts that no tokens came for have claimed of the same balance.
GrantsPaidOut ==
    <>[](\A c \in Vestings : unfunded_claims[c] = 0 => UnclaimedOfAll(c) = 0)
=============================================================================
