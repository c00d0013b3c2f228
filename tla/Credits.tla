------------------------------ MODULE Credits ------------------------------
(***************************************************************************)
(* The credits contract: a cw20 token, cNTRN, backed by untrn that the      *)
(* contract holds. The DAO mints it to the airdrop contract, the airdrop    *)
(* contract hands it out with a vesting schedule, and a holder exchanges it *)
(* for untrn along that schedule (Withdraw) or ahead of it, as a reward for *)
(* taking part in the lockdrop (BurnFrom).                                  *)
(*                                                                         *)
(* The cw20-base library (version 0.13, which refuses to transfer, mint or  *)
(* burn nothing) and the bank are external. ALLOCATIONS is a function whose *)
(* domain is the set of stored addresses.                                   *)
(***************************************************************************)
EXTENDS TgeCommon

CONSTANTS
    CREDITS,                    \* this contract
    DAO,                        \* dao_address, the minter
    AirdropAddrs, LockdropAddrs,\* addresses the config may name
    Reserves,                   \* addresses that may hold untrn besides these
    WithdrawableTimes,          \* times UpdateConfig may set
    MintAmounts, MAX_SUPPLY     \* untrn of one Mint; bound on their sum

ASSUME CreditsAssumption ==
    /\ NONE \notin AirdropAddrs \cup LockdropAddrs
    /\ WithdrawableTimes \subseteq Nat
    /\ MintAmounts \subseteq Nat /\ MAX_SUPPLY \in Nat
    /\ Users \cap (AirdropAddrs \cup LockdropAddrs \cup Reserves) = {}
    /\ CREDITS \notin Users \cup AirdropAddrs \cup Reserves
    /\ IsFiniteSet(AirdropAddrs) /\ IsFiniteSet(Reserves)

VARIABLES
    credits_config,   \* airdrop, lockdrop and when_withdrawable of Config
    balances,         \* cw20 BALANCES
    total_supply,     \* cw20 TOKEN_INFO.total_supply
    minted,           \* untrn the DAO has exchanged so far
    allocations,      \* ALLOCATIONS
    rewards_burned,   \* untrn sent to a user by BurnFrom
    untrn             \* bank balances

creditsVars == <<credits_config, balances, total_supply, minted, allocations,
                 rewards_burned, untrn>>

Holders  == Users \cup AirdropAddrs
Accounts == Holders \cup Reserves \cup {CREDITS}
Parties  == Senders \cup {DAO} \cup AirdropAddrs \cup LockdropAddrs \cup Reserves

VESTING_CLIFF == 0

CreditsInit ==
    /\ credits_config = [airdrop |-> NONE, lockdrop |-> NONE,
                         when_withdrawable |-> NONE]
    /\ balances = [h \in Holders |-> 0]
    /\ total_supply = 0
    /\ minted = 0
    /\ allocations = [u \in {} |-> NONE]
    /\ rewards_burned = [u \in Users |-> 0]
    /\ untrn = [a \in Accounts |-> 0]
-----------------------------------------------------------------------------
\* The part of an allocation that has vested at time t.
Vested(allocation, t) ==
    LET s == allocation.schedule
    IN  IF t < s.start_time + s.cliff THEN 0
        ELSE IF t < s.start_time + s.duration
             THEN (allocation.allocated_amount * (t - s.start_time)) \div s.duration
        ELSE allocation.allocated_amount

\* Fault: what has been withdrawn is not subtracted.
compute_withdrawable_amount_Again(allocation, t) == Vested(allocation, t)

\* An error (of checked_sub) if negative.
compute_withdrawable_amount(allocation, t) ==
    Vested(allocation, t) - allocation.withdrawn_amount

SmallerOf(a, b) == IF a < b THEN a ELSE b

\* The queries that the lockdrop sends. They fail without an allocation.
query_withdrawable_amount(u) ==
    SmallerOf(compute_withdrawable_amount(allocations[u], now), balances[u])

\* Fault: the vested amount is taken from the allocation, not the balance.
query_vested_amount_OfAllocation(u) ==
    allocations[u].allocated_amount - allocations[u].withdrawn_amount
        - query_withdrawable_amount(u)

query_vested_amount(u) == balances[u] - query_withdrawable_amount(u)

\* Fault: sends the untrn and keeps the tokens.
burn_and_send_NotBurnt(holder, to, amount) ==
    /\ amount # 0
    /\ amount <= balances[holder]
    /\ amount <= untrn[CREDITS]
    /\ untrn' = [[untrn EXCEPT ![CREDITS] = @ - amount] EXCEPT ![to] = @ + amount]
    /\ UNCHANGED <<balances, total_supply>>

\* Burns the tokens of holder and sends as much untrn, which ends up with to.
burn_and_send(holder, to, amount) ==
    /\ amount # 0
    /\ amount <= balances[holder]
    /\ amount <= untrn[CREDITS]
    /\ balances' = [balances EXCEPT ![holder] = @ - amount]
    /\ total_supply' = total_supply - amount
    /\ untrn' = [[untrn EXCEPT ![CREDITS] = @ - amount] EXCEPT ![to] = @ + amount]

execute_update_config(sender, airdrop, lockdrop, when) ==
    /\ sender = DAO
    /\ credits_config' =
           [airdrop  |-> IF airdrop = NONE THEN credits_config.airdrop ELSE airdrop,
            lockdrop |-> IF lockdrop = NONE THEN credits_config.lockdrop ELSE lockdrop,
            when_withdrawable |-> IF when = NONE
                THEN credits_config.when_withdrawable ELSE when]
    /\ UNCHANGED <<now, balances, total_supply, minted, allocations,
                   rewards_burned, untrn>>

\* The minter is the DAO; the tokens go to the airdrop contract.
execute_mint(sender, amount) ==
    LET airdrop == credits_config.airdrop
    IN  /\ amount # 0
        /\ airdrop # NONE
        /\ sender = DAO
        /\ balances' = [balances EXCEPT ![airdrop] = @ + amount]
        /\ total_supply' = total_supply + amount
        /\ minted' = minted + amount
        /\ untrn' = [untrn EXCEPT ![CREDITS] = @ + amount]
        /\ UNCHANGED <<now, credits_config, allocations, rewards_burned>>

(***************************************************************************)
(* execute_transfer followed by execute_add_vesting, the two messages the   *)
(* airdrop contract sends in one transaction. The vesting check reads the   *)
(* balance that the transfer leaves. A second allocation is AlreadyVested.  *)
(***************************************************************************)
TransferAndVest(sender, u, amount, start_time, duration) ==
    /\ credits_config.airdrop = sender
    /\ amount # 0
    /\ amount <= balances[sender]
    /\ u \notin DOMAIN allocations
    /\ balances' = [balances EXCEPT ![sender] = @ - amount, ![u] = @ + amount]
    /\ balances'[u] >= amount
    /\ allocations' = [v \in DOMAIN allocations \cup {u} |->
           IF v = u
           THEN [allocated_amount |-> amount, withdrawn_amount |-> 0,
                 schedule |-> [start_time |-> start_time, cliff |-> VESTING_CLIFF,
                               duration |-> duration]]
           ELSE allocations[v]]
    /\ UNCHANGED <<now, credits_config, total_supply, minted, rewards_burned, untrn>>

\* Fault: the withdrawal is not limited to the balance.
execute_withdraw_NoCap(u) ==
    LET to_withdraw == compute_withdrawable_amount(allocations[u], now)
    IN  /\ credits_config.when_withdrawable # NONE
        /\ credits_config.when_withdrawable <= now
        /\ u \in DOMAIN allocations
        /\ to_withdraw > 0
        /\ allocations' = [allocations EXCEPT ![u].withdrawn_amount = @ + to_withdraw]
        /\ burn_and_send(u, u, to_withdraw)
        /\ UNCHANGED <<now, credits_config, minted, rewards_burned>>

execute_withdraw(u) ==
    LET max_withdrawable == compute_withdrawable_amount(allocations[u], now)
        to_withdraw      == SmallerOf(max_withdrawable, balances[u])
    IN  /\ credits_config.when_withdrawable # NONE
        /\ credits_config.when_withdrawable <= now
        /\ u \in DOMAIN allocations
        /\ max_withdrawable > 0
        /\ to_withdraw # 0
        /\ allocations' = [allocations EXCEPT ![u].withdrawn_amount = @ + to_withdraw]
        /\ burn_and_send(u, u, to_withdraw)
        /\ UNCHANGED <<now, credits_config, minted, rewards_burned>>

\* Only for the airdrop contract, whose untrn goes on to to.
execute_burn(sender, to, amount) ==
    /\ credits_config.airdrop = sender
    /\ burn_and_send(sender, to, amount)
    /\ UNCHANGED <<now, credits_config, minted, allocations, rewards_burned>>

\* Fault: the burnt reward is counted as a withdrawal as well.
execute_burn_from_Counted(sender, owner, amount) ==
    /\ credits_config.lockdrop = sender
    /\ burn_and_send(owner, owner, amount)
    /\ allocations' = [allocations EXCEPT ![owner].withdrawn_amount = @ + amount]
    /\ rewards_burned' = [rewards_burned EXCEPT ![owner] = @ + amount]
    /\ UNCHANGED <<now, credits_config, minted>>

\* Only for the lockdrop contract. Skips vesting and leaves the allocation.
execute_burn_from(sender, owner, amount) ==
    /\ credits_config.lockdrop = sender
    /\ burn_and_send(owner, owner, amount)
    /\ rewards_burned' = [rewards_burned EXCEPT ![owner] = @ + amount]
    /\ UNCHANGED <<now, credits_config, minted, allocations>>
-----------------------------------------------------------------------------
\* Messages that come from people and the DAO, not from another contract.
CreditsStep ==
    \/ \E s \in Parties, a \in AirdropAddrs \cup {NONE},
          l \in LockdropAddrs \cup {NONE}, t \in WithdrawableTimes \cup {NONE} :
           execute_update_config(s, a, l, t)
    \/ \E s \in Parties, amount \in MintAmounts :
           minted + amount <= MAX_SUPPLY /\ execute_mint(s, amount)
    \/ \E u \in Users : execute_withdraw(u)
=============================================================================
