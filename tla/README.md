# Verification of the Neutron token generation event contracts

TLA+ models of the CosmWasm contracts of the Neutron token generation event
(TGE), the TLC runs that check them on small instances, and theorems that TLAPS
proves for all values of the parameters.

## 1. The system

Every contract is a sequential state machine. A transaction is one message with
all submessages and callbacks it triggers; if any of them fails (an error, a
checked subtraction, a panic: the workspace is built with
`overflow-checks = true`) the chain reverts all of it. Concurrency is therefore
the interleaving of whole transactions of many users, of the block time, and of
what other contracts and chains do in between. What makes the system hard is

- the *order* of transactions against several time windows, kept by different
  contracts that nothing synchronises;
- *copies of one fact* in several records of one contract, and in two contracts;
- *rounding*: shares computed by two or three truncating Decimal operations,
  whose sums must never exceed what there is;
- *phases that must end*: funds are locked in until a chain of permissionless
  calls has succeeded.

### Inventory

| Component | State | Operations | Interacts with | Correct if |
|---|---|---|---|---|
| `contracts/auction` | Config, State (totals, sizes, locked, minted), UserInfo | Deposit, Withdraw, SetPoolSize, LockLp, WithdrawLp, InitPool (+ FinalizeInitPool), MigrateToVesting, UpdateConfig, SetTokenInfo | price-feed (query), Astroport pairs, reserve, lockdrop, vesting-lp | books match balances, phases in order, every user gets exactly the entitlement, LP tokens suffice |
| `contracts/lockdrop` | Config, PoolInfo, LOCKUP_INFO, UserInfo, TOTAL_USER_LOCKUP_AMOUNT | IncreaseLockupFor, WithdrawFromLockup, InitializePool, IncreaseNTRNIncentives, ClaimRewardsAndOptionallyUnlock (+ 2 callbacks), UpdateConfig, SetTokenInfo, ownership, migration to PCL (+ 4 callbacks) | auction (callers), generator, credits, lockdrop-pcl | ledgers agree, lockups are returned in full, rewards are covered and independent of the order of claims |
| `contracts/lockdrop-pcl` | Config, PoolInfo, LOCKUP_INFO, UserInfo, TOTAL_USER_LOCKUP_AMOUNT | MigrateXYKLiquidity (+ callback), ClaimRewardsAndOptionallyUnlock (+ 2 callbacks), UpdateConfig, ownership | lockdrop, pairs, incentives | lockups arrive once, earn what their stake earns and are returned in full |
| `contracts/credits` | cNTRN balances, allocations | Mint, AddVesting, Transfer, Withdraw, Burn, BurnFrom | airdrop, lockdrop | each cNTRN is backed by one NTRN; vesting is respected except through the lockdrop |
| `contracts/cw20-merkle-airdrop` | claims, total, pause | Claim, WithdrawAll, Pause, Resume, UpdateReserve | credits | each address claims once; nothing unclaimed is lost |
| `packages/vesting-base`, `vesting-investors`, `vesting-lti` | schedules, totals, managers | Register, Claim, SetVestingToken, RemoveVestingAccounts, managers, ownership | auction (registers accounts) | never pays beyond the schedule or the grant |
| `contracts/vesting-lp`, `vesting-lp-pcl` | vesting state, migration config | MigrateLiquidity (+ 3 callbacks), MigrateXYKLiquidity | pairs, each other | the vested position moves once and in full |
| `contracts/price-feed` | rates, last update, channel | Request, IBC packet receive, ack, timeout, UpdateConfig | BandChain over IBC, auction | rates belong to their symbols and are as fresh as they say |
| `contracts/astroport/oracle` | cumulative prices | Update | pair | the average is over one full period |
| `contracts/usdc-converter` | none between transactions | ConvertAndStake (+ callbacks) | pairs, vaults | nothing of the converted amount stays |
| `packages/astroport/src/common.rs` | ownership proposal | propose, drop, claim | its users | only the proposed owner takes over, in time |

Queries change nothing; those that handlers share code with appear as operators.

## 2. Modules

| Module | Models |
|---|---|
| `TgeCommon` | pool types, block time, Decimal arithmetic (external), the withdrawal schedule that auction and lockdrop each implement |
| `Auction` | `contracts/auction/src/contract.rs`, every execute message |
| `Lockdrop` | `contracts/lockdrop/src/contract.rs` up to the migration to PCL pools |
| `Launch` | the two together: each message the auction sends to the lockdrop is one step of both |
| `Credits` | `contracts/credits/src/contract.rs`, every execute message |
| `Airdrop` | `contracts/cw20-merkle-airdrop/src/contract.rs`, every execute message, with the credits contract it calls |
| `Distribution` | the lockdrop with the airdrop and the credits contract: the BurnFrom of a claim |
| `Ownership` | `packages/astroport/src/common.rs`: guards and values of the ownership proposal |
| `Handover` | abstract: an owner, at most one address that may take over, each permission used once |
| `VestingBase` | `packages/vesting-base`, as the four vesting contracts configure it |
| `VestingLp` | `contracts/vesting-lp` and `vesting-lp-pcl`: the migration of an account |
| `LockdropPcl` | `contracts/lockdrop-pcl/src/contract.rs` |
| `LockupCustody` | abstract: each lockup is in one contract, moves with its owner's others, is returned once and not early |
| `LockdropMigration` | the lockdrop with the PCL lockdrop: MigrateLiquidityToPCLPools and its callbacks |
| `PriceFeed` | `contracts/price-feed`: requests and answers over IBC |
| `Oracle` | `contracts/astroport/oracle/src/contract.rs`: updates and Consult |
| `MCAuction`, `MCLockdrop`, `MCLaunch`, `MCAirdrop`, `MCDistribution`, `MCVesting`, `MCMigration`, `MCFeeds` | instances for TLC |
| `TgeTheorems` | lemmas about the Decimals and sums of `TgeCommon`, on which the proofs rest |
| `AuctionProofs`, `LockdropProofs`, `LaunchProofs` | theorems about `Auction`, `Lockdrop`, `Launch` |
| `AirdropProofs` | theorems about `Airdrop` with `Credits`, and about `Distribution` |
| `MigrationProofs` | theorems about `LockdropMigration` with `LockdropPcl` |
| `VestingProofs`, `FeedProofs` | theorems about `VestingBase` with `VestingLp`; `PriceFeed` and `Oracle` |

Definitions keep the names of the Rust functions and fields. Fields that exist
once per asset (`usdc_lp_locked`, `atom_lp_locked`) are functions on `PoolType`.
Where two contracts have a handler of one name, that of the PCL lockdrop has the
prefix `pcl_`. Every error return and every possible panic of a handler is a
guard of its action. Names with a suffix such as `get_lp_size_NoMinimum` are
*faults*: mutated forms of the definition that follows, used to test that the
properties can fail; no specification uses them.

**Auction.** `stateVars` are State, `userVars` UserInfo, `known` the keys of the
user store; `wallet`, `bank`, `ntrn` and the `lpVars` are the balances that the
handlers move. InitPool, the two ProvideLiquidity messages and the callback
FinalizeInitPool are one transaction and one action. `execute_migrate_to_vesting`
takes the first `pack_size` users, by address, whose `is_vested` is false, as
the index of the user store does. `config` keeps the part that can change:
owner, whether lockdrop address and pool info are set, denoms, pack size. The
reply of the price feed is any member of `FeedReplies`.

**Lockdrop.** LOCKUP_INFO is a function whose domain is the set of stored keys.
A claim is one action: the query of pending rewards, ClaimRewards, the callback
that updates the rate per share, the callback that pays and unlocks
(`ReturnLp`, `PayOneTimeReward`). The rewards of the generator and the NTRN of
the incentives are two balances, also where the chain pays both in NTRN: what
suffices separately suffices together. `AuctionCalls` states what the contract
relies on from its auction; `Launch` shows that it is so. One thing is assumed
of the operators of the contract because the code does not check it:
SetTokenInfo is not called once there are lockups (it would reset the pools).
The BurnFrom that a first claim sends for a user with an airdrop is left to
`Distribution`; `Lockdrop` alone is about users without one.

**Credits and Airdrop.** `balances` and `total_supply` are the cw20 token,
`untrn` the bank balances of the accounts involved, `rewards_burned` what
BurnFrom has sent to a user. Transfer and AddVesting may only be sent by the
airdrop contract, which sends them together, so they are one operator
(`TransferAndVest`) of the action `execute_claim`. WithdrawAll burns the balance
and sends the untrn on in one step. The Merkle tree is the set of its leaves: a
proof exists for a leaf and for nothing else. The cw20-base version in use (0.13)
refuses amounts of zero; this matters for BurnFrom. Both contracts are
instantiated before the airdrop starts, and no second airdrop contract hands out
tokens of the same credits contract.

**Distribution.** The claim of the lockdrop and, when it pays the one time
reward of a user who holds cNTRN, the two queries and the BurnFrom message are
one step: if the credits contract refuses, so does the claim.

**Launch.** Time and the set of users are shared; the windows of the two
contracts are independent parameters.

**VestingBase.** The state is a function of the contract (`investors`, `lti`,
`lp`, `pcl`); `extensions` is what each `instantiate` asks the builder for.
VESTING_INFO is a function whose domain is the set of stored accounts,
VESTING_STATE is `NONE` until the first registration. A registration comes with
its tokens, by cw20 Send or as coins: one action. A removal of accounts fails as
a whole when one of them has nothing left (the token refuses to transfer
nothing). The ownership actions use the guards of `Ownership`.

**VestingLp.** MigrateLiquidityToPCLPool with its three callbacks and the cw20
hook of vesting-lp-pcl is one transaction. The XYK pair pays at a price from
`SharePrices`, the PCL pair mints a number from `MintedLp`; the code derives both
from balance differences (`Brought`), and `Donate` makes the balances before
different from zero. The hook itself, `receive_cw20`, is an action too: its
MigrateXYKLiquidity branch compares the sender that the message names with
vesting-lp, and not, as the branch for registrations does, the sender of the
message with the vesting token. So it may be called by anybody, with any account
of `DirectInfos` for any user, in the place of the account that is there too, and
no tokens come with it. `unfunded` and `unfunded_claims` are history variables:
the accounts such a message has written, and what they have claimed since.
The schedules it stores are not validated either, and `Releasable` says for
which of them a claim can be computed at all.

**LockdropPcl and LockdropMigration.** The state of the PCL lockdrop is one
record, `pcl`: a migration brings several lockups in one transaction, so its
handlers are also operators on the record. MigrateLiquidityToPCLPools applies
`MigrateLockup` to the user's lockups in storage order (by pool, then duration)
and threads the books through the callbacks: `Migrated`, a recursive function of
the set of lockups done, the last of which is `LastMigrated`. `ok` becomes false
where a callback fails, and the action then is not possible. The model starts
after the launch (`MigrationInit` is a state `Launch` reaches), with any of the
books in `InitialLockups`. The burn of credits at a migration is the one of a
claim, see `Distribution`. weighted_amount and the one time reward of the PCL
contract are left out: its `total_incentives_share` is never set, so what it
computes is always zero.

**PriceFeed.** A request is a packet with the symbols asked for; BandChain
resolves it or fails, the packet or its answer may be lost, and answers arrive
in any order. The contract keeps no requests: an answer is stored under the
symbols that are configured when it arrives. `settled` is a history variable:
the rates in store were asked for, and stored, under the present symbols.

**Oracle.** The pair adds its price to a cumulative price modulo `UINT` every
second; `seen` and `averaged` are history variables with the prices of the
intervals. Without an average Consult asks the pair to simulate the swap of one
whole token: `SimulatedReturns`, anything up to the value at the spot price, since
spread and commission come off (the oracle's own test, `tests/integration.rs:809`,
expects 0.998004 at a price of 1).

## 3. Runs

| Run | Shows |
|---|---|
| `auction_safety` | two users through all phases: type invariant, LockedWithinEntitlement, DepositsBacked, LpSolvent, EntitlementDelivered, PoolSizeFrozen, HalfStays |
| `auction_migration` | three users and packs of one or two: LaunchCompletes (liveness) |
| `lockdrop_ledger` | the type invariant, LedgersAgree, LockupsWhole, GeneratorRewardsCovered, RewardStable; two durations, two generators |
| `launch_ledger` | LocksHonoured, RewardsCovered with shares from SetPoolSize, and that `Launch` implements `LockdropSpec` |
| `airdrop_vesting` | Backed with the type invariant, HoldersAccounted, WithdrawnWithinVested, LockdropBurnAccepted; AllocationsPaidOut and UnclaimedReturned (liveness) |
| `distribution_claims` | AheadOfVestingBounded, that `Distribution` implements `AirdropSpec`, AirdropHoldersReturned (liveness) |
| `vesting` | the type invariant, GrantsFunded, TotalsMatchAccounts, NeverAheadOfSchedule, OthersTokensUntouched; that ownership implements `Handover`; GrantsPaidOut (liveness) |
| `lockdrop_pcl_migration` | PclLedgersAgree, PclRewardsCovered, NoObligationsLeft, OnlyDustKept; that the two lockdrop contracts implement `LockupCustody`; EveryLockupReturned (liveness) |
| `feeds` | RatesOfOneAnswer for the price feed, ConsultWithinPrices for the oracle; the two share nothing but the time, and a behaviour is of one or the other |

Three runs expect a violation; each is a disagreement of the code with its docs:

- `lockdrop_full_withdrawal_refused`: the weight of a lockup is rounded once, the
  weight of a pool once per increase. With fractional coefficients the
  withdrawal of a whole lockup in the lock window can fail on a checked
  subtraction. For the same reason one time rewards can add up to more than the
  incentives they are shares of: two units locked one by one with a coefficient
  of 1.5 weigh 3 in a pool of 2. The passing lockdrop runs use whole weights (1
  and 2), for which the two roundings agree; section 4 says what is proved of
  the rewards for all weights.
- `launch_reward_lost`: a claim after the lockdrop's windows and before InitPool
  is recorded as paid with a reward of zero.
- `pcl_pool_never_staked`: the PCL lockdrop stakes the LP tokens of a pool when
  the migration of the last lockup tells it to. If the last lockup of the XYK
  contract leaves by a claim instead, nothing does, and the migrated lockups
  earn no incentives.

**Refinements.** Four passing properties are specifications. `Launch` implements
`LockdropSpec` and `Distribution` implements `AirdropSpec`: what the single
contract's module assumes of its callers is what they do. `VestingBase` with
`VestingLp` implements `Handover` (`OwnershipHandedOver`), with the heirs of a
contract being the proposed owner as long as the proposal is valid: time alone
takes the permission away, without a step of the contract. `LockdropMigration`
implements `LockupCustody` (`CustodyKept`), with the place of a lockup read off
the two contracts' records.

Some things the passing runs show that are not disagreements but worth knowing.
BurnFrom pays out what has vested without counting it as withdrawn (the comment
at `credits/src/contract.rs:327` says so), so a user who lets the lockdrop claim
first may withdraw as much again ahead of schedule; AheadOfVestingBounded says
how far this can go. An airdrop that is paused when it expires can neither be
resumed nor emptied. UnclaimedReturned is stated for an airdrop that is not
paused when it expires, and shows that the pause is all that can keep WithdrawAll
from emptying it. Accounts that come without tokens to vesting-lp-pcl are paid
from the balance of the others; the vesting properties say what holds for the
others all the same: their schedules are kept, a claim can always be computed
(NeverAheadOfSchedule), and what they are short of is at most what the former have
claimed (GrantsFunded, TotalsMatchAccounts), nothing if those have claimed nothing
(GrantsPaidOut). That the balance always suffices does not hold there. The dust
branch of the vesting-lp migration leaves `total_granted` as it was, so the
totals of that contract are only bounded from below (TotalsMatchAccounts); and
MigrateXYKLiquidity replaces an account of the same user, whose tokens then stay
in vesting-lp-pcl (GrantsFunded is an inequality there). A lockup of zero units
stops the migration of all lockups of its owner, not their return; that the
migration is stopped no property speaks of. Rates that
arrive after the symbols were changed are stored under wrong symbols until the
next answer; RatesOfOneAnswer is stated for settled rates.

**Bounds.** Named in the modules: `MAX_TIME`, `WALLET`, `MAX_NTRN`,
`MAX_LOCKED`, `MAX_INCENTIVES`, `MAX_ACCRUED`, `MAX_PCL_ACCRUED`, `MAX_SUPPLY`,
`MAX_REGISTRATIONS`, `MAX_REQUESTS`, and the sets of amounts. A
Decimal has two digits instead of eighteen, so that a handful of tokens already
rounds in every operation. Windows of one to five seconds have each boundary and
at least one second inside; `MAX_TIME` lies after the last window (and, in the
lockdrop, after the longest lockup; in vesting, after the last schedule). Two
users are enough for one to affect the other's share; the auction's migration
uses three so that a pack can be full, partial and empty. The books of the PCL
migration have one user with two durations in a pool, users in both pools, and a
lockup of zero units. The vesting instance explores administration (owners,
managers) and migration with different sets of deployed contracts, which do not
interact otherwise. Accounts without tokens are three: one like any other, one
that was paid more than it grants, one whose start amount is above its end
amount; a registration and such an account, in either order, are within
`MAX_REGISTRATIONS`. The oracle's `UINT` is so small that the cumulative price
wraps around. Deadlock checking is off: after the last phase, and at `MAX_TIME`,
the system stops.

**Fairness.** `AuctionFairness` is weak fairness of the clock, of InitPool and
of MigrateToVesting, which anybody may call and which the launch's operators
repeat until they succeed, and of the owner's pending configuration.
`DistributionFairSpec` and `MigrationFairness` are weak fairness of the clock
and of each user's own claims, in both contracts for the latter; no migration is
assumed to happen. `VestingLpFairness` is the clock and each account's claim.
`AirdropFairSpec` adds each user's Withdraw and the reserve's WithdrawAll, which
their owners send themselves; that the DAO sets `when_withdrawable` is a
condition and not fairness.
Deposits, SetPoolSize and locks are never assumed to happen: LaunchCompletes
starts from set sizes, EveryLockupReturned from initialised pools. Nothing is
assumed of BandChain or of the relayers.

## 4. Proofs

The theorems hold for any users, amounts, times, windows and scale of a Decimal
that satisfy the assumptions named in the modules. Each rests on an inductive
invariant that TLC has checked on the instances of the runs.

**Sums.** Most of what matters here compares a sum over users or lockups with a
balance. `SumOver` is a recursive function on sets; `TgeTheorems` proves that it
exists (`SumsUnique`, `SumsExists`) and the rest of its arithmetic by a minimal
counterexample: the strict subset order on a finite set is well founded, so a
set of which a statement fails has a smallest one (`MinimalSet`,
`SumInduction`). `SumUpdate` and `SumMove` say what one changed, added or removed
entry does to a sum, `SumMonotonic` and `SumAdd` compare sums, `SumByOwner`
regroups the entries of a store by their owner.

**AuctionProofs**, from the assumptions of `TgeCommon` and `Auction` (amounts and
times are naturals, the withdrawal window is not empty).

- `AuctionInvariant`: `AuctionInv`, which gives `AuctionTypeCorrect`,
  `LockedWithinEntitlementAlways`, `EntitlementDeliveredAlways`,
  `PhaseOrderAlways`, `PoolSizeFrozenAlways`. The guard of LockLp bounds what is
  locked by the entitlement of that moment. The entitlement is a quotient of
  deposits times the pool's LP size, so it stays put only if deposits and sizes
  do. Deposits need an open deposit window; a withdrawal of something needs a
  positive percentage, hence an open withdrawal window (`NothingAfterWindow`,
  `WithdrawInWindow`); and sizes exist only after both (`PhaseOrder`).
  SetPoolSize itself needs sizes of zero, hence nothing is locked or vested yet
  (`NothingBeforeSizes`). The proof for a withdrawal window of zero seconds
  fails, and rightly: see the hazard at `auction/src/contract.rs:478`.
- `DepositsBackedAlways`, `LpSolventAlways`, from `LedgerInv`. An entitlement is
  rounded down three times and its divisor is the sum of all deposits, so
  entitlements together are at most half of the LP tokens
  (`EntitlementsWithinHalf`); the other half is the auction's own. The users who
  are not in the user store must have nothing (`StrangersHaveNothing`), because
  MigrateToVesting only ever visits the store.
- `HalfStaysAlways`: the withdrawal percentage never exceeds one half and can be
  used once (`Kept`).

**AirdropProofs**, from the assumptions of `TgeCommon`, `Credits` and `Airdrop`
(users, contracts and reserves are different accounts).

- `AirdropInvariant`: `AirdropInv`, which gives `AirdropTypeCorrect`,
  `HoldersAccountedAlways`, `WithdrawnWithinVestedAlways` and
  `LockdropBurnAcceptedAlways`. Linear vesting with truncation is monotonic in
  time (`VestedGrows`), so a block cannot bring the vested amount below what was
  withdrawn; hence the queries return a share of the balance (`QueriesBounded`)
  and the lockdrop's burn lies within it (`BurnWithinBalance`). HoldersAccounted
  turns a balance into an allocation. SupplyHeld is needed because it is the
  bank, not the token, that bounds a burn in the supply.
- `BackedAlways`: the supply is what the holders have (`SupplySpread`).
- `AheadOfVestingBoundedAlways`, under `DistributionSpec`, from
  `DistributionInv`. BurnFrom takes at most the reward and what could be
  withdrawn (`BurnIsBounded`), and it comes with the one time reward, so once
  (`BurntWithReward`). The bound mentions the reward as it is now, so it must
  not shrink (`RewardsGrow`): it is zero until a pool is initialised, because
  nothing is stored and nobody has a share (`Unshared`), and settled from then
  on. Claims in between are possible and pay nothing. No assumption on the
  weights is needed.
- `DistributionImplementsAirdrop` and `DistributionImplementsLockdrop`. The
  former has the hypothesis that the rewards of users are among
  `LockdropRewards`, which is there for TLC to enumerate; with all naturals it
  is true.

**LockdropProofs**, under `LockdropSpec`. What bounds the auction's calls there
so that TLC can enumerate them is not used: the lemmas are about `UnboundedSpec`,
whose auction names any amounts and any shares (`BoundedIsUnbounded`).

- `LockdropInvariant`: `LockdropInv`, which gives `LockdropTypeCorrect`,
  `LedgersAgreeAlways`, `LockupsWholeAlways`, `GeneratorRewardsCoveredAlways`. A
  lockup's share of the stake is computed as a rounded quotient of two ledgers;
  it is exact only because stake and ledger are the same number, so the two
  properties need each other. GeneratorRewardsCovered is not inductive: a lockup
  whose fraction was cut off at one claim gets it with the next, so the rounded
  claims can grow by more than what arrived. `FractionsCovered` states the same
  of the exact fractions. `UnstakedOK`, `StakedOK` and `NothingHeld` say in
  which phase the contract itself holds LP tokens.
- `RewardStableAlways`: what the reward of a lockup is computed from does not
  change after the windows (`RewardInputsKept`).
- `RewardsCoveredAlways`, from `RewardInv`. The shares of the pools add up to the
  total share, a stored total is the computed one, and nothing is stored or paid
  while shares can still change. If moreover the lockups of a pool (the returned
  ones included) weigh no more than the pool, then the share of each lockup,
  rounded down twice, is at most its part of the incentives
  (`ComputedBelow`), per pool (`PoolBudget`), for all pools (`ComputedBudget`)
  and regrouped by user (`UsersBudget`). Nothing is assumed of the lock weights.
  With fractional ones RewardsCovered may be false (section 3), so the theorem is
  about the states that satisfy that last condition, `WeightsWithin`.
- `ExactTopUpsCovered` says which runs stay in these states: those in which no
  top-up of a lockup completes a unit of weight that neither it nor what was
  locked before has by itself (`TopUpExact`). New lockups and withdrawals never
  harm, whatever the weights: a withdrawal takes at most as much from the pool as
  from the lockup (`LockupMovesWeights`, `WeightsStayWithin`). With whole weights
  every top-up is exact (`WholeTopUps`).

**LaunchProofs**, under `LaunchSpec`, from the invariants of the two contracts
and `LocksInv`.

- `LaunchIsAuction`: the auction's part of every step is a step of `Auction`.
- `LocksHonouredAlways`: auction and lockdrop agree per user and per pool
  (`UserLocksAgree`, `PoolLocksAgree`), and the LP tokens minted are accounted
  for over auction, reserve, lockdrop, users and all generators the lockdrop has
  ever named (`LpAccounted`, for which `Generators` is finite).
- `LaunchIsLockdrop`: the lockdrop's part of every step is a step of
  `UnboundedSpec`. The lockdrop checks its own windows when it takes a
  lockup, not that its pools are not yet initialised; the auction does, by its
  pool_init_timestamp, and `PoolLocksAgree` ties the two. That the stake is
  exactly the lockups follows from the equal totals. Hence
  `LaunchRewardsCovered`, for states with `WeightsWithin` as above, and
  `LaunchImplementsLockdrop`, whose hypothesis `WithinBounds` says that amounts
  and shares stay within the sets that `LockdropSpec` enumerates.

**MigrationProofs**, under `MigrationSpec`, from the assumptions of `Lockdrop`,
`LockdropPcl` and `LockdropMigration` (`MigrationAssumption`: the books that the
windows leave are finite, with durations and numbers of positions that the
lockdrop accepts; the PCL pairs mint at least one LP token). Amounts, users,
durations, rewards and the order of migrations, claims and configuration changes
are arbitrary.

- `MigrationInvariant`: `MigrationInv`, which is `LockdropInv` of the first
  contract, `PclOK` of the second, and what ties them. `Separate`: a lockup in the
  second has left the first, and when a pool of the second is staked the first
  has nothing left of it to send. This is what makes the debt of 0 that a lockup
  arrives with harmless: the rate per share of its pool is still 0. `TermsOK`: no
  term ends with the windows. `OneTimeRewardsPaid`: nobody's lockup leaves the
  first contract before the one time reward is paid, by a claim or a migration.
- The migration of a user. `ChainsExists` and `ChainsUnique` show that the
  recursive function of the chain is one, and `MigratedIsChain` that `Migrated` is
  its value. `ChainOK` is the induction hypothesis after some of the lockups: totals
  are those of the lockups left, stake and total are equal, what the others may
  draw and what was paid is covered by the rewards claimed, the lockups done are
  in the second contract and no others. `ChainStepKeeps` is one lockup,
  `ChainKeeps` all, by a minimal counterexample among the subsets of the user's
  lockups. All rewards of the pools concerned are claimed before the chain pays:
  that this covers the claims at the new rates (`StartCovered`) is
  FractionsCovered again, for several pools at once (`RateRises`, `PoolsSum`).
- `PclLedgersAgreeAlways`, `PclRewardsCoveredAlways`. As in the first contract the
  latter is not inductive; `PclFractionsCovered` is.
- `NoObligationsLeftAlways`.
- `CustodyImplemented`: the contracts refine `LockupCustody`. Every step is a
  `Move` of all lockups of a user, a `Return` of one whose term is over, or leaves
  all where they are while time passes (`CustodyStep`).

**VestingProofs**, under `VestingLpSpec`, from the assumptions of `VestingBase`,
`VestingLp` and `Ownership` (`RequestAssumption`: a registration names schedules
that are finite sequences of points; `PairAssumption`: what pairs pay and mint is
natural, and accounts without tokens are of any content of the right types).

- `VestingInvariant`: `VestingInv`, which gives `VestingTypeCorrect`,
  `GrantsFundedAlways`, `TotalsMatchAlways`, `NeverAheadAlways`. Its core is
  `BooksOK`, about the accounts, VESTING_STATE and balance of one contract; each
  handler is first shown to keep the books as operators (`RegisterBooks`,
  `ClaimBooks`, `RemoveBooks`, `LeaveBooks`, `ArriveBooks`), then lifted to the
  state. `AccountsOK`, that no account is ahead of its schedules, makes the
  subtraction in compute_available safe, and is kept by time because a schedule
  only grows (`ScheduleGrows`). Both are about the accounts whose tokens came;
  of the others only the types are known. The books bound the sum of what the
  former may still claim by the balance and by `unfunded_claims`: a claim of an
  account without tokens takes from one and adds to the other. The migration of an account to vesting-lp-pcl
  rescales a schedule and must leave it fair (`MigratedFair`).
- `OthersTokensNeverTouched`: no step of one user changes another's tokens.
- `HandoverImplemented`: the ownership actions refine `Handover`, step by step.

**FeedProofs**.

- `RatesOfOneAnswerAlways`: rates that are settled are those of one answer to a
  request with the present symbols.
- `ConsultWithinPricesAlways`: the cumulative price wraps around, but over one
  period the difference is less than its width, so the difference modulo the
  width is the true one (`DifferenceIsTotal`); an average lies between the least
  and the greatest price. Without an average the answer is at most the value at
  the spot price. Tokens may have any number of decimals.

**Only model-checked.** The liveness properties (LaunchCompletes,
AllocationsPaidOut, UnclaimedReturned, AirdropHoldersReturned, GrantsPaidOut,
EveryLockupReturned), which are out of the prover's reach as is ENABLED; and
OnlyDustKept, which does not hold for all values of the constants: the rate per
share is truncated whenever rewards come, so what is never paid grows with the
number of times they do, and the state does not count these. The instance gives
rewards once.

## 5. Not modelled, and the plan

Not modelled at all: message encoding, attributes and events, address
validation, history by height (SnapshotMap, TWAPAtHeight of the oracle), and the
insides of Astroport's pairs, generator and incentives and of the bank, cw20 and
IBC modules, which appear as what the contracts rely on. The `migrate` entry
points appear where they change what the contract can do (lockdrop, vesting-lp).

- `usdc-converter`: one transaction of calls to external pools that keeps no
  ledger; what it leaves behind depends on those pools alone.
- The ownership proposals of the two lockdrops:
  they are the protocol of `Ownership`, checked for the vesting contracts, and
  touch nothing but the owner.
- Proxy rewards of the lockdrop: no operation adds one.
- `packages/astroport`, `packages/astroport_periphery`: message types and
  interfaces of contracts that are not in this repository.

What is left: a bound on the generator rewards that are never paid which holds
for any number of reward payments (OnlyDustKept, in general), and the one time
reward over the whole way from the launch to the migration. `MigrationInit`
describes the states in which `Launch` leaves the lockdrop; that it does is argued
here and not proved.
