---------------------------- MODULE LaunchProofs ----------------------------
(***************************************************************************)
(* Theorems about the auction and the lockdrop together. Each contract      *)
(* behaves in the launch as its own module says, so its theorems hold here  *)
(* too; and what the one has recorded as locked is what the other holds.    *)
(***************************************************************************)
EXTENDS Launch, AuctionProofs, LockdropProofs

\* LP tokens with users, in vesting or returned by the lockdrop, and with the
\* generators.
WithUsers(p)      == SumOver([u \in Users |-> vesting_lp[u][p] + received_lp[u][p]], Users)
WithGenerators(p) == SumOver([g \in Generators |-> gen_deposit[g][p]], Generators)
Minted(p)         == IF lp_minted[p] = NONE THEN 0 ELSE lp_minted[p]

\* The three parts of LocksHonoured. The auction initialises the pools of the
\* lockdrop, so that until it does the lockdrop has none.
UserLocksAgree ==
    \A u \in Users, p \in PoolType :
        user_lp_locked[u][p] = total_user_lockup[p][u] + received_lp[u][p]
PoolLocksAgree ==
    pool_init_timestamp = 0 =>
        /\ ~PoolsInitialised
        /\ \A p \in PoolType : lp_locked[p] = amount_in_lockups[p]
LocksInv == UserLocksAgree /\ PoolLocksAgree /\ LpAccounted

\* The inductive invariant of the launch.
LaunchInv == AuctionInv /\ LockdropInv /\ LocksInv

\* What the invariant is used for.
LEMMA HonouredIs == LocksInv => LocksHonoured
BY DEF LocksInv, UserLocksAgree, PoolLocksAgree, LocksHonoured

\* Where the LP tokens of a pool are, now and after the step.
LEMMA AccountedIs ==
    /\ LpAccounted <=> \A p \in PoolType :
           Minted(p) = lp_balance[p] + reserve_lp[p] + lp_held[p] + WithUsers(p) + WithGenerators(p)
    /\ LpAccounted' <=> \A p \in PoolType :
           Minted(p)' = lp_balance'[p] + reserve_lp'[p] + lp_held'[p]
                            + WithUsers(p)' + WithGenerators(p)'
BY DEF LpAccounted, Minted, WithUsers, WithGenerators

\* The quantities of the account are naturals.
LEMMA PlacesNat ==
    ASSUME AuctionTypeOK, LockdropTypeOK, NEW p \in PoolType
    PROVE  /\ lp_balance[p] \in Nat /\ reserve_lp[p] \in Nat /\ lp_held[p] \in Nat
           /\ WithUsers(p) \in Nat /\ WithGenerators(p) \in Nat /\ Minted(p) \in Nat
           /\ \A u \in Users : vesting_lp[u][p] \in Nat /\ received_lp[u][p] \in Nat
           /\ \A g \in Generators : gen_deposit[g][p] \in Nat
<1>1. /\ lp_balance[p] \in Nat /\ reserve_lp[p] \in Nat /\ Minted(p) \in Nat
      /\ \A u \in Users : vesting_lp[u][p] \in Nat
  BY DEF AuctionTypeOK, Minted
<1>2. /\ lp_held[p] \in Nat
      /\ \A u \in Users : received_lp[u][p] \in Nat
      /\ \A g \in Generators : gen_deposit[g][p] \in Nat
  BY DEF LockdropTypeOK
<1>3. WithUsers(p) \in Nat
  <2>1. \A u \in Users : [v \in Users |-> vesting_lp[v][p] + received_lp[v][p]][u] \in Nat
    BY <1>1, <1>2
  <2> QED BY <2>1, UsersFinite, SumNat DEF WithUsers
<1>4. WithGenerators(p) \in Nat
  <2>1. \A g \in Generators : [h \in Generators |-> gen_deposit[h][p]][g] \in Nat
    BY <1>2
  <2> QED BY <2>1, LockdropAddressAssumption, SumNat DEF WithGenerators
<1> QED BY <1>1, <1>2, <1>3, <1>4
-----------------------------------------------------------------------------
(***************************************************************************)
(* The auction's part of a step is a step of the auction: nothing the       *)
(* lockdrop does or refuses takes it out of its own specification.          *)
(***************************************************************************)
LEMMA AuctionPart == [LaunchNext]_launchVars => [AuctionNext]_auctionVars
<1> SUFFICES ASSUME [LaunchNext]_launchVars PROVE [AuctionNext]_auctionVars
  OBVIOUS
<1>1. CASE UNCHANGED launchVars
  BY <1>1 DEF launchVars
<1>2. CASE LaunchTick
  BY <1>2 DEF LaunchTick, Tick, auctionOnly, AuctionNext
<1>3. CASE AuctionStep
  BY <1>3 DEF AuctionNext
<1>4. CASE LockdropStep /\ UNCHANGED auctionOnly
  <2>1. now' = now
    <3>1. CASE LockdropSetup
      BY <3>1 DEF LockdropSetup, GeneratorAccrues, handle_update_config, handle_set_token_info,
                  handle_increasing_ntrn_incentives
    <3>2. CASE \E u \in Users, p \in LockPools, d \in LockDurations, w \in BOOLEAN :
                   handle_claim_rewards_and_unlock_for_lockup(u, p, d, w)
      BY <3>2 DEF handle_claim_rewards_and_unlock_for_lockup
    <3> QED BY <1>4, <3>1, <3>2 DEF LockdropStep
  <2> QED BY <1>4, <2>1 DEF auctionOnly, auctionVars
<1>5. ASSUME NEW u \in Users, NEW p \in LockPools, NEW a \in LpAmounts, NEW d \in LockDurations,
             LockLp(u, p, a, d) \/ WithdrawLp(u, p, a, d)
      PROVE  AuctionNext
  <2>1. p \in PoolType
    BY LockdropAmountAssumption
  <2> QED BY <1>5, <2>1 DEF LockLp, WithdrawLp, AuctionNext
<1>6. CASE InitPool
  BY <1>6 DEF InitPool, AuctionNext
<1> QED BY <1>1, <1>2, <1>3, <1>4, <1>5, <1>6 DEF LaunchNext

\* In the launch the auction behaves as its module says, so every theorem of
\* AuctionProofs holds of the two contracts together.
THEOREM LaunchIsAuction == LaunchSpec => AuctionSpec
BY AuctionPart, PTL DEF LaunchSpec, LaunchInit, AuctionSpec
-----------------------------------------------------------------------------
(***************************************************************************)
(* The lockdrop's part of a step is one the lockdrop relies on: the auction *)
(* changes lockups only before the pools exist, and initialises them once,  *)
(* with the LP tokens of exactly the lockups there are.                     *)
(***************************************************************************)
LEMMA LockdropPart ==
    AuctionInv /\ PoolLocksAgree /\ LockdropTypeOK /\ [LaunchNext]_launchVars
        => [UnboundedNext]_lockdropVars
<1> SUFFICES ASSUME AuctionInv, PoolLocksAgree, LockdropTypeOK, [LaunchNext]_launchVars
             PROVE  [UnboundedNext]_lockdropVars
  OBVIOUS
<1>0. AuctionTypeOK /\ AUCTION \in AuctionAddrs
  BY LockdropAddressAssumption DEF AuctionInv
<1>1. CASE UNCHANGED launchVars
  BY <1>1 DEF launchVars
<1>2. CASE LaunchTick
  BY <1>2 DEF LaunchTick, LockdropTick, lockdropOnly, UnboundedNext
<1>3. CASE AuctionStep /\ UNCHANGED lockdropOnly
  <2>1. now' = now
    BY <1>3 DEF AuctionStep, FundNtrn, execute_update_config, execute_set_token_info,
                execute_deposit, execute_withdraw, execute_set_pool_size,
                execute_migrate_to_vesting
  <2> QED BY <1>3, <2>1 DEF lockdropOnly, lockdropVars
<1>4. CASE LockdropStep
  BY <1>4 DEF UnboundedNext
<1>5. ASSUME NEW u \in Users, NEW p \in LockPools, NEW a \in LpAmounts, NEW d \in LockDurations,
             LockLp(u, p, a, d) \/ WithdrawLp(u, p, a, d)
      PROVE  UnboundedNext
  <2>1. now < LockEnd
    <3>1. LockWindowOpen(u)
      BY <1>5 DEF LockLp, WithdrawLp, execute_lock_lp_tokens, execute_withdraw_lp_tokens
    <3>2. now \in Nat /\ LockEnd \in Nat
      BY <1>0, WindowsOrdered DEF AuctionTypeOK
    <3> QED BY <3>1, <3>2 DEF LockWindowOpen, is_lock_window_closed
  <2>2. ~PoolsInitialised
    BY <2>1, PendingWhile DEF PoolLocksAgree
  <2>3. a \in Nat
    BY AmountAssumption
  <2>4. \/ handle_increase_lockup(AUCTION, u, p, d, a)
        \/ handle_withdraw_from_lockup(AUCTION, u, p, d, a)
    BY <1>5 DEF LockLp, WithdrawLp
  <2> QED BY <1>0, <2>2, <2>3, <2>4 DEF AnyAuctionCalls, UnboundedNext
<1>6. CASE InitPool
  <2>1. pool_init_timestamp = 0
    BY <1>6, PendingWhile DEF InitPool, execute_init_pool, PoolType
  <2>2. ~PoolsInitialised /\ lp_locked = amount_in_lockups
    BY <1>0, <2>1 DEF PoolLocksAgree, AuctionTypeOK, LockdropTypeOK
  <2>3. ntrn_size \in [PoolType -> Nat]
    BY <1>0 DEF AuctionTypeOK
  <2>4. handle_initialize_pool(AUCTION, ntrn_size, amount_in_lockups)
    BY <1>6, <2>2 DEF InitPool
  <2> QED BY <1>0, <2>2, <2>3, <2>4 DEF AnyAuctionCalls, UnboundedNext
<1> QED BY <1>1, <1>2, <1>3, <1>4, <1>5, <1>6 DEF LaunchNext
-----------------------------------------------------------------------------
\* Steps that leave the locks and the LP tokens alone.
LEMMA LocksLeftAlone ==
    ASSUME LocksInv,
           UNCHANGED <<user_lp_locked, total_user_lockup, received_lp, pool_init_timestamp,
                       is_staked, lp_locked, amount_in_lockups>>,
           UNCHANGED <<lp_minted, lp_balance, reserve_lp, lp_held, vesting_lp, gen_deposit>>
    PROVE  LocksInv'
<1>1. UserLocksAgree' /\ PoolLocksAgree'
  BY DEF LocksInv, UserLocksAgree, PoolLocksAgree, PoolsInitialised
<1>2. \A p \in PoolType : UNCHANGED <<Minted(p), WithUsers(p), WithGenerators(p)>>
  BY DEF Minted, WithUsers, WithGenerators
<1>3. LpAccounted'
  BY <1>2, AccountedIs DEF LocksInv
<1> QED BY <1>1, <1>3 DEF LocksInv

\* MigrateToVesting moves LP tokens from the auction to vesting accounts.
LEMMA LocksMigrate ==
    ASSUME LaunchInv, execute_migrate_to_vesting, UNCHANGED lockdropOnly
    PROVE  LocksInv'
<1>1. AuctionInv /\ AuctionTypeOK /\ LockdropTypeOK /\ LocksInv
  BY DEF LaunchInv, AuctionInv, LockdropInv
<1>2. /\ UNCHANGED <<user_lp_locked, pool_init_timestamp, lp_locked, lp_minted, reserve_lp>>
      /\ UNCHANGED <<total_user_lockup, received_lp, is_staked, amount_in_lockups, lp_held,
                     gen_deposit>>
  BY DEF execute_migrate_to_vesting, stateVars, lockdropOnly, poolVars, lockerVars, lockdropEnv
<1>3. UserLocksAgree' /\ PoolLocksAgree'
  BY <1>1, <1>2 DEF LocksInv, UserLocksAgree, PoolLocksAgree, PoolsInitialised
<1>4. PICK pack \in SUBSET Unvested :
        /\ \E atom \in 0..lp_balance["ATOM"], usdc \in 0..lp_balance["USDC"] :
             /\ atom = SumOver([u \in pack |-> VestAmount(u, "ATOM")], pack)
             /\ usdc = SumOver([u \in pack |-> VestAmount(u, "USDC")], pack)
             /\ lp_balance' = [p \in PoolType |->
                   lp_balance[p] - (IF p = "USDC" THEN usdc ELSE atom)]
        /\ vesting_lp' = [u \in Users |->
              IF u \in pack
              THEN [p \in PoolType |-> vesting_lp[u][p] + VestAmount(u, p)]
              ELSE vesting_lp[u]]
  BY Zenon DEF execute_migrate_to_vesting
<1>5. pack \in SUBSET Users /\ IsFiniteSet(pack)
  BY <1>1, UsersFinite DEF Unvested, AuctionTypeOK
<1>6. ASSUME NEW p \in PoolType
      PROVE  Minted(p)' = lp_balance'[p] + reserve_lp'[p] + lp_held'[p]
                              + WithUsers(p)' + WithGenerators(p)'
  <2> DEFINE gets   == [u \in Users |-> IF u \in pack THEN VestAmount(u, p) ELSE 0]
             before == [u \in Users |-> vesting_lp[u][p] + received_lp[u][p]]
             after  == [u \in Users |-> vesting_lp'[u][p] + received_lp'[u][p]]
  <2>1. PICK k : k = SumOver([u \in pack |-> VestAmount(u, p)], pack)
    OBVIOUS
  <2>2. lp_balance'[p] = lp_balance[p] - k
    BY <1>4, <2>1 DEF PoolType
  <2>3. \A u \in Users : VestAmount(u, p) \in Nat
    BY <1>1, ToVestNat DEF ToVest
  <2>4. k \in Nat
    BY <1>5, <2>1, <2>3, SumNat
  <2>5. SumOver(gets, Users) = k
    <3>1. \A u \in pack : /\ [v \in pack |-> VestAmount(v, p)][u] \in Int
                          /\ gets[u] = [v \in pack |-> VestAmount(v, p)][u]
      BY <1>5, <2>3
    <3>2. \A u \in Users \ pack : gets[u] = 0
      OBVIOUS
    <3> QED BY <1>5, <2>1, <3>1, <3>2, UsersFinite, SumExtend
  <2>6. \A u \in Users : /\ before[u] \in Int /\ gets[u] \in Int
                         /\ after[u] = before[u] + gets[u]
    <3> SUFFICES ASSUME NEW u \in Users
                 PROVE  before[u] \in Int /\ gets[u] \in Int /\ after[u] = before[u] + gets[u]
      OBVIOUS
    <3>1. PICK x \in Nat, y \in Nat, n \in Nat :
              x = vesting_lp[u][p] /\ y = received_lp[u][p] /\ n = VestAmount(u, p)
      BY <1>1, <2>3, PlacesNat
    <3>2. before[u] = x + y /\ gets[u] = (IF u \in pack THEN n ELSE 0)
      BY <3>1
    <3>3. vesting_lp'[u][p] = (IF u \in pack THEN x + n ELSE x)
      BY <1>4, <3>1
    <3>4. received_lp'[u][p] = y
      BY <1>2, <3>1
    <3> QED BY <3>1, <3>2, <3>3, <3>4
  <2>7. SumOver(after, Users) = SumOver(before, Users) + SumOver(gets, Users)
    BY <2>6, UsersFinite, SumAdd
  <2>8. WithUsers(p)' = WithUsers(p) + k
    BY <2>5, <2>7 DEF WithUsers
  <2>9. WithGenerators(p)' = WithGenerators(p) /\ Minted(p)' = Minted(p)
    BY <1>2 DEF WithGenerators, Minted
  <2>10. Minted(p) = lp_balance[p] + reserve_lp[p] + lp_held[p] + WithUsers(p) + WithGenerators(p)
    BY <1>1, AccountedIs DEF LocksInv
  <2>11. PICK m \in Nat, b \in Nat, r \in Nat, h \in Nat, uu \in Nat, gg \in Nat :
            /\ m = Minted(p) /\ b = lp_balance[p] /\ r = reserve_lp[p] /\ h = lp_held[p]
            /\ uu = WithUsers(p) /\ gg = WithGenerators(p)
    BY <1>1, PlacesNat
  <2>12. /\ Minted(p)' = m /\ lp_balance'[p] = b - k /\ reserve_lp'[p] = r /\ lp_held'[p] = h
         /\ WithUsers(p)' = uu + k /\ WithGenerators(p)' = gg
    BY <1>2, <2>2, <2>8, <2>9, <2>11
  <2> QED BY <2>4, <2>10, <2>11, <2>12
<1> QED BY <1>3, <1>6, AccountedIs DEF LocksInv

\* Steps of the lockdrop other than a claim. SetTokenInfo replaces pools that
\* nobody has locked anything in.
LEMMA LocksSetup ==
    ASSUME LaunchInv, LockdropSetup, UNCHANGED auctionOnly
    PROVE  LocksInv'
<1> USE DEF poolVars, lockerVars, lockdropEnv
<1>1. LockdropTypeOK /\ LockupsKnown /\ StakedOK /\ LedgersAgree /\ LocksInv
  BY DEF LaunchInv, LockdropInv
<1>2. /\ UNCHANGED <<user_lp_locked, pool_init_timestamp, lp_locked>>
      /\ UNCHANGED <<lp_minted, lp_balance, reserve_lp, vesting_lp>>
  BY DEF auctionOnly, stateVars, userVars, lpVars
<1>3. UNCHANGED <<total_user_lockup, received_lp, lp_held, gen_deposit>>
  BY DEF LockdropSetup, GeneratorAccrues, handle_update_config, handle_set_token_info,
         handle_increasing_ntrn_incentives
<1>4. UNCHANGED <<is_staked, amount_in_lockups>>
  <2>1. CASE /\ participants = {}
             /\ \E s \in Senders, g \in Generators : handle_set_token_info(s, g)
    <3>1. is_staked' = [p \in PoolType |-> FALSE] /\ amount_in_lockups' = ZeroPools
      BY <2>1 DEF handle_set_token_info
    <3>2. \A p \in PoolType : is_staked[p] = FALSE
      BY <1>1, <2>1 DEF StakedOK, LockdropTypeOK
    <3>3. ASSUME NEW p \in PoolType PROVE amount_in_lockups[p] = 0
      <4>1. {k \in LiveLockups : k[1] = p} = {}
        BY <1>1, <2>1 DEF LockupsKnown, LiveLockups
      <4>2. UnitsOf({}) = 0
        BY SumEmpty DEF UnitsOf
      <4> QED BY <1>1, <4>1, <4>2 DEF LedgersAgree
    <3>4. is_staked = [p \in PoolType |-> FALSE] /\ amount_in_lockups = ZeroPools
      BY <1>1, <3>2, <3>3 DEF LockdropTypeOK, ZeroPools
    <3> QED BY <3>1, <3>4
  <2>2. CASE ~(/\ participants = {}
               /\ \E s \in Senders, g \in Generators : handle_set_token_info(s, g))
    BY <2>2 DEF LockdropSetup, GeneratorAccrues, handle_update_config,
                handle_increasing_ntrn_incentives
  <2> QED BY <2>1, <2>2
<1> QED BY <1>1, <1>2, <1>3, <1>4, LocksLeftAlone

\* A claim that unlocks moves the units of the lockup from the generator to the
\* user, and from one term of the user's account to the other.
LEMMA LocksClaim ==
    ASSUME LaunchInv, UNCHANGED auctionOnly,
           NEW u \in Users, NEW p \in LockPools, NEW d \in LockDurations, NEW w \in BOOLEAN,
           handle_claim_rewards_and_unlock_for_lockup(u, p, d, w)
    PROVE  LocksInv'
<1>1. /\ AuctionTypeOK /\ LockdropInv /\ LockdropTypeOK /\ StakedOK /\ LocksInv
      /\ p \in PoolType
  BY LockdropAmountAssumption DEF LaunchInv, AuctionInv, LockdropInv
<1>2. /\ UNCHANGED <<user_lp_locked, pool_init_timestamp, lp_locked>>
      /\ UNCHANGED <<lp_minted, lp_balance, reserve_lp, vesting_lp>>
  BY DEF auctionOnly, stateVars, userVars, lpVars
<1>3. is_staked' = is_staked
  BY DEF handle_claim_rewards_and_unlock_for_lockup
<1>4. ClaimsLp(u, p, d, w) /\ (~is_staked[p] => ~w) /\ <<p, u, d>> \in DOMAIN lockup
  <2>1. /\ ClaimsLp(u, p, d, w)
        /\ \E r \in Nat, rewards \in Nat, pending \in Nat :
               ClaimsRewards(u, p, d, w, r, rewards, pending)
    BY <1>1, ClaimIs
  <2>2. PICK r \in Nat, rewards \in Nat, pending \in Nat :
            ClaimsRewards(u, p, d, w, r, rewards, pending)
    BY <2>1
  <2>3. <<p, u, d>> \in LiveLockups /\ (~is_staked[p] => ~w)
    BY <2>2 DEF ClaimsRewards
  <2> QED BY <2>1, <2>3 DEF LiveLockups
<1>5. CASE w = FALSE
  <2>1. UNCHANGED <<amount_in_lockups, total_user_lockup, received_lp, gen_deposit, lp_held>>
    BY <1>4, <1>5 DEF ClaimsLp
  <2> QED BY <1>1, <1>2, <1>3, <2>1, LocksLeftAlone
<1>6. CASE w = TRUE
  <2> DEFINE g == lockdrop_config.generator
  <2>1. PICK n \in Nat : n = lockup[<<p, u, d>>].lp_units_locked
    BY <1>1, <1>4 DEF LockdropTypeOK, LockupRecords
  <2>2. is_staked[p] /\ g \in Generators
    BY <1>1, <1>4, <1>6 DEF StakedOK
  <2>3. /\ n <= total_user_lockup[p][u]
        /\ total_user_lockup' = [total_user_lockup EXCEPT ![p][u] = @ - n]
        /\ received_lp' = [received_lp EXCEPT ![u][p] = @ + n]
        /\ gen_deposit' = [gen_deposit EXCEPT ![g][p] = @ - n]
        /\ lp_held' = lp_held
    BY <1>4, <1>6, <2>1 DEF ClaimsLp
  <2>4. UserLocksAgree'
    <3> SUFFICES ASSUME NEW v \in Users, NEW q \in PoolType
                 PROVE  user_lp_locked'[v][q] = total_user_lockup'[q][v] + received_lp'[v][q]
      BY DEF UserLocksAgree
    <3>1. PICK x \in Nat, y \in Nat :
              /\ x = total_user_lockup[q][v] /\ y = received_lp[v][q]
              /\ user_lp_locked[v][q] = x + y
      BY <1>1 DEF LockdropTypeOK, LocksInv, UserLocksAgree
    <3>2. CASE v = u /\ q = p
      <4>1. total_user_lockup'[q][v] = x - n /\ received_lp'[v][q] = y + n
        BY <1>1, <2>3, <3>1, <3>2 DEF LockdropTypeOK
      <4> QED BY <1>2, <3>1, <4>1
    <3>3. CASE ~(v = u /\ q = p)
      <4>1. total_user_lockup'[q][v] = x /\ received_lp'[v][q] = y
        BY <1>1, <2>3, <3>1, <3>3 DEF LockdropTypeOK
      <4> QED BY <1>2, <3>1, <4>1
    <3> QED BY <3>2, <3>3
  <2>5. PoolLocksAgree'
    BY <1>1, <1>2, <2>2 DEF LocksInv, PoolLocksAgree, PoolsInitialised
  <2>6. ASSUME NEW q \in PoolType
        PROVE  Minted(q)' = lp_balance'[q] + reserve_lp'[q] + lp_held'[q]
                                + WithUsers(q)' + WithGenerators(q)'
    <3> DEFINE dep  == [h \in Generators |-> gen_deposit[h][q]]
               dep2 == [h \in Generators |-> gen_deposit'[h][q]]
               usr  == [v \in Users |-> vesting_lp[v][q] + received_lp[v][q]]
               usr2 == [v \in Users |-> vesting_lp'[v][q] + received_lp'[v][q]]
    <3>1. PICK m \in Nat, b \in Nat, r \in Nat, h \in Nat, uu \in Nat, gg \in Nat :
              /\ m = Minted(q) /\ b = lp_balance[q] /\ r = reserve_lp[q] /\ h = lp_held[q]
              /\ uu = WithUsers(q) /\ gg = WithGenerators(q)
      BY <1>1, PlacesNat
    <3>2. m = b + r + h + uu + gg
      BY <1>1, <3>1, AccountedIs DEF LocksInv
    <3>3. Minted(q)' = m /\ lp_balance'[q] = b /\ reserve_lp'[q] = r /\ lp_held'[q] = h
      BY <1>2, <2>3, <3>1 DEF Minted
    <3>4. PICK c \in Nat : c = IF q = p THEN n ELSE 0
      OBVIOUS
    <3>5. WithUsers(q)' = uu + c
      <4>1. \A v \in Users : vesting_lp[v][q] \in Nat /\ received_lp[v][q] \in Nat
        BY <1>1, PlacesNat
      <4>2. \A v \in Users \ {u} : received_lp'[v][q] = received_lp[v][q]
        BY <1>1, <2>3 DEF LockdropTypeOK
      <4>3. received_lp'[u][q] = received_lp[u][q] + c
        BY <1>1, <2>3, <3>4, <4>1 DEF LockdropTypeOK
      <4>4. ChangesAt(Users, usr, usr2, u, c)
        BY <1>2, <3>4, <4>1, <4>2, <4>3 DEF ChangesAt
      <4>5. SumOver(usr2, Users) = SumOver(usr, Users) + c
        BY <4>4, UsersFinite, SumUpdate
      <4> QED BY <3>1, <4>5 DEF WithUsers
    <3>6. WithGenerators(q)' = gg - c
      <4>1. \A e \in Generators : gen_deposit[e][q] \in Nat
        BY <1>1, PlacesNat
      <4>2. \A e \in Generators \ {g} : gen_deposit'[e][q] = gen_deposit[e][q]
        BY <1>1, <2>3 DEF LockdropTypeOK
      <4>3. gen_deposit'[g][q] = gen_deposit[g][q] - c
        BY <1>1, <2>2, <2>3, <3>4, <4>1 DEF LockdropTypeOK
      <4>4. ChangesAt(Generators, dep, dep2, g, 0 - c)
        BY <2>2, <3>4, <4>1, <4>2, <4>3 DEF ChangesAt
      <4>5. SumOver(dep2, Generators) = SumOver(dep, Generators) + (0 - c)
        BY <4>4, LockdropAddressAssumption, SumUpdate
      <4>6. WithGenerators(q)' = gg + (0 - c)
        BY <3>1, <4>5 DEF WithGenerators
      <4> QED BY <3>1, <3>4, <4>6
    <3> QED BY <3>1, <3>2, <3>3, <3>4, <3>5, <3>6
  <2> QED BY <2>4, <2>5, <2>6, AccountedIs DEF LocksInv
<1> QED BY <1>5, <1>6

\* The records of a user's locks in a pool change by c in both contracts.
LocksMoveBy(u, p, c) ==
    /\ user_lp_locked' = [user_lp_locked EXCEPT ![u][p] = @ + c]
    /\ lp_locked' = [lp_locked EXCEPT ![p] = @ + c]
    /\ total_user_lockup' = [total_user_lockup EXCEPT ![p][u] = @ + c]
    /\ amount_in_lockups' = [amount_in_lockups EXCEPT ![p] = @ + c]

\* LockLp and WithdrawLp change both contracts' records by the same amount.
LEMMA LocksChange ==
    ASSUME LaunchInv, NEW u \in Users, NEW p \in LockPools, NEW a \in LpAmounts,
           NEW d \in LockDurations, LockLp(u, p, a, d) \/ WithdrawLp(u, p, a, d)
    PROVE  LocksInv'
<1>1. /\ AuctionTypeOK /\ LockdropTypeOK /\ LocksInv /\ p \in PoolType /\ a \in Nat
  BY LockdropAmountAssumption, AmountAssumption DEF LaunchInv, AuctionInv, LockdropInv
<1>2. /\ UNCHANGED <<pool_init_timestamp, lp_minted, lp_balance, reserve_lp, vesting_lp>>
      /\ UNCHANGED <<received_lp, is_staked, lp_held, gen_deposit>>
  BY DEF LockLp, WithdrawLp, execute_lock_lp_tokens, execute_withdraw_lp_tokens, lpVars,
         handle_increase_lockup, handle_withdraw_from_lockup, lockdropEnv
<1>3. PICK c \in Int : LocksMoveBy(u, p, c)
  <2>1. CASE LockLp(u, p, a, d)
    <3>1. LocksMoveBy(u, p, a)
      BY <2>1 DEF LockLp, execute_lock_lp_tokens, handle_increase_lockup, LocksMoveBy
    <3>2. a \in Int
      BY <1>1
    <3> QED BY <3>1, <3>2
  <2>2. CASE WithdrawLp(u, p, a, d)
    <3>1. /\ user_lp_locked' = [user_lp_locked EXCEPT ![u][p] = @ - a]
          /\ lp_locked' = [lp_locked EXCEPT ![p] = @ - a]
          /\ total_user_lockup' = [total_user_lockup EXCEPT ![p][u] = @ - a]
          /\ amount_in_lockups' = [amount_in_lockups EXCEPT ![p] = @ - a]
      BY <2>2 DEF WithdrawLp, execute_withdraw_lp_tokens, handle_withdraw_from_lockup
    <3>2. \A x \in Int : x - a = x + (0 - a)
      BY <1>1
    <3>3. /\ user_lp_locked[u][p] \in Int /\ lp_locked[p] \in Int
          /\ total_user_lockup[p][u] \in Int /\ amount_in_lockups[p] \in Int
      BY <1>1 DEF AuctionTypeOK, LockdropTypeOK
    <3>4. LocksMoveBy(u, p, 0 - a)
      BY <3>1, <3>2, <3>3 DEF LocksMoveBy
    <3>5. 0 - a \in Int
      BY <1>1
    <3> QED BY <3>4, <3>5
  <2> QED BY <2>1, <2>2
<1>4. UserLocksAgree'
  <2> SUFFICES ASSUME NEW v \in Users, NEW q \in PoolType
               PROVE  user_lp_locked'[v][q] = total_user_lockup'[q][v] + received_lp'[v][q]
    BY DEF UserLocksAgree
  <2>1. PICK x \in Nat, y \in Nat, z \in Nat :
            /\ x = total_user_lockup[q][v] /\ y = received_lp[v][q]
            /\ z = user_lp_locked[v][q] /\ z = x + y
    BY <1>1 DEF AuctionTypeOK, LockdropTypeOK, LocksInv, UserLocksAgree
  <2>2. CASE v = u /\ q = p
    <3>1. total_user_lockup'[q][v] = x + c /\ user_lp_locked'[v][q] = z + c
      BY <1>1, <1>3, <2>1, <2>2 DEF AuctionTypeOK, LockdropTypeOK, LocksMoveBy
    <3> QED BY <1>2, <2>1, <3>1
  <2>3. CASE ~(v = u /\ q = p)
    <3>1. total_user_lockup'[q][v] = x /\ user_lp_locked'[v][q] = z
      BY <1>1, <1>3, <2>1, <2>3 DEF AuctionTypeOK, LockdropTypeOK, LocksMoveBy
    <3> QED BY <1>2, <2>1, <3>1
  <2> QED BY <2>2, <2>3
<1>5. PoolLocksAgree'
  BY <1>1, <1>2, <1>3 DEF LocksInv, PoolLocksAgree, PoolsInitialised, AuctionTypeOK,
                          LockdropTypeOK, LocksMoveBy
<1>6. LpAccounted'
  <2>1. \A q \in PoolType : UNCHANGED <<Minted(q), WithUsers(q), WithGenerators(q)>>
    BY <1>2 DEF Minted, WithUsers, WithGenerators
  <2> QED BY <1>1, <1>2, <2>1, AccountedIs DEF LocksInv
<1> QED BY <1>4, <1>5, <1>6 DEF LocksInv

\* InitPool: half of the minted LP tokens go to the reserve, the locked ones
\* through the lockdrop to the generator, the rest stays with the auction.
LEMMA LocksInitPool ==
    ASSUME LaunchInv, InitPool
    PROVE  LocksInv'
<1>1. /\ AuctionInv /\ AuctionTypeOK /\ LockdropTypeOK /\ LocksInv /\ now \in Nat
  BY DEF LaunchInv, AuctionInv, LockdropInv
<1>2. /\ UNCHANGED <<user_lp_locked, lp_locked, lp_size, vesting_lp>>
      /\ UNCHANGED <<total_user_lockup, received_lp, amount_in_lockups, lp_held>>
  BY DEF InitPool, execute_init_pool, userVars, handle_initialize_pool, lockerVars
<1>3. UserLocksAgree'
  BY <1>1, <1>2 DEF LocksInv, UserLocksAgree
<1>4. PoolLocksAgree'
  <2>1. pool_init_timestamp' = now /\ now >= LockEnd
    BY DEF InitPool, execute_init_pool, is_lock_window_closed
  <2>2. pool_init_timestamp' # 0
    BY <1>1, <2>1, WindowsOrdered
  <2> QED BY <2>2 DEF PoolLocksAgree
<1>5. ASSUME NEW q \in PoolType
      PROVE  Minted(q)' = lp_balance'[q] + reserve_lp'[q] + lp_held'[q]
                              + WithUsers(q)' + WithGenerators(q)'
  <2> DEFINE g    == lockdrop_config.generator
             dep  == [h \in Generators |-> gen_deposit[h][q]]
             dep2 == [h \in Generators |-> gen_deposit'[h][q]]
  <2>1. PICK b \in Nat, r \in Nat, h \in Nat, uu \in Nat, gg \in Nat :
            /\ b = lp_balance[q] /\ r = reserve_lp[q] /\ h = lp_held[q]
            /\ uu = WithUsers(q) /\ gg = WithGenerators(q)
    BY <1>1, PlacesNat
  <2>2. 0 = b + r + h + uu + gg
    <3>1. Minted(q) = 0
      BY DEF InitPool, execute_init_pool, Minted
    <3> QED BY <1>1, <2>1, <3>1, AccountedIs DEF LocksInv
  <2>3. PICK s \in Nat, l \in Nat : s = lp_size[q] /\ l = lp_locked[q]
    BY <1>1 DEF AuctionTypeOK
  <2>4. /\ lp_minted'[q] = s /\ reserve_lp'[q] = r + s \div 2
        /\ lp_balance'[q] = b + s - (s \div 2 + l)
    BY <2>1, <2>3 DEF InitPool, execute_init_pool
  <2>5. Minted(q)' = s /\ lp_held'[q] = h /\ WithUsers(q)' = uu
    <3>1. s # NONE
      BY NoneAssumption
    <3> QED BY <1>2, <2>1, <2>4, <3>1 DEF Minted, WithUsers
  <2>6. WithGenerators(q)' = gg + l
    <3>1. CASE \A p \in PoolType : lp_locked[p] = 0
      <4>1. gen_deposit' = gen_deposit
        BY <3>1 DEF InitPool, handle_initialize_pool
      <4>2. WithGenerators(q)' = gg /\ l = 0
        BY <2>1, <2>3, <3>1, <4>1 DEF WithGenerators
      <4> QED BY <2>1, <4>2
    <3>2. CASE \E p \in PoolType : lp_locked[p] # 0
      <4>1. {p \in PoolType : lp_locked[p] # 0} # {}
        BY <3>2
      <4>2. /\ g # NONE
            /\ gen_deposit' = [gen_deposit EXCEPT
                   ![g] = [p \in PoolType |-> gen_deposit[g][p] + lp_locked[p]]]
        BY <4>1 DEF InitPool, handle_initialize_pool
      <4>3. g \in Generators
        BY <1>1, <4>2 DEF LockdropTypeOK
      <4>4. \A e \in Generators : gen_deposit[e][q] \in Nat
        BY <1>1, PlacesNat
      <4>5. gen_deposit'[g][q] = gen_deposit[g][q] + l
        BY <1>1, <2>3, <4>2, <4>3 DEF LockdropTypeOK
      <4>6. \A e \in Generators \ {g} : gen_deposit'[e][q] = gen_deposit[e][q]
        BY <1>1, <4>2, <4>3 DEF LockdropTypeOK
      <4>7. ChangesAt(Generators, dep, dep2, g, l)
        BY <2>3, <4>3, <4>4, <4>5, <4>6 DEF ChangesAt
      <4>8. SumOver(dep2, Generators) = SumOver(dep, Generators) + l
        BY <4>7, LockdropAddressAssumption, SumUpdate
      <4> QED BY <2>1, <4>8 DEF WithGenerators
    <3> QED BY <3>1, <3>2
  <2>7. PICK half \in Nat : half = s \div 2
    BY <2>3
  <2>8. reserve_lp'[q] = r + half /\ lp_balance'[q] = b + s - (half + l)
    BY <2>4, <2>7
  <2>9. s = (b + s - (half + l)) + (r + half) + h + uu + (gg + l)
    BY <2>2
  <2> QED BY <2>5, <2>6, <2>8, <2>9
<1> QED BY <1>3, <1>4, <1>5, AccountedIs DEF LocksInv
-----------------------------------------------------------------------------
\* Nothing is locked when the contracts are instantiated.
LEMMA LaunchInvInit == LaunchInit => LaunchInv
<1> SUFFICES ASSUME LaunchInit PROVE LaunchInv
  OBVIOUS
<1>1. AuctionInv /\ LockdropInv
  BY AuctionInvInit, LockdropInvInit DEF LaunchInit
<1>2. UserLocksAgree
  BY DEF LaunchInit, AuctionInit, LockdropInit, UserLocksAgree, ZeroPools
<1>3. PoolLocksAgree
  BY DEF LaunchInit, AuctionInit, LockdropInit, PoolLocksAgree, PoolsInitialised, ZeroPools
<1>4. ASSUME NEW p \in PoolType
      PROVE  Minted(p) = lp_balance[p] + reserve_lp[p] + lp_held[p] + WithUsers(p) + WithGenerators(p)
  <2>1. Minted(p) = 0 /\ lp_balance[p] = 0 /\ reserve_lp[p] = 0 /\ lp_held[p] = 0
    BY DEF LaunchInit, AuctionInit, LockdropInit, ZeroPools, Minted
  <2>2. WithUsers(p) = 0
    <3>1. \A u \in Users : [v \in Users |-> vesting_lp[v][p] + received_lp[v][p]][u] = 0
      BY DEF LaunchInit, AuctionInit, LockdropInit, ZeroPools
    <3> QED BY <3>1, UsersFinite, SumZero DEF WithUsers
  <2>3. WithGenerators(p) = 0
    <3>1. \A g \in Generators : [h \in Generators |-> gen_deposit[h][p]][g] = 0
      BY DEF LaunchInit, LockdropInit, ZeroPools
    <3> QED BY <3>1, LockdropAddressAssumption, SumZero DEF WithGenerators
  <2> QED BY <2>1, <2>2, <2>3
<1> QED BY <1>1, <1>2, <1>3, <1>4, AccountedIs DEF LaunchInv, LocksInv

\* Every step of the launch keeps the invariant.
LEMMA LaunchInvStep == LaunchInv /\ [LaunchNext]_launchVars => LaunchInv'
<1> SUFFICES ASSUME LaunchInv, [LaunchNext]_launchVars PROVE LaunchInv'
  OBVIOUS
<1>1. AuctionInv'
  BY AuctionPart, AuctionInvStep DEF LaunchInv
<1>2. LockdropInv'
  <2>1. LockdropTypeOK /\ PoolLocksAgree
    BY DEF LaunchInv, LockdropInv, LocksInv
  <2> QED BY <2>1, LockdropPart, LockdropInvStep DEF LaunchInv
<1>3. LocksInv'
  <2>0. LocksInv
    BY DEF LaunchInv
  <2>1. CASE UNCHANGED launchVars
    BY <2>0, <2>1, LocksLeftAlone DEF launchVars, auctionVars, lockdropVars, stateVars, userVars,
                                      lpVars, poolVars, lockerVars, lockdropEnv
  <2>2. CASE LaunchTick
    BY <2>0, <2>2, LocksLeftAlone DEF LaunchTick, auctionOnly, lockdropOnly, stateVars, userVars,
                                      lpVars, poolVars, lockerVars, lockdropEnv
  <2>3. CASE AuctionStep /\ UNCHANGED lockdropOnly
    <3>1. CASE execute_migrate_to_vesting
      BY <2>3, <3>1, LocksMigrate
    <3>2. CASE ~execute_migrate_to_vesting
      <4>1. /\ UNCHANGED <<user_lp_locked, pool_init_timestamp, lp_locked>>
            /\ UNCHANGED <<lp_minted, lp_balance, reserve_lp, vesting_lp>>
        BY <2>3, <3>2 DEF AuctionStep, FundNtrn, execute_update_config, execute_set_token_info,
                          execute_deposit, execute_withdraw, execute_set_pool_size,
                          stateVars, userVars, lpVars
      <4>2. UNCHANGED <<total_user_lockup, received_lp, is_staked, amount_in_lockups, lp_held,
                        gen_deposit>>
        BY <2>3 DEF lockdropOnly, poolVars, lockerVars, lockdropEnv
      <4> QED BY <2>0, <4>1, <4>2, LocksLeftAlone
    <3> QED BY <3>1, <3>2
  <2>4. CASE LockdropStep /\ UNCHANGED auctionOnly
    <3>1. CASE LockdropSetup
      BY <2>4, <3>1, LocksSetup
    <3>2. ASSUME NEW u \in Users, NEW p \in LockPools, NEW d \in LockDurations, NEW w \in BOOLEAN,
                 handle_claim_rewards_and_unlock_for_lockup(u, p, d, w)
          PROVE  LocksInv'
      BY <2>4, <3>2, LocksClaim
    <3> QED BY <2>4, <3>1, <3>2 DEF LockdropStep
  <2>5. ASSUME NEW u \in Users, NEW p \in LockPools, NEW a \in LpAmounts, NEW d \in LockDurations,
               LockLp(u, p, a, d) \/ WithdrawLp(u, p, a, d)
        PROVE  LocksInv'
    BY <2>5, LocksChange
  <2>6. CASE InitPool
    BY <2>6, LocksInitPool
  <2> QED BY <2>1, <2>2, <2>3, <2>4, <2>5, <2>6 DEF LaunchNext
<1> QED BY <1>1, <1>2, <1>3 DEF LaunchInv

\* The invariant holds of the launch.
LEMMA LaunchInvariant == LaunchSpec => []LaunchInv
BY LaunchInvInit, LaunchInvStep, PTL DEF LaunchSpec

\* What the auction has recorded as locked is what the lockdrop holds or has
\* returned; the auction sends the lockdrop the LP tokens of exactly its
\* lockups; and every LP token minted is in one place, through every order of
\* locks, withdrawals, initialisation, migration packs and claims.
THEOREM LocksHonouredAlways == LaunchSpec => []LocksHonoured
<1>1. LaunchInv => LocksHonoured
  BY HonouredIs DEF LaunchInv
<1> QED BY <1>1, LaunchInvariant, PTL

\* The auction keeps the promise AuctionCalls makes for it, for any amounts and
\* shares: what LockdropProofs proves of the lockdrop holds in the launch.
THEOREM LaunchIsLockdrop == LaunchSpec => UnboundedSpec
<1>1. LaunchInv /\ [LaunchNext]_launchVars => [UnboundedNext]_lockdropVars
  BY LockdropPart DEF LaunchInv, LockdropInv, LocksInv
<1> QED BY <1>1, LaunchInvariant, PTL DEF LaunchSpec, LaunchInit, UnboundedSpec

\* The bounds that LockdropSpec puts on its auction: what the instance of a
\* launch keeps to.
WithinBounds ==
    /\ \A u \in Users, p \in PoolType : user_lp_locked[u][p] <= MAX_LOCKED
    /\ (\E p \in PoolType : ntrn_size[p] # 0) => ntrn_size \in IncentivesShares

\* As LockdropPart, with the bounds.
LEMMA BoundedPart ==
    ASSUME LpAmounts \subseteq LockAmounts, LaunchInv, LaunchInv', WithinBounds, WithinBounds',
           [LaunchNext]_launchVars
    PROVE  [LockdropNext]_lockdropVars
<1>0. /\ AuctionInv /\ AuctionTypeOK /\ PoolLocksAgree /\ LockdropTypeOK /\ LockdropTypeOK'
      /\ UserLocksAgree' /\ AUCTION \in AuctionAddrs
  BY LockdropAddressAssumption DEF LaunchInv, AuctionInv, LockdropInv, LocksInv
<1>1. CASE UNCHANGED launchVars
  BY <1>1 DEF launchVars
<1>2. CASE LaunchTick
  BY <1>2 DEF LaunchTick, LockdropTick, lockdropOnly, LockdropNext
<1>3. CASE AuctionStep /\ UNCHANGED lockdropOnly
  <2>1. now' = now
    BY <1>3 DEF AuctionStep, FundNtrn, execute_update_config, execute_set_token_info,
                execute_deposit, execute_withdraw, execute_set_pool_size,
                execute_migrate_to_vesting
  <2> QED BY <1>3, <2>1 DEF lockdropOnly, lockdropVars
<1>4. CASE LockdropStep
  BY <1>4 DEF LockdropNext
<1>5. ASSUME NEW u \in Users, NEW p \in LockPools, NEW a \in LpAmounts, NEW d \in LockDurations,
             LockLp(u, p, a, d) \/ WithdrawLp(u, p, a, d)
      PROVE  LockdropNext
  <2>1. now < LockEnd
    <3>1. LockWindowOpen(u)
      BY <1>5 DEF LockLp, WithdrawLp, execute_lock_lp_tokens, execute_withdraw_lp_tokens
    <3>2. now \in Nat /\ LockEnd \in Nat
      BY <1>0, WindowsOrdered DEF AuctionTypeOK
    <3> QED BY <3>1, <3>2 DEF LockWindowOpen, is_lock_window_closed
  <2>2. \A q \in PoolType : ~is_staked[q]
    BY <1>0, <2>1, PendingWhile DEF PoolLocksAgree, PoolsInitialised
  <2>3. a \in LockAmounts /\ a \in Nat /\ p \in PoolType /\ MAX_LOCKED \in Nat
    BY LockdropAmountAssumption, AmountAssumption
  <2>4. CASE LockLp(u, p, a, d)
    <3>1. handle_increase_lockup(AUCTION, u, p, d, a)
      BY <2>4 DEF LockLp
    <3>2. total_user_lockup[p][u] + a <= MAX_LOCKED
      <4>1. PICK x \in Nat, y \in Nat, z \in Nat :
                /\ x = total_user_lockup[p][u] /\ y = total_user_lockup'[p][u]
                /\ z = received_lp'[u][p]
        BY <1>0, <2>3 DEF LockdropTypeOK
      <4>2. y = x + a
        BY <1>0, <2>3, <3>1, <4>1 DEF handle_increase_lockup, LockdropTypeOK
      <4>3. y + z <= MAX_LOCKED
        BY <1>0, <2>3, <4>1 DEF UserLocksAgree, WithinBounds
      <4> QED BY <2>3, <4>1, <4>2, <4>3
    <3> QED BY <1>0, <2>2, <2>3, <3>1, <3>2 DEF AuctionCalls, LockdropNext
  <2>5. CASE WithdrawLp(u, p, a, d)
    <3>1. handle_withdraw_from_lockup(AUCTION, u, p, d, a)
      BY <2>5 DEF WithdrawLp
    <3> QED BY <1>0, <2>2, <2>3, <3>1 DEF AuctionCalls, LockdropNext
  <2> QED BY <1>5, <2>4, <2>5
<1>6. CASE InitPool
  <2>1. pool_init_timestamp = 0
    BY <1>0, <1>6, PendingWhile DEF InitPool, execute_init_pool, PoolType
  <2>2. (\A q \in PoolType : ~is_staked[q]) /\ lp_locked = amount_in_lockups
    BY <1>0, <2>1 DEF PoolLocksAgree, PoolsInitialised, AuctionTypeOK, LockdropTypeOK
  <2>3. ntrn_size \in IncentivesShares
    BY <1>0, <1>6 DEF InitPool, execute_init_pool, AuctionInv, PhaseOrder, WithinBounds
  <2>4. handle_initialize_pool(AUCTION, ntrn_size, amount_in_lockups)
    BY <1>6, <2>2 DEF InitPool
  <2> QED BY <1>0, <2>2, <2>3, <2>4 DEF AuctionCalls, LockdropNext
<1> QED BY <1>1, <1>2, <1>3, <1>4, <1>5, <1>6 DEF LaunchNext

\* A launch that keeps to the bounds of an instance implements the lockdrop's
\* own specification of that instance, which the run of Launch checks.
THEOREM LaunchImplementsLockdrop ==
    ASSUME LpAmounts \subseteq LockAmounts
    PROVE  LaunchSpec /\ []WithinBounds => LockdropSpec
<1>1. /\ LaunchInv /\ LaunchInv' /\ WithinBounds /\ WithinBounds' /\ [LaunchNext]_launchVars
      => [LockdropNext]_lockdropVars
  BY BoundedPart
<1> QED BY <1>1, LaunchInvariant, PTL DEF LaunchSpec, LaunchInit, LockdropSpec

\* In the launch the incentives cover the one time rewards of everybody who has
\* not been paid, for any lock weights, unless the lockups of a pool weigh more
\* than its total says: the shares of the pools are the auction's NTRN sizes,
\* and the auction cannot change them or the lockups once it has initialised
\* the pools.
THEOREM LaunchRewardsCovered == LaunchSpec => [](WeightsWithin => RewardsCovered)
<1>1. RewardInv => (WeightsWithin => RewardsCovered)
  BY DEF RewardInv
<1> QED BY <1>1, RewardInvariant, LaunchIsLockdrop, PTL
=============================================================================
