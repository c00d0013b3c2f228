--------------------------- MODULE AuctionProofs ---------------------------
(***************************************************************************)
(* Theorems about the auction contract, for all values of its parameters.   *)
(***************************************************************************)
EXTENDS Auction, TgeTheorems

\* Uint128 / Decimal gives a natural.
LEMMA DivFloorNat ==
    ASSUME NEW n \in Nat, NEW d \in Nat, d # 0
    PROVE  DivFloor(n, d) \in Nat
<1>1. n * DECIMAL_FRACTIONAL * DECIMAL_FRACTIONAL \in Nat
  BY ScaleAssumption, MulNat
<1>2. (n * DECIMAL_FRACTIONAL * DECIMAL_FRACTIONAL) \div d \in Nat
  BY <1>1, DivNat
<1> QED BY <1>2, ScaleAssumption, DivNat DEF DivFloor

\* After the withdrawal window nothing may be withdrawn.
LEMMA NothingAfterWindow ==
    ASSUME NEW n \in Nat, NEW t \in Nat, NEW cutoff \in Nat, NEW window \in Nat \ {0},
           t >= cutoff + window
    PROVE  MulFloor(n, WithdrawalPercent(t, cutoff, window)) = 0
<1>1. window \div 2 < window
  OBVIOUS
<1>2. WithdrawalPercent(t, cutoff, window) = FromRatio(0, 100)
  BY <1>1 DEF WithdrawalPercent
<1>3. FromRatio(0, 100) = 0
  BY ScaleAssumption DEF FromRatio
<1> QED BY <1>2, <1>3, ScaleAssumption DEF MulFloor

\* Half of a share of l LP tokens is a natural number, whatever the share.
LEMMA HalfShareNat ==
    ASSUME NEW l \in Nat, NEW d \in Nat, NEW t \in Nat
    PROVE  (IF t = 0 THEN 0 ELSE MulFloor(l, FromRatio(d, t)) \div 2) \in Nat
<1>1. CASE t = 0
  BY <1>1
<1>2. CASE t # 0
  <2>1. FromRatio(d, t) \in Nat
    BY <1>2, FromRatioNat
  <2>2. MulFloor(l, FromRatio(d, t)) \in Nat
    BY <2>1, MulFloorNat
  <2> QED BY <1>2, <2>2, DivNat
<1> QED BY <1>1, <1>2

\* A user's entitlement is a natural number in every well typed state.
LEMMA EntitlementNat ==
    ASSUME AuctionTypeOK, NEW u \in Users, NEW p \in PoolType
    PROVE  get_user_lp_info(u, p) \in Nat
<1>1. /\ lp_size[p] \in Nat
      /\ total_deposited[p] \in Nat
      /\ deposited[u][p] \in Nat
  BY DEF AuctionTypeOK
<1> QED BY <1>1, HalfShareNat DEF get_user_lp_info

\* The same in the next state.
LEMMA EntitlementNatNext ==
    ASSUME AuctionTypeOK', NEW u \in Users, NEW p \in PoolType
    PROVE  get_user_lp_info(u, p)' \in Nat
<1>1. /\ lp_size'[p] \in Nat
      /\ total_deposited'[p] \in Nat
      /\ deposited'[u][p] \in Nat
  BY DEF AuctionTypeOK
<1> QED BY <1>1, HalfShareNat DEF get_user_lp_info

\* The NTRN share of the USDC pool is a natural number when SetPoolSize
\* gets past its divisions.
LEMMA UsdcNtrnSizeNat ==
    ASSUME AuctionTypeOK, NEW reply \in FeedReplies, execute_set_pool_size(reply)
    PROVE  UsdcNtrnSize(reply) \in Nat
<1>1. reply[1].rate \in Nat /\ reply[2].rate \in Nat /\ reply[1].rate # 0
  BY FeedAssumption DEF execute_set_pool_size, UsableRates
<1> DEFINE rate == FromRatio(reply[2].rate, reply[1].rate)
           all  == total_deposited["USDC"] + DivFloor(total_deposited["ATOM"], rate)
<1>2. rate \in Nat /\ rate # 0
  BY <1>1, FromRatioNat DEF execute_set_pool_size, UsableRates
<1>3. /\ total_deposited["USDC"] \in Nat
      /\ total_deposited["ATOM"] \in Nat
      /\ ntrn \in Nat
  BY DEF AuctionTypeOK, PoolType
<1>4. DivFloor(total_deposited["ATOM"], rate) \in Nat
  BY <1>2, <1>3, DivFloorNat
<1>5. all \in Nat /\ all # 0
  BY <1>3, <1>4 DEF execute_set_pool_size, UsableRates
<1>6. FromRatio(total_deposited["USDC"], all) \in Nat
  BY <1>3, <1>5, FromRatioNat
<1> QED BY <1>3, <1>6, MulFloorNat DEF UsdcNtrnSize
-----------------------------------------------------------------------------
\* Initially the fields have their types.
LEMMA TypeInit == AuctionInit => AuctionTypeOK
BY WindowAssumption, AmountAssumption, NoneAssumption
   DEF AuctionInit, AuctionTypeOK, Senders, PoolType

\* Every step keeps the types.
LEMMA TypeStep == AuctionTypeOK /\ [AuctionNext]_auctionVars => AuctionTypeOK'
<1> SUFFICES ASSUME AuctionTypeOK, [AuctionNext]_auctionVars
             PROVE  AuctionTypeOK'
  OBVIOUS
<1> USE DEF AuctionTypeOK, stateVars, userVars, coinVars, lpVars
<1>1. CASE Tick
  BY <1>1 DEF Tick, NextBlock
<1>2. ASSUME NEW amount \in NtrnFunds, FundNtrn(amount)
      PROVE  AuctionTypeOK'
  BY <1>2, AmountAssumption DEF FundNtrn
<1>3. ASSUME NEW s \in Senders, NEW m \in UpdateConfigMsgs,
             execute_update_config(s, m)
      PROVE  AuctionTypeOK'
  <2>1. UNCHANGED <<now, stateVars, userVars, coinVars, lpVars>>
    BY <1>3 DEF execute_update_config
  <2>2. config' = [config EXCEPT
           !.owner     = IF m.owner = NONE THEN @ ELSE m.owner,
           !.lockdrop  = @ \/ m.lockdrop,
           !.pool_info = @ \/ m.pool_info,
           !.pack_size = IF m.pack_size = NONE THEN @ ELSE m.pack_size]
    BY <1>3 DEF execute_update_config
  <2>3. /\ m.owner \in Senders \cup {NONE} /\ m.pack_size \in Nat \cup {NONE}
        /\ m.lockdrop \in BOOLEAN /\ m.pool_info \in BOOLEAN
    BY MsgAssumption
  <2>4. PICK owner \in Senders, pack_size \in Nat, lockdrop \in BOOLEAN, pool_info \in BOOLEAN :
            config' = [config EXCEPT !.owner = owner, !.lockdrop = lockdrop,
                                     !.pool_info = pool_info, !.pack_size = pack_size]
    BY <2>2, <2>3
  <2>5. config' \in [owner : Senders, lockdrop : BOOLEAN, pool_info : BOOLEAN,
                     denoms : SUBSET PoolType, pack_size : Nat]
    BY <2>4
  <2> QED BY <2>1, <2>5
<1>4. ASSUME NEW s \in Senders, NEW m \in TokenInfoMsgs,
             execute_set_token_info(s, m)
      PROVE  AuctionTypeOK'
  BY <1>4, MsgAssumption DEF execute_set_token_info
<1>5. ASSUME NEW u \in Users, NEW funds \in AssetAmounts, execute_deposit(u, funds)
      PROVE  AuctionTypeOK'
  <2>11. funds \in [PoolType -> Nat]
    BY AmountAssumption DEF AssetAmounts
  <2>12. \A p \in PoolType : funds[p] \in Nat /\ wallet[u][p] \in Nat
    BY <2>11
  <2>1. /\ funds \in [PoolType -> Nat]
        /\ \A p \in PoolType : wallet[u][p] - funds[p] \in Nat
    BY <1>5, <2>11, <2>12 DEF execute_deposit
  <2>2. /\ total_deposited' \in [PoolType -> Nat]
        /\ bank' \in [PoolType -> Nat]
    BY <1>5, <2>1 DEF execute_deposit
  <2>3. [p \in PoolType |-> deposited[u][p] + funds[p]] \in [PoolType -> Nat]
    BY <2>1
  <2>4. deposited' \in [Users -> [PoolType -> Nat]]
    BY <1>5, <2>3 DEF execute_deposit
  <2>5. [p \in PoolType |-> wallet[u][p] - funds[p]] \in [PoolType -> Nat]
    BY <2>1
  <2>6. wallet' \in [Users -> [PoolType -> Nat]]
    BY <1>5, <2>5 DEF execute_deposit
  <2> QED BY <1>5, <2>2, <2>4, <2>6 DEF execute_deposit
<1>6. ASSUME NEW u \in Users, NEW amount \in AssetAmounts,
             execute_withdraw(u, amount)
      PROVE  AuctionTypeOK'
  <2>11. amount \in [PoolType -> Nat]
    BY AmountAssumption DEF AssetAmounts
  <2>12. \A p \in PoolType : /\ amount[p] \in Nat /\ total_deposited[p] \in Nat
                             /\ deposited[u][p] \in Nat /\ bank[p] \in Nat
    BY <2>11
  <2>1. /\ amount \in [PoolType -> Nat]
        /\ \A p \in PoolType : /\ total_deposited[p] - amount[p] \in Nat
                               /\ deposited[u][p] - amount[p] \in Nat
                               /\ bank[p] - amount[p] \in Nat
    BY <1>6, <2>11, <2>12 DEF execute_withdraw
  <2>2. /\ total_deposited' \in [PoolType -> Nat]
        /\ bank' \in [PoolType -> Nat]
    BY <1>6, <2>1 DEF execute_withdraw
  <2>3. [p \in PoolType |-> deposited[u][p] - amount[p]] \in [PoolType -> Nat]
    BY <2>1
  <2>4. deposited' \in [Users -> [PoolType -> Nat]]
    BY <1>6, <2>3 DEF execute_withdraw
  <2>5. [p \in PoolType |-> wallet[u][p] + amount[p]] \in [PoolType -> Nat]
    BY <2>1
  <2>6. wallet' \in [Users -> [PoolType -> Nat]]
    BY <1>6, <2>5 DEF execute_withdraw
  <2>7. withdrawn' \in [Users -> BOOLEAN]
    BY <1>6 DEF execute_withdraw
  <2> QED BY <1>6, <2>2, <2>4, <2>6, <2>7 DEF execute_withdraw
<1>7. ASSUME NEW reply \in FeedReplies, execute_set_pool_size(reply)
      PROVE  AuctionTypeOK'
  <2>1. UsdcNtrnSize(reply) \in Nat
    BY <1>7, UsdcNtrnSizeNat
  <2>2. ntrn_size' \in [PoolType -> Nat]
    BY <1>7, <2>1 DEF execute_set_pool_size
  <2>3. PICK atom_lp \in get_lp_size(ntrn - UsdcNtrnSize(reply), total_deposited["ATOM"]),
             usdc_lp \in get_lp_size(UsdcNtrnSize(reply), total_deposited["USDC"]) :
             lp_size' = [p \in PoolType |-> IF p = "USDC" THEN usdc_lp ELSE atom_lp]
    BY <1>7 DEF execute_set_pool_size
  <2>4. atom_lp \in Nat /\ usdc_lp \in Nat
    BY AmountAssumption DEF get_lp_size, integer_sqrt
  <2>5. lp_size' \in [PoolType -> Nat]
    BY <2>3, <2>4
  <2> QED BY <1>7, <2>2, <2>5 DEF execute_set_pool_size
<1>8. CASE execute_migrate_to_vesting
  <2>1. PICK pack \in SUBSET Unvested :
          /\ IsPack(pack)
          /\ pack # {}
          /\ \A u \in pack, p \in PoolType :
                 user_lp_locked[u][p] <= get_user_lp_info(u, p)
          /\ \E atom \in 0..lp_balance["ATOM"], usdc \in 0..lp_balance["USDC"] :
               /\ atom = SumOver([u \in pack |-> VestAmount(u, "ATOM")], pack)
               /\ usdc = SumOver([u \in pack |-> VestAmount(u, "USDC")], pack)
               /\ lp_balance' = [p \in PoolType |->
                     lp_balance[p] - (IF p = "USDC" THEN usdc ELSE atom)]
          /\ vesting_lp' = [u \in Users |->
                 IF u \in pack
                 THEN [p \in PoolType |-> vesting_lp[u][p] + VestAmount(u, p)]
                 ELSE vesting_lp[u]]
          /\ is_vested' = [u \in Users |-> u \in pack \/ is_vested[u]]
    BY <1>8, Zenon DEF execute_migrate_to_vesting
  <2>2. lp_balance' \in [PoolType -> Nat]
    BY <2>1 DEF PoolType
  <2>3. ASSUME NEW u \in Users, u \in pack
        PROVE  [p \in PoolType |-> vesting_lp[u][p] + VestAmount(u, p)]
                   \in [PoolType -> Nat]
    BY <2>1, <2>3, EntitlementNat DEF VestAmount
  <2>4. vesting_lp' \in [Users -> [PoolType -> Nat]]
    BY <2>1, <2>3
  <2>5. is_vested' \in [Users -> BOOLEAN]
    BY <2>1
  <2> QED BY <1>8, <2>2, <2>4, <2>5 DEF execute_migrate_to_vesting
<1>9. ASSUME NEW u \in Users, NEW p \in PoolType, NEW amount \in LpAmounts,
             execute_lock_lp_tokens(u, p, amount)
      PROVE  AuctionTypeOK'
  BY <1>9, AmountAssumption DEF execute_lock_lp_tokens
<1>10. ASSUME NEW u \in Users, NEW p \in PoolType, NEW amount \in LpAmounts,
              execute_withdraw_lp_tokens(u, p, amount)
       PROVE  AuctionTypeOK'
  BY <1>10, AmountAssumption DEF execute_withdraw_lp_tokens
<1>11. CASE execute_init_pool
  BY <1>11 DEF execute_init_pool, PoolType
<1>12. CASE UNCHANGED auctionVars
  BY <1>12 DEF auctionVars
<1> QED
  BY <1>1, <1>2, <1>3, <1>4, <1>5, <1>6, <1>7, <1>8, <1>9, <1>10, <1>11, <1>12
     DEF AuctionNext, AuctionStep

\* The fields keep their types and no balance of the contract, of a user or of
\* vesting ever becomes negative, whatever the windows, amounts and replies of
\* the price feed are.
THEOREM AuctionTypeCorrect == AuctionSpec => []AuctionTypeOK
<1>1. AuctionInit => AuctionTypeOK
  BY TypeInit
<1>2. AuctionTypeOK /\ [AuctionNext]_auctionVars => AuctionTypeOK'
  BY TypeStep
<1> QED BY <1>1, <1>2, PTL DEF AuctionSpec
-----------------------------------------------------------------------------
(***************************************************************************)
(* The inductive invariant. That nobody is locked beyond the entitlement    *)
(* follows from the guard of LockLp only as long as the entitlement itself   *)
(* stands still, that is, as long as deposits and sizes do; and that is a    *)
(* matter of the order of the phases.                                       *)
(***************************************************************************)
AuctionInv ==
    AuctionTypeOK /\ PhaseOrder /\ LockedWithinEntitlement /\ EntitlementDelivered

\* Each window ends no earlier than the one before it.
LEMMA WindowsOrdered ==
    /\ DepositEnd \in Nat /\ WithdrawalEnd \in Nat /\ LockEnd \in Nat
    /\ DepositEnd < WithdrawalEnd /\ WithdrawalEnd <= LockEnd
BY WindowAssumption DEF DepositEnd, WithdrawalEnd, LockEnd

\* Until a pool has its NTRN size nothing is locked, vested or sized.
LEMMA NothingBeforeSizes ==
    ASSUME AuctionInv, \A p \in PoolType : ntrn_size[p] = 0,
           \A u \in Users : ~is_vested[u]
    PROVE  \A p \in PoolType : /\ lp_size[p] = 0
                               /\ \A u \in Users : /\ user_lp_locked[u][p] = 0
                                                   /\ vesting_lp[u][p] = 0
BY DEF AuctionInv, PhaseOrder, EntitlementDelivered

\* Nobody is migrated while the pools are not initialised.
LEMMA NobodyVested ==
    ASSUME AuctionInv,
           now < LockEnd \/ \E p \in PoolType : lp_minted[p] = NONE
    PROVE  \A u \in Users : ~is_vested[u]
<1>1. now \in Nat
  BY DEF AuctionInv, AuctionTypeOK
<1> QED BY <1>1, WindowsOrdered DEF AuctionInv, PhaseOrder

\* Before the end of the withdrawal window there are no sizes.
LEMMA NoSizesInWindows ==
    ASSUME AuctionInv, now < WithdrawalEnd
    PROVE  /\ \A p \in PoolType : ntrn_size[p] = 0
           /\ \A u \in Users : ~is_vested[u]
<1>1. now \in Nat
  BY DEF AuctionInv, AuctionTypeOK
<1>2. \A p \in PoolType : ntrn_size[p] = 0
  BY <1>1, WindowsOrdered DEF AuctionInv, PhaseOrder
<1>3. now < LockEnd
  BY <1>1, WindowsOrdered
<1> QED BY <1>2, <1>3, NobodyVested

\* A withdrawal of something happens inside the windows.
LEMMA WithdrawInWindow ==
    ASSUME AuctionTypeOK, NEW u \in Users, NEW amount \in AssetAmounts,
           execute_withdraw(u, amount)
    PROVE  now < WithdrawalEnd
<1>1. SUFFICES ASSUME now >= WithdrawalEnd PROVE FALSE
  BY WindowsOrdered DEF AuctionTypeOK
<1>2. ASSUME NEW p \in PoolType
      PROVE  amount[p] = 0
  <2>11. amount \in [PoolType -> Nat]
    BY AmountAssumption DEF AssetAmounts
  <2>1. amount[p] \in Nat /\ deposited[u][p] \in Nat /\ now \in Nat
    BY <2>11 DEF AuctionTypeOK
  <2>2. MulFloor(deposited[u][p], allowed_withdrawal_percent) = 0
    <3>1. DepositEnd \in Nat /\ WITHDRAWAL_WINDOW \in Nat \ {0}
      BY WindowsOrdered, WindowAssumption
    <3>2. now >= DepositEnd + WITHDRAWAL_WINDOW
      BY <1>1 DEF WithdrawalEnd
    <3>3. MulFloor(deposited[u][p],
                   WithdrawalPercent(now, DepositEnd, WITHDRAWAL_WINDOW)) = 0
      BY <2>1, <3>1, <3>2, NothingAfterWindow
    <3> QED BY <3>3 DEF allowed_withdrawal_percent
  <2>3. amount[p] <= MulFloor(deposited[u][p], allowed_withdrawal_percent)
    BY DEF execute_withdraw
  <2> QED BY <2>1, <2>2, <2>3
<1> QED BY <1>2 DEF execute_withdraw

\* No LP tokens come out of a pool without NTRN.
LEMMA NoLpWithoutNtrn ==
    ASSUME NEW d \in Nat, NEW lp \in get_lp_size(0, d)
    PROVE  lp = 0
<1>1. 0 * d = 0
  OBVIOUS
<1>2. integer_sqrt(0) = {0}
  BY DEF integer_sqrt
<1> QED BY <1>1, <1>2, AmountAssumption DEF get_lp_size

\* A step that moves neither sizes nor deposits, nor what users have locked or
\* vested, keeps the entitlement properties.
LEMMA EntitlementsUnmoved ==
    ASSUME AuctionInv,
           UNCHANGED <<lp_size, total_deposited, deposited, user_lp_locked,
                       vesting_lp, is_vested>>
    PROVE  LockedWithinEntitlement' /\ EntitlementDelivered'
BY DEF AuctionInv, LockedWithinEntitlement, EntitlementDelivered, VestAmount,
       get_user_lp_info

\* A step in whose outcome nothing is locked and nothing vested keeps them too.
LEMMA NothingLocked ==
    ASSUME AuctionTypeOK',
           \A u \in Users, p \in PoolType :
               user_lp_locked'[u][p] = 0 /\ vesting_lp'[u][p] = 0,
           \A u \in Users : ~is_vested'[u]
    PROVE  LockedWithinEntitlement' /\ EntitlementDelivered'
<1>1. ASSUME NEW u \in Users, NEW p \in PoolType
      PROVE  user_lp_locked'[u][p] <= get_user_lp_info(u, p)'
  <2>1. get_user_lp_info(u, p)' \in Nat
    BY EntitlementNatNext
  <2> QED BY <2>1
<1> QED BY <1>1 DEF LockedWithinEntitlement, EntitlementDelivered

\* The phase order looks only at the clock and at these variables.
LEMMA PhaseOrderUnmoved ==
    ASSUME AuctionInv, now' \in Nat, now <= now',
           UNCHANGED <<lp_size, ntrn_size, user_lp_locked, lp_minted,
                       pool_init_timestamp, is_vested>>
    PROVE  PhaseOrder'
<1>1. now \in Nat
  BY DEF AuctionInv, AuctionTypeOK
<1> QED BY <1>1, WindowsOrdered
        DEF AuctionInv, PhaseOrder, DepositEnd, WithdrawalEnd, LockEnd

\* Initially the invariant holds.
LEMMA AuctionInvInit == AuctionInit => AuctionInv
<1> SUFFICES ASSUME AuctionInit PROVE AuctionInv
  OBVIOUS
<1>1. AuctionTypeOK
  BY TypeInit
<1>2. PhaseOrder
  BY DEF AuctionInit, PhaseOrder
<1>3. LockedWithinEntitlement
  BY DEF AuctionInit, LockedWithinEntitlement, get_user_lp_info
<1>4. EntitlementDelivered
  BY DEF AuctionInit, EntitlementDelivered
<1> QED BY <1>1, <1>2, <1>3, <1>4 DEF AuctionInv

\* Every step keeps the invariant.
LEMMA AuctionInvStep == AuctionInv /\ [AuctionNext]_auctionVars => AuctionInv'
<1> SUFFICES ASSUME AuctionInv, [AuctionNext]_auctionVars
             PROVE  AuctionInv'
  OBVIOUS
<1>0. AuctionTypeOK /\ AuctionTypeOK'
  BY TypeStep DEF AuctionInv
<1>13. now \in Nat /\ now' \in Nat
  BY <1>0 DEF AuctionTypeOK
<1> SUFFICES PhaseOrder' /\ LockedWithinEntitlement' /\ EntitlementDelivered'
  BY <1>0 DEF AuctionInv
<1>1. CASE Tick
  <2>1. now <= now' /\ UNCHANGED <<stateVars, userVars, lpVars>>
    BY <1>1, <1>13 DEF Tick, NextBlock
  <2> QED BY <2>1, <1>13, PhaseOrderUnmoved, EntitlementsUnmoved
          DEF stateVars, userVars, lpVars
<1>2. ASSUME NEW amount \in NtrnFunds, FundNtrn(amount)
      PROVE  PhaseOrder' /\ LockedWithinEntitlement' /\ EntitlementDelivered'
  <2>1. now <= now' /\ UNCHANGED <<stateVars, userVars, lpVars>>
    BY <1>2, <1>13 DEF FundNtrn
  <2> QED BY <2>1, <1>13, PhaseOrderUnmoved, EntitlementsUnmoved
          DEF stateVars, userVars, lpVars
<1>3. ASSUME NEW s \in Senders, NEW m \in UpdateConfigMsgs,
             execute_update_config(s, m)
      PROVE  PhaseOrder' /\ LockedWithinEntitlement' /\ EntitlementDelivered'
  <2>1. now <= now' /\ UNCHANGED <<stateVars, userVars, lpVars>>
    BY <1>3, <1>13 DEF execute_update_config
  <2> QED BY <2>1, <1>13, PhaseOrderUnmoved, EntitlementsUnmoved
          DEF stateVars, userVars, lpVars
<1>4. ASSUME NEW s \in Senders, NEW m \in TokenInfoMsgs,
             execute_set_token_info(s, m)
      PROVE  PhaseOrder' /\ LockedWithinEntitlement' /\ EntitlementDelivered'
  <2>1. now <= now' /\ UNCHANGED <<stateVars, userVars, lpVars>>
    BY <1>4, <1>13 DEF execute_set_token_info
  <2> QED BY <2>1, <1>13, PhaseOrderUnmoved, EntitlementsUnmoved
          DEF stateVars, userVars, lpVars
<1>5. ASSUME NEW u \in Users, NEW funds \in AssetAmounts, execute_deposit(u, funds)
      PROVE  PhaseOrder' /\ LockedWithinEntitlement' /\ EntitlementDelivered'
  <2>1. now < WithdrawalEnd
    BY <1>5, <1>13, WindowsOrdered DEF execute_deposit, is_deposit_open
  <2>2. /\ \A p \in PoolType : ntrn_size[p] = 0
        /\ \A v \in Users : ~is_vested[v]
    BY <2>1, NoSizesInWindows
  <2>3. /\ now <= now'
        /\ UNCHANGED <<lp_size, ntrn_size, user_lp_locked, lp_minted,
                       pool_init_timestamp, is_vested, vesting_lp>>
    BY <1>5, <1>13 DEF execute_deposit, lpVars
  <2>4. PhaseOrder'
    BY <2>3, <1>13, PhaseOrderUnmoved
  <2>5. \A v \in Users, p \in PoolType :
            user_lp_locked'[v][p] = 0 /\ vesting_lp'[v][p] = 0
    BY <2>2, <2>3, NothingBeforeSizes
  <2> QED BY <2>2, <2>3, <2>4, <2>5, <1>0, NothingLocked
<1>6. ASSUME NEW u \in Users, NEW amount \in AssetAmounts,
             execute_withdraw(u, amount)
      PROVE  PhaseOrder' /\ LockedWithinEntitlement' /\ EntitlementDelivered'
  <2>1. now < WithdrawalEnd
    BY <1>6, <1>0, WithdrawInWindow
  <2>2. /\ \A p \in PoolType : ntrn_size[p] = 0
        /\ \A v \in Users : ~is_vested[v]
    BY <2>1, NoSizesInWindows
  <2>3. /\ now <= now'
        /\ UNCHANGED <<lp_size, ntrn_size, user_lp_locked, lp_minted,
                       pool_init_timestamp, is_vested, vesting_lp>>
    BY <1>6, <1>13 DEF execute_withdraw, lpVars
  <2>4. PhaseOrder'
    BY <2>3, <1>13, PhaseOrderUnmoved
  <2>5. \A v \in Users, p \in PoolType :
            user_lp_locked'[v][p] = 0 /\ vesting_lp'[v][p] = 0
    BY <2>2, <2>3, NothingBeforeSizes
  <2> QED BY <2>2, <2>3, <2>4, <2>5, <1>0, NothingLocked
<1>7. ASSUME NEW reply \in FeedReplies, execute_set_pool_size(reply)
      PROVE  PhaseOrder' /\ LockedWithinEntitlement' /\ EntitlementDelivered'
  <2>1. /\ \A p \in PoolType : lp_minted[p] = NONE /\ ntrn_size[p] = 0
        /\ now >= WithdrawalEnd
        /\ UNCHANGED <<now, user_lp_locked, is_vested, vesting_lp, lp_minted,
                       pool_init_timestamp, total_deposited>>
    BY <1>7 DEF execute_set_pool_size, are_windows_closed, userVars, lpVars
  <2>2. \A v \in Users : ~is_vested[v]
    BY <2>1, NobodyVested DEF PoolType
  <2>3. \A v \in Users, p \in PoolType :
            user_lp_locked[v][p] = 0 /\ vesting_lp[v][p] = 0
    BY <2>1, <2>2, NothingBeforeSizes
  <2>4. LockedWithinEntitlement' /\ EntitlementDelivered'
    BY <2>1, <2>2, <2>3, <1>0, NothingLocked
  <2>5. UsdcNtrnSize(reply) \in Nat
    BY <1>7, <1>0, UsdcNtrnSizeNat
  <2>6. PICK atom_lp \in get_lp_size(ntrn - UsdcNtrnSize(reply), total_deposited["ATOM"]),
             usdc_lp \in get_lp_size(UsdcNtrnSize(reply), total_deposited["USDC"]) :
             lp_size' = [p \in PoolType |-> IF p = "USDC" THEN usdc_lp ELSE atom_lp]
    BY <1>7 DEF execute_set_pool_size
  <2>7. ntrn_size' = [p \in PoolType |-> IF p = "USDC" THEN UsdcNtrnSize(reply)
                                         ELSE ntrn - UsdcNtrnSize(reply)]
    BY <1>7 DEF execute_set_pool_size
  <2>8. total_deposited["ATOM"] \in Nat /\ total_deposited["USDC"] \in Nat
    BY <1>0 DEF AuctionTypeOK, PoolType
  <2>9. UsdcNtrnSize(reply) = 0 => usdc_lp = 0
    BY <2>6, <2>8, NoLpWithoutNtrn
  <2>10. ntrn - UsdcNtrnSize(reply) = 0 => atom_lp = 0
    BY <2>6, <2>8, NoLpWithoutNtrn
  <2>11. \A p \in PoolType : lp_size'[p] # 0 => ntrn_size'[p] # 0
    BY <2>6, <2>7, <2>9, <2>10 DEF PoolType
  <2>12. pool_init_timestamp = 0
    BY <2>1 DEF AuctionInv, PhaseOrder, PoolType
  <2>13. PhaseOrder'
    BY <2>1, <2>2, <2>3, <2>11, <2>12 DEF PhaseOrder, WithdrawalEnd, DepositEnd
  <2> QED BY <2>4, <2>13
<1>8. CASE execute_migrate_to_vesting
  <2>1. PICK pack \in SUBSET Unvested :
          /\ vesting_lp' = [u \in Users |->
                 IF u \in pack
                 THEN [p \in PoolType |-> vesting_lp[u][p] + VestAmount(u, p)]
                 ELSE vesting_lp[u]]
          /\ is_vested' = [u \in Users |-> u \in pack \/ is_vested[u]]
    BY <1>8, Zenon DEF execute_migrate_to_vesting
  <2>2. /\ pool_init_timestamp # 0
        /\ UNCHANGED <<now, lp_size, ntrn_size, lp_minted, pool_init_timestamp,
                       total_deposited, deposited, user_lp_locked>>
    BY <1>8 DEF execute_migrate_to_vesting, stateVars
  <2>3. PhaseOrder'
    BY <2>2 DEF AuctionInv, PhaseOrder, DepositEnd, WithdrawalEnd, LockEnd
  <2>4. LockedWithinEntitlement'
    BY <2>2 DEF AuctionInv, LockedWithinEntitlement, get_user_lp_info
  <2>5. ASSUME NEW u \in Users, NEW p \in PoolType
        PROVE  vesting_lp'[u][p] = IF is_vested'[u] THEN VestAmount(u, p)' ELSE 0
    <3>1. VestAmount(u, p)' = VestAmount(u, p)
      BY <2>2 DEF VestAmount, get_user_lp_info
    <3>2. vesting_lp[u][p] = IF is_vested[u] THEN VestAmount(u, p) ELSE 0
      BY DEF AuctionInv, EntitlementDelivered
    <3>3. VestAmount(u, p) \in Int
      <4>1. get_user_lp_info(u, p) \in Nat
        BY <1>0, EntitlementNat
      <4>2. user_lp_locked[u][p] \in Nat
        BY <1>0 DEF AuctionTypeOK
      <4> QED BY <4>1, <4>2 DEF VestAmount
    <3>4. CASE u \in pack
      <4>1. ~is_vested[u] /\ is_vested'[u]
        BY <2>1, <3>4 DEF Unvested
      <4>2. vesting_lp'[u][p] = vesting_lp[u][p] + VestAmount(u, p)
        BY <2>1, <3>4
      <4> QED BY <3>1, <3>2, <3>3, <4>1, <4>2
    <3>5. CASE u \notin pack
      BY <2>1, <3>1, <3>2, <3>5
    <3> QED BY <3>4, <3>5
  <2> QED BY <2>3, <2>4, <2>5 DEF EntitlementDelivered
<1>9. ASSUME NEW u \in Users, NEW p \in PoolType, NEW amount \in LpAmounts,
             \/ execute_lock_lp_tokens(u, p, amount)
             \/ execute_withdraw_lp_tokens(u, p, amount)
      PROVE  PhaseOrder' /\ LockedWithinEntitlement' /\ EntitlementDelivered'
  <2>1. /\ now < LockEnd
        /\ \A q \in PoolType : ntrn_size[q] # 0
        /\ UNCHANGED <<now, lp_size, ntrn_size, lp_minted, pool_init_timestamp,
                       total_deposited, deposited, is_vested, vesting_lp>>
    BY <1>9, <1>13, WindowsOrdered
       DEF execute_lock_lp_tokens, execute_withdraw_lp_tokens, LockWindowOpen,
           is_lock_window_closed, lpVars
  <2>2. \A v \in Users : ~is_vested[v]
    BY <2>1, NobodyVested
  <2>3. PhaseOrder'
    BY <2>1, <2>2 DEF AuctionInv, PhaseOrder, DepositEnd, WithdrawalEnd, LockEnd
  <2>4. EntitlementDelivered'
    BY <2>1, <2>2 DEF AuctionInv, EntitlementDelivered
  <2>5. ASSUME NEW v \in Users, NEW q \in PoolType
        PROVE  user_lp_locked'[v][q] <= get_user_lp_info(v, q)
    <3>1. /\ amount \in Nat
          /\ user_lp_locked[v][q] \in Nat /\ user_lp_locked[u][p] \in Nat
      BY <1>0, AmountAssumption DEF AuctionTypeOK
    <3>2. get_user_lp_info(v, q) \in Nat
      BY <1>0, EntitlementNat
    <3>3. user_lp_locked[v][q] <= get_user_lp_info(v, q)
      BY DEF AuctionInv, LockedWithinEntitlement
    <3>4. CASE v # u \/ q # p
      <4>1. user_lp_locked'[v][q] = user_lp_locked[v][q]
        BY <1>9, <1>0, <3>4
           DEF AuctionTypeOK, execute_lock_lp_tokens, execute_withdraw_lp_tokens
      <4> QED BY <4>1, <3>3
    <3>5. CASE v = u /\ q = p
      <4>1. CASE execute_lock_lp_tokens(u, p, amount)
        <5>1. user_lp_locked'[u][p] = user_lp_locked[u][p] + amount
          BY <4>1, <1>0 DEF AuctionTypeOK, execute_lock_lp_tokens
        <5>2. amount <= get_user_lp_info(u, p) - user_lp_locked[u][p]
          BY <4>1 DEF execute_lock_lp_tokens
        <5> QED BY <3>1, <3>2, <3>5, <5>1, <5>2
      <4>2. CASE execute_withdraw_lp_tokens(u, p, amount)
        <5>1. user_lp_locked'[u][p] = user_lp_locked[u][p] - amount
          BY <4>2, <1>0 DEF AuctionTypeOK, execute_withdraw_lp_tokens
        <5> QED BY <3>1, <3>2, <3>3, <3>5, <5>1
      <4> QED BY <1>9, <4>1, <4>2
    <3> QED BY <3>4, <3>5
  <2>6. LockedWithinEntitlement'
    BY <2>1, <2>5 DEF LockedWithinEntitlement, get_user_lp_info
  <2> QED BY <2>3, <2>4, <2>6
<1>10. CASE execute_init_pool
  <2>1. /\ \A p \in PoolType : lp_minted[p] = NONE
        /\ now >= LockEnd
        /\ lp_minted' = lp_size
        /\ pool_init_timestamp' = now
        /\ UNCHANGED <<now, lp_size, ntrn_size, total_deposited, deposited,
                       user_lp_locked, is_vested, vesting_lp>>
    BY <1>10 DEF execute_init_pool, is_lock_window_closed, userVars
  <2>2. \A v \in Users : ~is_vested[v]
    BY <2>1, NobodyVested DEF PoolType
  <2>3. \A p \in PoolType : lp_minted'[p] # NONE
    BY <2>1, <1>0, NoneAssumption DEF AuctionTypeOK
  <2>4. PhaseOrder'
    BY <2>1, <2>2, <2>3 DEF AuctionInv, PhaseOrder, DepositEnd, WithdrawalEnd, LockEnd
  <2> QED BY <2>1, <2>4, EntitlementsUnmoved
<1>11. CASE UNCHANGED auctionVars
  <2>1. now <= now' /\ UNCHANGED <<stateVars, userVars, lpVars>>
    BY <1>11, <1>13 DEF auctionVars
  <2> QED BY <2>1, <1>13, PhaseOrderUnmoved, EntitlementsUnmoved
          DEF stateVars, userVars, lpVars
<1> QED
  BY <1>1, <1>2, <1>3, <1>4, <1>5, <1>6, <1>7, <1>8, <1>9, <1>10, <1>11
     DEF AuctionNext, AuctionStep

\* The invariant holds in every reachable state.
THEOREM AuctionInvariant == AuctionSpec => []AuctionInv
<1>1. AuctionInit => AuctionInv
  BY AuctionInvInit
<1>2. AuctionInv /\ [AuctionNext]_auctionVars => AuctionInv'
  BY AuctionInvStep
<1> QED BY <1>1, <1>2, PTL DEF AuctionSpec

\* Whatever the windows, deposits, prices and rounding: no user ever has more
\* LP tokens locked than the entitlement, so LockLp and MigrateToVesting never
\* panic on the difference.
THEOREM LockedWithinEntitlementAlways == AuctionSpec => []LockedWithinEntitlement
<1>1. AuctionInv => LockedWithinEntitlement
  BY DEF AuctionInv
<1> QED BY <1>1, AuctionInvariant, PTL

\* MigrateToVesting gives each user exactly the entitlement that is not
\* locked, once.
THEOREM EntitlementDeliveredAlways == AuctionSpec => []EntitlementDelivered
<1>1. AuctionInv => EntitlementDelivered
  BY DEF AuctionInv
<1> QED BY <1>1, AuctionInvariant, PTL

\* The phases of the launch follow one another.
THEOREM PhaseOrderAlways == AuctionSpec => []PhaseOrder
<1>1. AuctionInv => PhaseOrder
  BY DEF AuctionInv
<1> QED BY <1>1, AuctionInvariant, PTL

\* After SetPoolSize neither the sizes nor the deposits they were computed from
\* ever move, for every length of the windows and every withdrawal percentage.
THEOREM PoolSizeFrozenAlways == AuctionSpec => PoolSizeFrozen
<1>1. ASSUME AuctionInv, AuctionNext, \E p \in PoolType : lp_size[p] # 0
      PROVE  UNCHANGED <<ntrn_size, lp_size, total_deposited, deposited>>
  <2>1. now \in Nat /\ AuctionTypeOK
    BY <1>1 DEF AuctionInv, AuctionTypeOK
  <2>2. \E p \in PoolType : ntrn_size[p] # 0
    BY <1>1 DEF AuctionInv, PhaseOrder
  <2>3. ~(now < WithdrawalEnd)
    BY <1>1, <2>2, NoSizesInWindows
  <2>4. \A u \in Users, funds \in AssetAmounts : ~execute_deposit(u, funds)
    BY <2>1, <2>3, WindowsOrdered DEF execute_deposit, is_deposit_open
  <2>5. \A u \in Users, amount \in AssetAmounts : ~execute_withdraw(u, amount)
    BY <2>1, <2>3, WithdrawInWindow
  <2>6. \A reply \in FeedReplies : ~execute_set_pool_size(reply)
    BY <2>2 DEF execute_set_pool_size
  <2> QED BY <1>1, <2>4, <2>5, <2>6
          DEF AuctionNext, AuctionStep, Tick, FundNtrn, execute_update_config,
              execute_set_token_info, execute_migrate_to_vesting,
              execute_lock_lp_tokens, execute_withdraw_lp_tokens,
              execute_init_pool, stateVars, userVars
<1>2. AuctionInv /\ [AuctionNext]_auctionVars =>
         [(\E p \in PoolType : lp_size[p] # 0) =>
             UNCHANGED <<ntrn_size, lp_size, total_deposited, deposited>>]_auctionVars
  BY <1>1
<1> QED BY <1>2, AuctionInvariant, PTL DEF AuctionSpec, PoolSizeFrozen
-----------------------------------------------------------------------------
(***************************************************************************)
(* The ledgers. LpSolvent is not inductive by itself: that the pools cover  *)
(* what will be vested follows, until they are initialised, from what the   *)
(* entitlements are computed from (the deposits, whose sum is the divisor),  *)
(* and later from what InitPool left and MigrateToVesting takes. A user      *)
(* without a record must have nothing, or the sums over all users and over   *)
(* the recorded ones would differ.                                          *)
(***************************************************************************)
StrangersHaveNothing ==
    \A u \in Users \ known, p \in PoolType :
        user_lp_locked[u][p] = 0

\* The inductive invariant of the theorems about sums over the users.
LedgerInv == AuctionInv /\ DepositsBacked /\ StrangersHaveNothing /\ LpSolvent

\* Whatever the deposits are, the entitlements, each rounded down three times,
\* add up to no more than half of the LP tokens of the pool.
LEMMA EntitlementsWithinHalf ==
    ASSUME AuctionTypeOK, NEW p \in PoolType,
           total_deposited[p] = SumOver([u \in Users |-> deposited[u][p]], Users)
    PROVE  SumOver([u \in Users |-> get_user_lp_info(u, p)], Users) <= lp_size[p] \div 2
<1> DEFINE D == total_deposited[p]
           L == lp_size[p]
           S == DECIMAL_FRACTIONAL
           dep  == [u \in Users |-> deposited[u][p]]
           rat  == [u \in Users |-> FromRatio(dep[u], D)]
           shr  == [u \in Users |-> MulFloor(L, rat[u])]
           ent  == [u \in Users |-> get_user_lp_info(u, p)]
<1>1. /\ D \in Nat /\ L \in Nat /\ S \in Nat \ {0}
      /\ \A u \in Users : dep[u] \in Nat /\ dep[u] = deposited[u][p]
  BY ScaleAssumption DEF AuctionTypeOK
<1>2. L \div 2 \in Nat
  BY <1>1, DivNat
<1>3. CASE D = 0
  <2>1. \A u \in Users : ent[u] = 0
    BY <1>3 DEF get_user_lp_info
  <2> HIDE DEF ent
  <2>2. SumOver(ent, Users) = 0
    BY <2>1, UsersFinite, SumZero
  <2> QED BY <1>2, <2>2 DEF ent
<1>4. CASE D # 0
  <2>1. \A u \in Users : rat[u] \in Nat /\ D * rat[u] <= S * dep[u]
    <3> SUFFICES ASSUME NEW u \in Users PROVE rat[u] \in Nat /\ D * rat[u] <= S * dep[u]
      OBVIOUS
    <3>1. rat[u] = (dep[u] * S) \div D
      BY DEF FromRatio
    <3>2. dep[u] * S \in Nat /\ dep[u] * S = S * dep[u]
      BY <1>1
    <3> HIDE DEF rat, dep, D, S
    <3> QED BY <1>1, <1>4, <3>1, <3>2, QuotientBelow
  <2>2. \A u \in Users : shr[u] \in Nat /\ S * shr[u] <= L * rat[u]
    <3> SUFFICES ASSUME NEW u \in Users PROVE shr[u] \in Nat /\ S * shr[u] <= L * rat[u]
      OBVIOUS
    <3>1. shr[u] = (L * rat[u]) \div S
      BY DEF MulFloor
    <3> HIDE DEF rat, shr, L, S
    <3>2. L * rat[u] \in Nat
      BY <1>1, <2>1
    <3> QED BY <1>1, <3>1, <3>2, QuotientBelow
  <2>3. \A u \in Users : ent[u] \in Nat /\ 2 * ent[u] <= 1 * shr[u]
    <3> SUFFICES ASSUME NEW u \in Users PROVE ent[u] \in Nat /\ 2 * ent[u] <= 1 * shr[u]
      OBVIOUS
    <3>1. ent[u] = shr[u] \div 2
      BY <1>1, <1>4 DEF get_user_lp_info
    <3> HIDE DEF ent, shr
    <3> QED BY <2>2, <3>1, QuotientBelow
  <2>4. SumOver(dep, Users) = D
    OBVIOUS
  <2> HIDE DEF dep, rat, shr, ent, D, L, S
  <2>5. D * SumOver(rat, Users) <= S * D
    BY <1>1, <2>1, <2>4, UsersFinite, SumOfParts
  <2>6. S * SumOver(shr, Users) <= L * SumOver(rat, Users)
    BY <1>1, <2>1, <2>2, UsersFinite, SumOfParts
  <2>7. 2 * SumOver(ent, Users) <= 1 * SumOver(shr, Users)
    BY <2>2, <2>3, UsersFinite, SumOfParts
  <2>8. /\ SumOver(rat, Users) \in Nat /\ SumOver(shr, Users) \in Nat
        /\ SumOver(ent, Users) \in Nat
    BY <2>1, <2>2, <2>3, UsersFinite, SumNat
  <2>9. SumOver(rat, Users) <= S
    <3>1. S * D = D * S
      BY <1>1
    <3> QED BY <1>1, <1>4, <2>5, <2>8, <3>1, ProductCancel
  <2>10. L * SumOver(rat, Users) <= L * S /\ L * S = S * L
    <3>1. PICK z \in Nat : S = SumOver(rat, Users) + z
      <4>1. S - SumOver(rat, Users) \in Nat
            /\ S = SumOver(rat, Users) + (S - SumOver(rat, Users))
        BY <1>1, <2>8, <2>9
      <4> QED BY <4>1
    <3>2. L * (SumOver(rat, Users) + z) = L * SumOver(rat, Users) + L * z
          /\ L * SumOver(rat, Users) \in Nat /\ L * z \in Nat
      BY <1>1, <2>8, Distributive
    <3>3. L * S = S * L
      BY <1>1
    <3>4. L * SumOver(rat, Users) <= L * (SumOver(rat, Users) + z)
      BY <3>2
    <3> QED BY <3>1, <3>3, <3>4
  <2>11. SumOver(shr, Users) <= L
    <3>1. /\ S * SumOver(shr, Users) \in Nat /\ L * SumOver(rat, Users) \in Nat
          /\ S * L \in Nat
      BY <1>1, <2>8
    <3>2. S * SumOver(shr, Users) <= S * L
      BY <2>6, <2>10, <3>1
    <3> QED BY <1>1, <2>8, <3>2, ProductCancel
  <2>12. SumOver(ent, Users) <= L \div 2
    BY <1>1, <2>7, <2>8, <2>11
  <2> QED BY <2>12 DEF ent, L
<1> QED BY <1>3, <1>4

\* The vectors whose sums the ledgers are.
Deposits(p) == [u \in Users |-> deposited[u][p]]
Locked(p)   == [u \in Users |-> user_lp_locked[u][p]]
ToVest(p)   == [u \in Users |-> VestAmount(u, p)]

\* The amounts to be vested are natural numbers.
LEMMA ToVestNat ==
    ASSUME AuctionInv, NEW p \in PoolType
    PROVE  \A u \in Users : ToVest(p)[u] \in Nat
<1> SUFFICES ASSUME NEW u \in Users PROVE ToVest(p)[u] \in Nat
  OBVIOUS
<1>1. get_user_lp_info(u, p) \in Nat
  BY EntitlementNat DEF AuctionInv
<1>2. user_lp_locked[u][p] \in Nat
  BY DEF AuctionInv, AuctionTypeOK
<1>3. user_lp_locked[u][p] <= get_user_lp_info(u, p)
  BY DEF AuctionInv, LockedWithinEntitlement
<1> QED BY <1>1, <1>2, <1>3 DEF ToVest, VestAmount

\* Until the pools are initialised, what is to be vested and what is locked
\* together fit into the half that does not go to the reserve.
LEMMA HalfCovers ==
    ASSUME AuctionInv, DepositsBacked, StrangersHaveNothing, pool_init_timestamp = 0,
           NEW p \in PoolType
    PROVE  SumOver(ToVest(p), Unvested) + lp_locked[p] <= lp_size[p] - lp_size[p] \div 2
<1> DEFINE ent == [u \in Users |-> get_user_lp_info(u, p)]
<1>1. known \in SUBSET Users /\ IsFiniteSet(known) /\ IsFiniteSet(Users \ known)
      /\ IsFiniteSet(Users)
  BY UsersFinite DEF AuctionInv, AuctionTypeOK
<1>2. Unvested = known
  BY <1>1 DEF Unvested, AuctionInv, PhaseOrder
<1>3. \A u \in Users : /\ ToVest(p)[u] \in Nat
                       /\ Locked(p)[u] \in Nat
                       /\ ent[u] \in Nat
                       /\ ent[u] = ToVest(p)[u] + Locked(p)[u]
  <2> SUFFICES ASSUME NEW u \in Users
               PROVE  /\ ToVest(p)[u] \in Nat
                      /\ Locked(p)[u] \in Nat
                      /\ ent[u] \in Nat
                      /\ ent[u] = ToVest(p)[u] + Locked(p)[u]
    OBVIOUS
  <2>1. ToVest(p)[u] \in Nat
    BY ToVestNat
  <2>2. Locked(p)[u] \in Nat /\ Locked(p)[u] = user_lp_locked[u][p]
    BY DEF Locked, AuctionInv, AuctionTypeOK
  <2>3. ent[u] \in Nat /\ ent[u] = get_user_lp_info(u, p)
    BY EntitlementNat DEF AuctionInv
  <2>4. ToVest(p)[u] = get_user_lp_info(u, p) - user_lp_locked[u][p]
    BY DEF ToVest, VestAmount
  <2> QED BY <2>1, <2>2, <2>3, <2>4
<1>4. \A u \in Users \ known : Locked(p)[u] = 0
  BY DEF Locked, StrangersHaveNothing
<1>5. lp_locked[p] = SumOver(Locked(p), Users)
  BY DEF DepositsBacked, Locked
<1>6. SumOver(ent, Users) <= lp_size[p] \div 2
  BY EntitlementsWithinHalf DEF AuctionInv, DepositsBacked
<1> HIDE DEF ent
<1>7. SumOver(Locked(p), Users)
        = SumOver(Locked(p), known) + SumOver(Locked(p), Users \ known)
  BY <1>1, <1>3, SumSplit
<1>8. SumOver(Locked(p), Users \ known) = 0
  BY <1>1, <1>4, SumZero
<1>9. SumOver(ent, known) = SumOver(ToVest(p), known) + SumOver(Locked(p), known)
  BY <1>1, <1>3, SumAdd
<1>10. SumOver(ent, known) <= SumOver(ent, Users)
  BY <1>1, <1>3, SumSubset
<1>11. PICK k, l, m, n : /\ k = SumOver(ToVest(p), known)
                         /\ l = SumOver(Locked(p), known)
                         /\ m = SumOver(ent, known)
                         /\ n = SumOver(ent, Users)
  OBVIOUS
<1>12. k \in Nat /\ l \in Nat /\ m \in Nat /\ n \in Nat
  BY <1>1, <1>3, <1>11, SumNat
<1>13. lp_locked[p] = l
  BY <1>5, <1>7, <1>8, <1>11, <1>12
<1>14. m = k + l /\ m <= n /\ n <= lp_size[p] \div 2
  BY <1>6, <1>9, <1>10, <1>11
<1>15. lp_size[p] \in Nat
  BY DEF AuctionInv, AuctionTypeOK
<1>16. k + l <= lp_size[p] - lp_size[p] \div 2
  BY <1>12, <1>14, <1>15
<1> QED BY <1>2, <1>11, <1>13, <1>16

\* InitPool has not happened.
PoolsPending == pool_init_timestamp = 0

\* Before InitPool the LP tokens to come suffice, whatever the deposits are.
LEMMA SolventBefore ==
    AuctionInv /\ DepositsBacked /\ StrangersHaveNothing /\ PoolsPending => LpSolvent
<1> SUFFICES ASSUME AuctionInv, DepositsBacked, StrangersHaveNothing,
                    pool_init_timestamp = 0, NEW p \in PoolType
             PROVE  SumOver(ToVest(p), Unvested) + lp_locked[p]
                        <= lp_size[p] - lp_size[p] \div 2
  BY DEF LpSolvent, ToVest, PoolsPending
<1> QED BY HalfCovers

\* The same after a step.
LEMMA SolventBeforeNext ==
    AuctionInv' /\ DepositsBacked' /\ StrangersHaveNothing' /\ PoolsPending'
        => LpSolvent'
BY SolventBefore, PTL

\* A step that moves no deposit, lock or size moves no vector either.
LEMMA VectorsUnmoved ==
    ASSUME UNCHANGED <<lp_size, total_deposited, deposited, user_lp_locked>>,
           NEW p \in PoolType
    PROVE  UNCHANGED <<Deposits(p), Locked(p), ToVest(p)>>
BY DEF Deposits, Locked, ToVest, VestAmount, get_user_lp_info

\* Nothing that LpSolvent and DepositsBacked depend on moves.
LEMMA LedgersUnmoved ==
    ASSUME LedgerInv,
           UNCHANGED <<stateVars, known, deposited, user_lp_locked, is_vested, bank,
                       lp_balance>>
    PROVE  DepositsBacked' /\ StrangersHaveNothing' /\ LpSolvent'
<1>1. UNCHANGED <<lp_size, total_deposited, deposited, user_lp_locked, lp_locked,
                  pool_init_timestamp>>
  BY DEF stateVars
<1>2. DepositsBacked'
  BY <1>1 DEF LedgerInv, DepositsBacked
<1>3. StrangersHaveNothing'
  BY <1>1 DEF LedgerInv, StrangersHaveNothing
<1>4. \A p \in PoolType : SumOver(ToVest(p), Unvested)' = SumOver(ToVest(p), Unvested)
  BY <1>1, VectorsUnmoved DEF Unvested
<1>5. LpSolvent'
  BY <1>1, <1>4 DEF LedgerInv, LpSolvent, ToVest
<1> QED BY <1>2, <1>3, <1>5

\* The vectors hold natural numbers.
LEMMA VectorsNat ==
    ASSUME AuctionTypeOK, NEW p \in PoolType
    PROVE  \A u \in Users : Deposits(p)[u] \in Nat /\ Locked(p)[u] \in Nat
BY DEF AuctionTypeOK, Deposits, Locked

\* The users' deposits and locks remain naturals.
LEMMA VectorsNatNext ==
    ASSUME AuctionTypeOK', NEW p \in PoolType
    PROVE  \A u \in Users : Deposits(p)'[u] \in Nat /\ Locked(p)'[u] \in Nat
BY DEF AuctionTypeOK, Deposits, Locked

\* Before the pools are initialised the deposits and the bank move together.
LEMMA DepositsMove ==
    ASSUME LedgerInv, AuctionTypeOK', NEW u \in Users, NEW p \in PoolType, NEW d \in Int,
           pool_init_timestamp = 0,
           deposited'[u][p] = deposited[u][p] + d,
           \A v \in Users \ {u} : deposited'[v][p] = deposited[v][p],
           total_deposited'[p] = total_deposited[p] + d,
           bank'[p] = bank[p] + d
    PROVE  /\ total_deposited'[p] = SumOver(Deposits(p)', Users)
           /\ bank'[p] = total_deposited'[p]
<1>1. AuctionTypeOK
  BY DEF LedgerInv, AuctionInv
<1>2. PICK f, g : f = Deposits(p) /\ g = Deposits(p)'
  OBVIOUS
<1>3. ChangesAt(Users, f, g, u, d)
  <2>1. \A v \in Users : f[v] \in Nat
    BY <1>1, <1>2, VectorsNat
  <2>2. \A v \in Users \ {u} : g[v] = f[v]
    BY <1>2 DEF Deposits
  <2>3. g[u] = f[u] + d
    BY <1>2 DEF Deposits
  <2> QED BY <2>1, <2>2, <2>3 DEF ChangesAt
<1>4. SumOver(g, Users) = SumOver(f, Users) + d
  BY <1>3, UsersFinite, SumUpdate
<1>5. total_deposited[p] = SumOver(Deposits(p), Users) /\ bank[p] = total_deposited[p]
  BY DEF LedgerInv, DepositsBacked, Deposits
<1> QED BY <1>2, <1>4, <1>5

\* LockLp and WithdrawLp move the lock of a user and the total together.
LEMMA LocksMove ==
    ASSUME LedgerInv, AuctionTypeOK', NEW u \in Users, NEW p \in PoolType, NEW d \in Int,
           user_lp_locked'[u][p] = user_lp_locked[u][p] + d,
           \A v \in Users \ {u} : user_lp_locked'[v][p] = user_lp_locked[v][p],
           lp_locked'[p] = lp_locked[p] + d
    PROVE  lp_locked'[p] = SumOver(Locked(p)', Users)
<1>1. AuctionTypeOK
  BY DEF LedgerInv, AuctionInv
<1>2. PICK f, g : f = Locked(p) /\ g = Locked(p)'
  OBVIOUS
<1>3. ChangesAt(Users, f, g, u, d)
  <2>1. \A v \in Users : f[v] \in Nat
    BY <1>1, <1>2, VectorsNat
  <2>2. \A v \in Users \ {u} : g[v] = f[v]
    BY <1>2 DEF Locked
  <2>3. g[u] = f[u] + d
    BY <1>2 DEF Locked
  <2> QED BY <2>1, <2>2, <2>3 DEF ChangesAt
<1>4. SumOver(g, Users) = SumOver(f, Users) + d
  BY <1>3, UsersFinite, SumUpdate
<1>5. lp_locked[p] = SumOver(Locked(p), Users)
  BY DEF LedgerInv, DepositsBacked, Locked
<1> QED BY <1>2, <1>4, <1>5

\* DepositsBacked, by the vectors.
LEMMA BackedByVectors ==
    ASSUME \A p \in PoolType :
               /\ total_deposited'[p] = SumOver(Deposits(p)', Users)
               /\ bank'[p] = IF pool_init_timestamp' = 0 THEN total_deposited'[p] ELSE 0
               /\ lp_locked'[p] = SumOver(Locked(p)', Users)
    PROVE  DepositsBacked'
BY DEF DepositsBacked, Deposits, Locked

\* While the windows are open or the shares not minted, the pools are pending.
LEMMA PendingWhile ==
    ASSUME AuctionInv,
           now < LockEnd \/ \E p \in PoolType : lp_minted[p] = NONE
    PROVE  pool_init_timestamp = 0
<1>1. now \in Nat
  BY DEF AuctionInv, AuctionTypeOK
<1> QED BY <1>1, WindowsOrdered DEF AuctionInv, PhaseOrder

\* Initially there is nothing to cover.
LEMMA LedgerInit == AuctionInit => LedgerInv
<1> SUFFICES ASSUME AuctionInit PROVE LedgerInv
  OBVIOUS
<1>1. AuctionInv
  BY AuctionInvInit
<1>2. StrangersHaveNothing
  BY DEF AuctionInit, StrangersHaveNothing
<1>3. \A p \in PoolType : \A u \in Users : Deposits(p)[u] = 0 /\ Locked(p)[u] = 0
  BY DEF AuctionInit, Deposits, Locked
<1>4. \A p \in PoolType : SumOver(Deposits(p), Users) = 0 /\ SumOver(Locked(p), Users) = 0
  BY <1>3, UsersFinite, SumZero
<1>5. DepositsBacked
  BY <1>4 DEF AuctionInit, DepositsBacked, Deposits, Locked
<1>6. LpSolvent
  BY <1>1, <1>2, <1>5, SolventBefore DEF AuctionInit, PoolsPending
<1> QED BY <1>1, <1>2, <1>5, <1>6 DEF LedgerInv

\* Deposit and Withdraw, before the pools are initialised.
LEMMA LedgerDeposit ==
    ASSUME LedgerInv, AuctionInv', NEW u \in Users, NEW funds \in AssetAmounts,
           execute_deposit(u, funds)
    PROVE  DepositsBacked' /\ StrangersHaveNothing' /\ pool_init_timestamp' = 0
<1>1. AuctionInv /\ AuctionTypeOK /\ AuctionTypeOK' /\ now \in Nat
  BY DEF LedgerInv, AuctionInv, AuctionTypeOK
<1>2. now < LockEnd
  BY <1>1, WindowsOrdered DEF execute_deposit, is_deposit_open
<1>3. pool_init_timestamp = 0 /\ pool_init_timestamp' = 0
  BY <1>1, <1>2, PendingWhile DEF execute_deposit
<1>4. StrangersHaveNothing'
  BY DEF execute_deposit, LedgerInv, StrangersHaveNothing
<1>5. ASSUME NEW p \in PoolType
      PROVE  /\ total_deposited'[p] = SumOver(Deposits(p)', Users)
             /\ bank'[p] = total_deposited'[p]
             /\ lp_locked'[p] = SumOver(Locked(p)', Users)
  <2>0. funds \in [PoolType -> Nat]
    BY AmountAssumption DEF AssetAmounts
  <2>1. funds[p] \in Int
    BY <2>0
  <2>2. /\ deposited'[u][p] = deposited[u][p] + funds[p]
        /\ \A v \in Users \ {u} : deposited'[v][p] = deposited[v][p]
        /\ total_deposited'[p] = total_deposited[p] + funds[p]
        /\ bank'[p] = bank[p] + funds[p]
    BY <1>1 DEF execute_deposit, AuctionTypeOK
  <2>3. lp_locked'[p] = SumOver(Locked(p)', Users)
    BY DEF execute_deposit, LedgerInv, DepositsBacked, Locked
  <2> QED BY <1>1, <1>3, <2>1, <2>2, <2>3, DepositsMove
<1> QED BY <1>3, <1>4, <1>5, BackedByVectors

\* A withdrawal keeps totals equal to the sums of the users' deposits.
LEMMA LedgerWithdraw ==
    ASSUME LedgerInv, AuctionInv', NEW u \in Users, NEW amount \in AssetAmounts,
           execute_withdraw(u, amount)
    PROVE  DepositsBacked' /\ StrangersHaveNothing' /\ pool_init_timestamp' = 0
<1>1. AuctionInv /\ AuctionTypeOK /\ AuctionTypeOK' /\ now \in Nat
  BY DEF LedgerInv, AuctionInv, AuctionTypeOK
<1>2. now < WithdrawalEnd
  BY <1>1, WithdrawInWindow
<1>3. pool_init_timestamp = 0 /\ pool_init_timestamp' = 0
  BY <1>1, <1>2, WindowsOrdered, PendingWhile DEF execute_withdraw
<1>4. StrangersHaveNothing'
  BY DEF execute_withdraw, LedgerInv, StrangersHaveNothing
<1>5. ASSUME NEW p \in PoolType
      PROVE  /\ total_deposited'[p] = SumOver(Deposits(p)', Users)
             /\ bank'[p] = total_deposited'[p]
             /\ lp_locked'[p] = SumOver(Locked(p)', Users)
  <2>0. amount \in [PoolType -> Nat]
    BY AmountAssumption DEF AssetAmounts
  <2>1. /\ 0 - amount[p] \in Int /\ amount[p] \in Nat
        /\ deposited[u][p] \in Nat /\ total_deposited[p] \in Nat /\ bank[p] \in Nat
    BY <1>1, <2>0 DEF AuctionTypeOK
  <2>2. /\ deposited'[u][p] = deposited[u][p] - amount[p]
        /\ \A v \in Users \ {u} : deposited'[v][p] = deposited[v][p]
        /\ total_deposited'[p] = total_deposited[p] - amount[p]
        /\ bank'[p] = bank[p] - amount[p]
    BY <1>1 DEF execute_withdraw, AuctionTypeOK
  <2>3. /\ deposited'[u][p] = deposited[u][p] + (0 - amount[p])
        /\ total_deposited'[p] = total_deposited[p] + (0 - amount[p])
        /\ bank'[p] = bank[p] + (0 - amount[p])
    BY <2>1, <2>2
  <2>4. lp_locked'[p] = SumOver(Locked(p)', Users)
    BY DEF execute_withdraw, LedgerInv, DepositsBacked, Locked
  <2> QED BY <1>1, <1>3, <2>1, <2>2, <2>3, <2>4, DepositsMove
<1> QED BY <1>3, <1>4, <1>5, BackedByVectors

\* LockLp and WithdrawLp.
LEMMA LedgerLock ==
    ASSUME LedgerInv, AuctionInv', NEW u \in Users, NEW p \in PoolType,
           NEW amount \in LpAmounts,
           \/ execute_lock_lp_tokens(u, p, amount)
           \/ execute_withdraw_lp_tokens(u, p, amount)
    PROVE  DepositsBacked' /\ StrangersHaveNothing' /\ pool_init_timestamp' = 0
<1>1. AuctionInv /\ AuctionTypeOK /\ AuctionTypeOK' /\ now \in Nat
  BY DEF LedgerInv, AuctionInv, AuctionTypeOK
<1>2. /\ u \in known /\ now < LockEnd
      /\ UNCHANGED <<pool_init_timestamp, total_deposited, deposited, bank, known>>
  BY <1>1, WindowsOrdered
     DEF execute_lock_lp_tokens, execute_withdraw_lp_tokens, LockWindowOpen,
         is_lock_window_closed, coinVars
<1>3. pool_init_timestamp = 0 /\ pool_init_timestamp' = 0
  BY <1>1, <1>2, PendingWhile
<1>4. PICK d \in Int :
        /\ user_lp_locked' = [user_lp_locked EXCEPT ![u][p] = @ + d]
        /\ lp_locked' = [lp_locked EXCEPT ![p] = @ + d]
  <2>1. amount \in Nat /\ user_lp_locked[u][p] \in Nat /\ lp_locked[p] \in Nat
    BY <1>1, AmountAssumption DEF AuctionTypeOK
  <2>2. CASE execute_lock_lp_tokens(u, p, amount)
    <3>1. amount \in Int
      BY <2>1
    <3> QED BY <2>2, <3>1 DEF execute_lock_lp_tokens
  <2>3. CASE execute_withdraw_lp_tokens(u, p, amount)
    <3>1. /\ 0 - amount \in Int
          /\ user_lp_locked[u][p] - amount = user_lp_locked[u][p] + (0 - amount)
          /\ lp_locked[p] - amount = lp_locked[p] + (0 - amount)
      BY <2>1
    <3>2. /\ user_lp_locked' = [user_lp_locked EXCEPT ![u][p] = @ + (0 - amount)]
          /\ lp_locked' = [lp_locked EXCEPT ![p] = @ + (0 - amount)]
      BY <2>3, <3>1 DEF execute_withdraw_lp_tokens
    <3> QED BY <3>1, <3>2
  <2> QED BY <2>2, <2>3
<1>5. StrangersHaveNothing'
  BY <1>1, <1>2, <1>4 DEF LedgerInv, StrangersHaveNothing, AuctionTypeOK
<1>6. ASSUME NEW q \in PoolType
      PROVE  /\ total_deposited'[q] = SumOver(Deposits(q)', Users)
             /\ bank'[q] = total_deposited'[q]
             /\ lp_locked'[q] = SumOver(Locked(q)', Users)
  <2>1. total_deposited'[q] = SumOver(Deposits(q)', Users) /\ bank'[q] = total_deposited'[q]
    BY <1>2, <1>3 DEF LedgerInv, DepositsBacked, Deposits
  <2>2. CASE q = p
    <3>1. /\ user_lp_locked'[u][p] = user_lp_locked[u][p] + d
          /\ \A v \in Users \ {u} : user_lp_locked'[v][p] = user_lp_locked[v][p]
          /\ lp_locked'[p] = lp_locked[p] + d
      BY <1>1, <1>4 DEF AuctionTypeOK
    <3> QED BY <1>1, <2>1, <2>2, <3>1, LocksMove
  <2>3. CASE q # p
    <3>1. lp_locked'[q] = lp_locked[q] /\ Locked(q)' = Locked(q)
      BY <1>1, <1>4, <2>3 DEF AuctionTypeOK, Locked
    <3>2. lp_locked[q] = SumOver(Locked(q), Users)
      BY DEF LedgerInv, DepositsBacked, Locked
    <3> QED BY <2>1, <3>1, <3>2
  <2> QED BY <2>2, <2>3
<1> QED BY <1>3, <1>5, <1>6, BackedByVectors

\* InitPool: the bank is emptied into the pools, and the shares that are left
\* cover what is to be vested.
LEMMA LedgerInitPool ==
    ASSUME LedgerInv, execute_init_pool
    PROVE  DepositsBacked' /\ StrangersHaveNothing' /\ LpSolvent'
<1>1. AuctionInv /\ AuctionTypeOK /\ now \in Nat
  BY DEF LedgerInv, AuctionInv, AuctionTypeOK
<1>2. pool_init_timestamp = 0
  BY <1>1, PendingWhile DEF execute_init_pool, PoolType
<1>3. /\ pool_init_timestamp' = now /\ now >= LockEnd
      /\ UNCHANGED <<lp_size, total_deposited, deposited, lp_locked, user_lp_locked,
                     known, is_vested>>
  BY DEF execute_init_pool, is_lock_window_closed, userVars
<1>4. pool_init_timestamp' # 0
  BY <1>1, <1>3, WindowsOrdered
<1>5. \A p \in PoolType : UNCHANGED <<Deposits(p), Locked(p), ToVest(p)>>
  BY <1>3, VectorsUnmoved
<1>6. ASSUME NEW p \in PoolType
      PROVE  /\ total_deposited'[p] = SumOver(Deposits(p)', Users)
             /\ bank'[p] = 0
             /\ lp_locked'[p] = SumOver(Locked(p)', Users)
  <2>1. /\ total_deposited[p] = SumOver(Deposits(p), Users)
        /\ bank[p] = total_deposited[p]
        /\ lp_locked[p] = SumOver(Locked(p), Users)
    BY <1>2 DEF LedgerInv, DepositsBacked, Deposits, Locked
  <2>2. bank'[p] = bank[p] - total_deposited[p] /\ bank[p] \in Nat
    BY <1>1 DEF execute_init_pool, AuctionTypeOK
  <2>3. bank'[p] = 0
    BY <2>1, <2>2
  <2> QED BY <1>3, <1>5, <2>1, <2>3
<1>7. DepositsBacked'
  BY <1>4, <1>6, BackedByVectors
<1>8. StrangersHaveNothing'
  BY <1>3 DEF LedgerInv, StrangersHaveNothing
<1>9. ASSUME NEW p \in PoolType
      PROVE  SumOver(ToVest(p)', Unvested') <= lp_balance'[p]
  <2>1. PICK k : k = SumOver(ToVest(p), Unvested)
    OBVIOUS
  <2>2. SumOver(ToVest(p)', Unvested') = k
    BY <1>3, <1>5, <2>1 DEF Unvested
  <2>3. k + lp_locked[p] <= lp_size[p] - lp_size[p] \div 2
    BY <1>1, <1>2, <2>1, HalfCovers DEF LedgerInv
  <2>4. k \in Nat
    <3>1. Unvested \in SUBSET Users /\ IsFiniteSet(Unvested)
      BY <1>1, UsersFinite DEF Unvested, AuctionTypeOK
    <3> QED BY <1>1, <2>1, <3>1, ToVestNat, SumNat
  <2>5. /\ lp_balance'[p] = lp_balance[p] + lp_size[p] - (lp_size[p] \div 2 + lp_locked[p])
        /\ lp_balance[p] \in Nat /\ lp_size[p] \in Nat /\ lp_locked[p] \in Nat
    BY <1>1 DEF execute_init_pool, AuctionTypeOK
  <2> QED BY <2>2, <2>3, <2>4, <2>5
<1>10. LpSolvent'
  BY <1>4, <1>9 DEF LpSolvent, ToVest
<1> QED BY <1>7, <1>8, <1>10

\* MigrateToVesting: a pack takes its part of the sum out of the balance.
LEMMA LedgerMigrate ==
    ASSUME LedgerInv, execute_migrate_to_vesting
    PROVE  DepositsBacked' /\ StrangersHaveNothing' /\ LpSolvent'
<1>1. AuctionInv /\ AuctionTypeOK
  BY DEF LedgerInv, AuctionInv
<1>2. /\ pool_init_timestamp # 0
      /\ UNCHANGED <<pool_init_timestamp, lp_size, total_deposited, deposited,
                     lp_locked, user_lp_locked, known, bank>>
  BY DEF execute_migrate_to_vesting, stateVars, coinVars
<1>3. DepositsBacked' /\ StrangersHaveNothing'
  BY <1>2 DEF LedgerInv, DepositsBacked, StrangersHaveNothing
<1>4. PICK pack \in SUBSET Unvested :
        /\ \E atom \in 0..lp_balance["ATOM"], usdc \in 0..lp_balance["USDC"] :
             /\ atom = SumOver([u \in pack |-> VestAmount(u, "ATOM")], pack)
             /\ usdc = SumOver([u \in pack |-> VestAmount(u, "USDC")], pack)
             /\ lp_balance' = [p \in PoolType |->
                   lp_balance[p] - (IF p = "USDC" THEN usdc ELSE atom)]
        /\ is_vested' = [u \in Users |-> u \in pack \/ is_vested[u]]
  BY Zenon DEF execute_migrate_to_vesting
<1>5. Unvested \in SUBSET Users /\ IsFiniteSet(Unvested) /\ IsFiniteSet(pack)
      /\ IsFiniteSet(Unvested \ pack)
  BY <1>1, UsersFinite DEF Unvested, AuctionTypeOK
<1>6. Unvested' = Unvested \ pack
  BY <1>1, <1>2, <1>4 DEF Unvested, AuctionTypeOK
<1>7. ASSUME NEW p \in PoolType
      PROVE  SumOver(ToVest(p)', Unvested') <= lp_balance'[p]
  <2>1. ToVest(p)' = ToVest(p)
    BY <1>2, VectorsUnmoved
  <2>2. lp_balance'[p] = lp_balance[p] - SumOver([u \in pack |-> VestAmount(u, p)], pack)
    BY <1>4 DEF PoolType
  <2>3. SumOver([u \in pack |-> VestAmount(u, p)], pack) = SumOver(ToVest(p), pack)
    <3>1. \A u \in pack : [v \in pack |-> VestAmount(v, p)][u] = ToVest(p)[u]
      BY <1>5 DEF ToVest
    <3> QED BY <1>5, <3>1, SumEqual
  <2>4. \A u \in Unvested : ToVest(p)[u] \in Nat
    BY <1>1, <1>5, ToVestNat
  <2>5. SumOver(ToVest(p), Unvested)
          = SumOver(ToVest(p), pack) + SumOver(ToVest(p), Unvested \ pack)
    BY <1>5, <2>4, SumSplit
  <2>6. SumOver(ToVest(p), Unvested) <= lp_balance[p]
    BY <1>2 DEF LedgerInv, LpSolvent, ToVest
  <2>7. PICK k, l : k = SumOver(ToVest(p), pack) /\ l = SumOver(ToVest(p), Unvested \ pack)
    OBVIOUS
  <2>8. k \in Nat /\ l \in Nat
    BY <1>5, <2>4, <2>7, SumNat
  <2>9. lp_balance[p] \in Nat
    BY <1>1 DEF AuctionTypeOK
  <2>10. k + l <= lp_balance[p] /\ lp_balance'[p] = lp_balance[p] - k
    BY <2>2, <2>3, <2>5, <2>6, <2>7
  <2>11. SumOver(ToVest(p)', Unvested') = l
    BY <1>6, <2>1, <2>7
  <2> QED BY <2>8, <2>9, <2>10, <2>11
<1>8. LpSolvent'
  BY <1>2, <1>7 DEF LpSolvent, ToVest
<1> QED BY <1>3, <1>8

\* Every step keeps the ledgers.
LEMMA LedgerStep == LedgerInv /\ [AuctionNext]_auctionVars => LedgerInv'
<1> SUFFICES ASSUME LedgerInv, [AuctionNext]_auctionVars
             PROVE  LedgerInv'
  OBVIOUS
<1>0. AuctionInv'
  BY AuctionInvStep DEF LedgerInv
<1>1. SUFFICES DepositsBacked' /\ StrangersHaveNothing' /\ LpSolvent'
  BY <1>0 DEF LedgerInv
<1>2. ASSUME DepositsBacked' /\ StrangersHaveNothing' /\ pool_init_timestamp' = 0
      PROVE  LpSolvent'
  BY <1>0, <1>2, SolventBeforeNext DEF PoolsPending
<1>3. ASSUME NEW u \in Users, NEW funds \in AssetAmounts, execute_deposit(u, funds)
      PROVE  DepositsBacked' /\ StrangersHaveNothing' /\ LpSolvent'
  BY <1>0, <1>2, <1>3, LedgerDeposit
<1>4. ASSUME NEW u \in Users, NEW amount \in AssetAmounts, execute_withdraw(u, amount)
      PROVE  DepositsBacked' /\ StrangersHaveNothing' /\ LpSolvent'
  BY <1>0, <1>2, <1>4, LedgerWithdraw
<1>5. ASSUME NEW u \in Users, NEW p \in PoolType, NEW amount \in LpAmounts,
             \/ execute_lock_lp_tokens(u, p, amount)
             \/ execute_withdraw_lp_tokens(u, p, amount)
      PROVE  DepositsBacked' /\ StrangersHaveNothing' /\ LpSolvent'
  BY <1>0, <1>2, <1>5, LedgerLock
<1>6. ASSUME NEW reply \in FeedReplies, execute_set_pool_size(reply)
      PROVE  DepositsBacked' /\ StrangersHaveNothing' /\ LpSolvent'
  <2>1. pool_init_timestamp = 0
    BY <1>6, PendingWhile DEF execute_set_pool_size, LedgerInv, PoolType
  <2>2. UNCHANGED <<pool_init_timestamp, total_deposited, deposited, lp_locked,
                    user_lp_locked, known, bank>>
    BY <1>6 DEF execute_set_pool_size, userVars, coinVars
  <2>3. DepositsBacked' /\ StrangersHaveNothing'
    BY <2>2 DEF LedgerInv, DepositsBacked, StrangersHaveNothing
  <2> QED BY <1>2, <2>1, <2>2, <2>3
<1>7. CASE execute_init_pool
  BY <1>7, LedgerInitPool
<1>8. CASE execute_migrate_to_vesting
  BY <1>8, LedgerMigrate
<1>9. ASSUME UNCHANGED <<stateVars, userVars, bank, lpVars>>
      PROVE  DepositsBacked' /\ StrangersHaveNothing' /\ LpSolvent'
  BY <1>9, LedgersUnmoved DEF userVars, lpVars
<1>10. CASE Tick
  BY <1>9, <1>10 DEF Tick, coinVars
<1>11. ASSUME NEW amount \in NtrnFunds, FundNtrn(amount)
       PROVE  DepositsBacked' /\ StrangersHaveNothing' /\ LpSolvent'
  BY <1>9, <1>11 DEF FundNtrn
<1>12. ASSUME NEW s \in Senders, NEW m \in UpdateConfigMsgs, execute_update_config(s, m)
       PROVE  DepositsBacked' /\ StrangersHaveNothing' /\ LpSolvent'
  BY <1>9, <1>12 DEF execute_update_config, coinVars
<1>13. ASSUME NEW s \in Senders, NEW m \in TokenInfoMsgs, execute_set_token_info(s, m)
       PROVE  DepositsBacked' /\ StrangersHaveNothing' /\ LpSolvent'
  BY <1>9, <1>13 DEF execute_set_token_info, coinVars
<1>14. CASE UNCHANGED auctionVars
  BY <1>9, <1>14 DEF auctionVars, coinVars
<1> QED
  BY <1>3, <1>4, <1>5, <1>6, <1>7, <1>8, <1>10, <1>11, <1>12, <1>13, <1>14
     DEF AuctionNext, AuctionStep

\* The ledgers' invariant holds of the auction.
LEMMA LedgerInvariant == AuctionSpec => []LedgerInv
<1>1. AuctionInit => LedgerInv
  BY LedgerInit
<1>2. LedgerInv /\ [AuctionNext]_auctionVars => LedgerInv'
  BY LedgerStep
<1> QED BY <1>1, <1>2, PTL DEF AuctionSpec

\* The totals of State are the sums over UserInfo, and the auction holds exactly
\* the deposited coins until InitPool, none of them afterwards, for any number of
\* users and any windows.
THEOREM DepositsBackedAlways == AuctionSpec => []DepositsBacked
<1>1. LedgerInv => DepositsBacked
  BY DEF LedgerInv
<1> QED BY <1>1, LedgerInvariant, PTL

\* However deposits are split and however often the shares are rounded, the LP
\* tokens left to the auction pay every user still to be migrated: no pack of
\* MigrateToVesting fails for lack of tokens.
THEOREM LpSolventAlways == AuctionSpec => []LpSolvent
<1>1. LedgerInv => LpSolvent
  BY DEF LedgerInv
<1> QED BY <1>1, LedgerInvariant, PTL
-----------------------------------------------------------------------------
\* After the deposit window at most half of a position may be withdrawn.
LEMMA PercentAtMostHalf ==
    ASSUME NEW t \in Nat, NEW cutoff \in Nat, NEW window \in Nat \ {0}, t >= cutoff
    PROVE  /\ WithdrawalPercent(t, cutoff, window) \in Nat
           /\ 2 * WithdrawalPercent(t, cutoff, window) <= DECIMAL_FRACTIONAL
<1> DEFINE second == cutoff + window \div 2
           final  == cutoff + window
<1>0. DECIMAL_FRACTIONAL \in Nat \ {0}
  BY ScaleAssumption
<1>1. CASE t <= second
  <2>1. WithdrawalPercent(t, cutoff, window) = (50 * DECIMAL_FRACTIONAL) \div 100
    BY <1>1 DEF WithdrawalPercent, FromRatio
  <2> QED BY <1>0, <2>1
<1>2. CASE ~(t <= second) /\ t < final
  <2>1. PICK a \in Nat, b \in Nat \ {0} : a = final - t /\ b = final - second /\ a <= b
    <3>1. final - t \in Nat /\ final - second \in Nat \ {0} /\ final - t <= final - second
      BY <1>2
    <3> QED BY <3>1
  <2>2. PICK q : q = ((50 * a) * DECIMAL_FRACTIONAL) \div (100 * b)
    OBVIOUS
  <2>3. WithdrawalPercent(t, cutoff, window) = q
    BY <1>2, <2>1, <2>2 DEF WithdrawalPercent, FromRatio
  <2>4. /\ a * DECIMAL_FRACTIONAL \in Nat /\ b * DECIMAL_FRACTIONAL \in Nat
        /\ (50 * a) * DECIMAL_FRACTIONAL = 50 * (a * DECIMAL_FRACTIONAL)
    BY <1>0, MulNat
  <2>5. (100 * b) * q <= 50 * (a * DECIMAL_FRACTIONAL) /\ q \in Nat
    <3>1. 100 * b \in Nat \ {0} /\ (50 * a) * DECIMAL_FRACTIONAL \in Nat
      BY <2>4
    <3> QED BY <2>2, <2>4, <3>1, QuotientBelow
  <2>6. (100 * b) * q = 50 * (b * (2 * q)) /\ b * (2 * q) \in Nat
    BY <2>5
  <2>7. b * (2 * q) <= a * DECIMAL_FRACTIONAL
    BY <2>4, <2>5, <2>6
  <2>8. a * DECIMAL_FRACTIONAL <= b * DECIMAL_FRACTIONAL
    <3>1. PICK z \in Nat : b = a + z
      <4>1. b - a \in Nat /\ b = a + (b - a)
        BY <2>1
      <4> QED BY <4>1
    <3>2. DECIMAL_FRACTIONAL * (a + z) = DECIMAL_FRACTIONAL * a + DECIMAL_FRACTIONAL * z
          /\ DECIMAL_FRACTIONAL * a \in Nat /\ DECIMAL_FRACTIONAL * z \in Nat
      BY <1>0, Distributive
    <3>3. a * DECIMAL_FRACTIONAL = DECIMAL_FRACTIONAL * a
          /\ b * DECIMAL_FRACTIONAL = DECIMAL_FRACTIONAL * (a + z)
      BY <1>0, <3>1
    <3> QED BY <3>2, <3>3
  <2>9. b * (2 * q) <= b * DECIMAL_FRACTIONAL
    BY <2>4, <2>6, <2>7, <2>8
  <2>10. 2 * q <= DECIMAL_FRACTIONAL
    BY <1>0, <2>5, <2>9, ProductCancel
  <2> QED BY <2>3, <2>5, <2>10
<1>3. CASE ~(t <= second) /\ ~(t < final)
  <2>1. WithdrawalPercent(t, cutoff, window) = (0 * DECIMAL_FRACTIONAL) \div 100
    BY <1>3 DEF WithdrawalPercent, FromRatio
  <2> QED BY <1>0, <2>1
<1> QED BY <1>1, <1>2, <1>3

\* A product with a share of at most one half, rounded down, is at most half.
LEMMA HalfOfProduct ==
    ASSUME NEW n \in Nat, NEW d \in Nat, 2 * d <= DECIMAL_FRACTIONAL
    PROVE  2 * MulFloor(n, d) <= n
<1>0. DECIMAL_FRACTIONAL \in Nat \ {0}
  BY ScaleAssumption
<1>1. PICK q : q = (n * d) \div DECIMAL_FRACTIONAL
  OBVIOUS
<1>2. n * d \in Nat /\ DECIMAL_FRACTIONAL * q <= n * d /\ q \in Nat
  BY <1>0, <1>1, MulNat, QuotientBelow
<1>3. PICK z \in Nat : DECIMAL_FRACTIONAL = 2 * d + z
  <2>1. DECIMAL_FRACTIONAL - 2 * d \in Nat
        /\ DECIMAL_FRACTIONAL = 2 * d + (DECIMAL_FRACTIONAL - 2 * d)
    BY <1>0
  <2> QED BY <2>1
<1>4. n * (2 * d + z) = n * (2 * d) + n * z /\ n * (2 * d) \in Nat /\ n * z \in Nat
  BY Distributive
<1>5. n * (2 * d) = 2 * (n * d)
  OBVIOUS
<1>6. DECIMAL_FRACTIONAL * (2 * q) = 2 * (DECIMAL_FRACTIONAL * q)
      /\ DECIMAL_FRACTIONAL * q \in Nat /\ n * DECIMAL_FRACTIONAL = DECIMAL_FRACTIONAL * n
  BY <1>0, <1>2
<1>7. 2 * (n * d) <= n * DECIMAL_FRACTIONAL
  <2>1. n * DECIMAL_FRACTIONAL = n * (2 * d + z)
    BY <1>3
  <2> QED BY <1>2, <1>4, <1>5, <2>1
<1>8. DECIMAL_FRACTIONAL * (2 * q) <= DECIMAL_FRACTIONAL * n
  <2>1. n * DECIMAL_FRACTIONAL \in Nat
    BY <1>0, MulNat
  <2> QED BY <1>2, <1>6, <1>7, <2>1
<1>9. 2 * q <= n
  BY <1>0, <1>2, <1>8, ProductCancel
<1> QED BY <1>1, <1>9 DEF MulFloor

\* What a user had when the deposit window closed: all of it is there until the
\* one withdrawal, and half of it at least afterwards.
Kept(u, p, n) ==
    /\ now >= DepositEnd
    /\ IF withdrawn[u] THEN deposited[u][p] + deposited[u][p] >= n
                       ELSE deposited[u][p] = n

\* A step in the withdrawal window keeps half of every deposit.
LEMMA KeptStep ==
    ASSUME NEW u \in Users, NEW p \in PoolType, NEW n \in 0..WALLET,
           AuctionTypeOK, Kept(u, p, n), [AuctionNext]_auctionVars
    PROVE  Kept(u, p, n)'
<1>0. /\ now \in Nat /\ deposited[u][p] \in Nat /\ DepositEnd \in Nat /\ n \in Nat
      /\ withdrawn[u] \in BOOLEAN
  BY WindowsOrdered, AmountAssumption DEF AuctionTypeOK
<1>1. ASSUME NEW v \in Users, NEW amount \in AssetAmounts, execute_withdraw(v, amount)
      PROVE  Kept(u, p, n)'
  <2>1. CASE v # u
    BY <1>1, <2>1 DEF execute_withdraw, Kept, AuctionTypeOK, DepositEnd
  <2>2. CASE v = u
    <3>0. amount \in [PoolType -> Nat]
      BY AmountAssumption DEF AssetAmounts
    <3>1. amount[p] \in Nat /\ amount[p] <= MulFloor(deposited[u][p], allowed_withdrawal_percent)
      BY <1>1, <2>2, <3>0 DEF execute_withdraw
    <3>2. /\ now = now' /\ withdrawn'[u] = TRUE /\ ~withdrawn[u]
          /\ deposited'[u][p] = deposited[u][p] - amount[p]
      BY <1>0, <1>1, <2>2 DEF execute_withdraw, AuctionTypeOK, Kept
    <3>3. deposited[u][p] = n /\ now >= DepositEnd
      BY <3>2 DEF Kept
    <3>4. allowed_withdrawal_percent \in Nat
          /\ 2 * allowed_withdrawal_percent <= DECIMAL_FRACTIONAL
      BY <1>0, <3>3, WindowAssumption, PercentAtMostHalf DEF allowed_withdrawal_percent
    <3>5. 2 * MulFloor(n, allowed_withdrawal_percent) <= n
          /\ MulFloor(n, allowed_withdrawal_percent) \in Nat
      BY <1>0, <3>4, HalfOfProduct, MulFloorNat
    <3>6. (n - amount[p]) + (n - amount[p]) >= n
      <4>1. PICK k \in Nat : k = MulFloor(n, allowed_withdrawal_percent)
        BY <3>5
      <4> QED BY <1>0, <3>1, <3>3, <3>5, <4>1
    <3>7. deposited'[u][p] + deposited'[u][p] >= n
      BY <3>2, <3>3, <3>6
    <3> QED BY <3>2, <3>3, <3>7 DEF Kept, DepositEnd
  <2> QED BY <2>1, <2>2
<1>2. \A v \in Users, funds \in AssetAmounts : ~execute_deposit(v, funds)
  BY <1>0 DEF execute_deposit, is_deposit_open, Kept
<1>3. CASE UNCHANGED <<now, withdrawn, deposited>>
  BY <1>3 DEF Kept, DepositEnd
<1>4. CASE Tick
  BY <1>0, <1>4 DEF Tick, NextBlock, userVars, Kept, DepositEnd
<1> QED
  BY <1>1, <1>2, <1>3, <1>4
     DEF AuctionNext, AuctionStep, FundNtrn, execute_update_config,
         execute_set_token_info, execute_migrate_to_vesting, execute_lock_lp_tokens,
         execute_withdraw_lp_tokens, execute_init_pool, execute_set_pool_size,
         userVars, auctionVars

\* Whenever the withdrawal after the deposit window is made, at least half of
\* what the user had when the window closed stays deposited for good.
THEOREM HalfStaysAlways == AuctionSpec => HalfStays
<1> SUFFICES ASSUME NEW u \in Users, NEW p \in PoolType, NEW n \in 0..WALLET
             PROVE  AuctionSpec =>
                        []((now = DepositEnd /\ ~withdrawn[u] /\ deposited[u][p] = n)
                               => [](deposited[u][p] + deposited[u][p] >= n))
  BY DEF HalfStays
<1>1. AuctionTypeOK /\ (now = DepositEnd /\ ~withdrawn[u] /\ deposited[u][p] = n)
          => Kept(u, p, n)
  BY WindowsOrdered DEF Kept
<1>2. AuctionTypeOK /\ Kept(u, p, n) /\ [AuctionNext]_auctionVars => Kept(u, p, n)'
  BY KeptStep
<1>3. AuctionTypeOK /\ Kept(u, p, n) => deposited[u][p] + deposited[u][p] >= n
  <2> SUFFICES ASSUME AuctionTypeOK, Kept(u, p, n)
               PROVE  deposited[u][p] + deposited[u][p] >= n
    OBVIOUS
  <2>1. deposited[u][p] \in Nat /\ n \in Nat /\ withdrawn[u] \in BOOLEAN
    BY AmountAssumption DEF AuctionTypeOK
  <2> QED BY <2>1 DEF Kept
<1> QED BY <1>1, <1>2, <1>3, AuctionTypeCorrect, PTL DEF AuctionSpec
=============================================================================
