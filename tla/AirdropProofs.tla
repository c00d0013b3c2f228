--------------------------- MODULE AirdropProofs ---------------------------
(***************************************************************************)
(* Theorems about the airdrop and the credits contract, for all users,      *)
(* amounts, schedules and sequences of messages, and about the two together *)
(* with the lockdrop.                                                       *)
(***************************************************************************)
EXTENDS Distribution, LockdropProofs

\* Truncating division by d is monotonic, and undoes a product with d.
LEMMA DivMonotonic ==
    ASSUME NEW m \in Nat, NEW n \in Nat, NEW d \in Nat \ {0}, m <= n
    PROVE  m \div d <= n \div d
OBVIOUS

\* Arithmetic: division cancels a factor.
LEMMA DivOfProduct ==
    ASSUME NEW a \in Nat, NEW d \in Nat \ {0}
    PROVE  (a * d) \div d = a
OBVIOUS

\* Products grow with a factor.
LEMMA ProductMonotonic ==
    ASSUME NEW a \in Nat, NEW x \in Nat, NEW y \in Nat, x <= y
    PROVE  a * x \in Nat /\ a * y \in Nat /\ a * x <= a * y
<1>1. \E z \in Nat : y = x + z
  <2>1. y - x \in Nat /\ y = x + (y - x)
    OBVIOUS
  <2> QED BY <2>1
<1>2. PICK z \in Nat : y = x + z
  BY <1>1
<1>3. a * z \in Nat /\ a * x \in Nat
  OBVIOUS
<1>4. a * y = a * x + a * z
  BY <1>2
<1> QED BY <1>3, <1>4

\* What has vested is a natural number, never more than the allocation, and
\* does not shrink as time passes.
LEMMA VestedGrows ==
    ASSUME NEW al \in AllocationRecords, NEW t \in Nat, NEW t2 \in Nat, t <= t2
    PROVE  /\ Vested(al, t) \in Nat
           /\ Vested(al, t) <= al.allocated_amount
           /\ Vested(al, t) <= Vested(al, t2)
<1> DEFINE a == al.allocated_amount
           s == al.schedule.start_time
           c == al.schedule.cliff
           d == al.schedule.duration
           V(x) == IF x < s + c THEN 0
                   ELSE IF x < s + d THEN (a * (x - s)) \div d ELSE a
<1>1. a \in Nat /\ s \in Nat /\ c \in Nat /\ d \in Nat
  BY DEF AllocationRecords
<1>2. \A x \in Nat : Vested(al, x) = V(x)
  BY DEF Vested
<1> HIDE DEF a, s, c, d
<1>3. ASSUME NEW x \in Nat, s + c <= x, x < s + d
      PROVE  (a * (x - s)) \div d \in Nat /\ (a * (x - s)) \div d <= a
  <2>1. x - s \in Nat /\ d \in Nat \ {0} /\ x - s <= d
    BY <1>1, <1>3
  <2>2. a * (x - s) \in Nat /\ a * d \in Nat /\ a * (x - s) <= a * d
    BY <1>1, <2>1, ProductMonotonic
  <2>3. (a * (x - s)) \div d <= (a * d) \div d
    BY <2>1, <2>2, DivMonotonic
  <2>4. (a * d) \div d = a
    BY <1>1, <2>1, DivOfProduct
  <2>5. (a * (x - s)) \div d \in Nat
    BY <2>1, <2>2
  <2> QED BY <2>3, <2>4, <2>5
<1>4. ASSUME NEW x \in Nat PROVE V(x) \in Nat /\ V(x) <= a
  BY <1>1, <1>3
<1>5. V(t) <= V(t2)
  <2>1. CASE t < s + c
    BY <2>1, <1>4, <1>1
  <2>2. CASE s + c <= t /\ t2 < s + d
    <3>1. t - s \in Nat /\ t2 - s \in Nat /\ t - s <= t2 - s /\ d \in Nat \ {0}
      BY <2>2, <1>1
    <3>2. /\ a * (t - s) \in Nat /\ a * (t2 - s) \in Nat
          /\ a * (t - s) <= a * (t2 - s)
      BY <3>1, <1>1, ProductMonotonic
    <3>3. (a * (t - s)) \div d <= (a * (t2 - s)) \div d
      BY <3>1, <3>2, DivMonotonic
    <3> QED BY <3>3, <2>2, <1>1
  <2>3. CASE s + c <= t /\ s + d <= t2
    <3>1. V(t2) = a
      BY <2>3, <1>1
    <3> QED BY <3>1, <1>4
  <2> QED BY <2>1, <2>2, <2>3, <1>1
<1>6. Vested(al, t) = V(t) /\ Vested(al, t2) = V(t2)
  BY <1>2
<1> QED BY <1>4, <1>5, <1>6 DEF a
-----------------------------------------------------------------------------
(***************************************************************************)
(* The inductive invariant. HoldersAccounted alone does not bound what the  *)
(* queries return (WithdrawnWithinVested does), and the supply stays a      *)
(* natural number only because it equals the untrn that the bank checks     *)
(* (SupplyHeld).                                                            *)
(***************************************************************************)
AirdropInv ==
    /\ AirdropTypeOK
    /\ SupplyHeld
    /\ HoldersAccounted
    /\ WithdrawnWithinVested

\* The accounts that the contracts pay, and what TypeOK says of them.
LEMMA AccountsApart ==
    /\ \A u \in Users : u \in Holders /\ u \in Accounts /\ u # CREDITS
    /\ \A u \in Users : u \notin AirdropAddrs /\ u \notin Reserves
    /\ \A r \in Reserves : r \in Accounts /\ r # CREDITS
    /\ AIRDROP \in Holders /\ CREDITS \in Accounts
    /\ \A a \in AirdropAddrs : a \in Holders
BY CreditsAssumption, AirdropAssumption DEF Holders, Accounts

\* A burn takes the amount from the holder and from the supply, and moves as
\* much untrn from the credits contract to the recipient.
LEMMA BurnMoves ==
    ASSUME AirdropTypeOK, SupplyHeld,
           NEW holder \in Holders, NEW to \in Users \cup Reserves, NEW amount \in Nat,
           burn_and_send(holder, to, amount)
    PROVE  /\ balances' \in [Holders -> Nat]
           /\ total_supply' \in Nat
           /\ untrn' \in [Accounts -> Nat]
           /\ SupplyHeld'
           /\ amount > 0
           /\ balances'[holder] = balances[holder] - amount
           /\ \A h \in Holders : h # holder => balances'[h] = balances[h]
           /\ untrn'[to] = untrn[to] + amount
           /\ \A v \in Users : v # to => untrn'[v] = untrn[v]
<1>1. /\ amount # 0 /\ amount <= balances[holder] /\ amount <= untrn[CREDITS]
      /\ balances' = [balances EXCEPT ![holder] = @ - amount]
      /\ total_supply' = total_supply - amount
      /\ untrn' = [[untrn EXCEPT ![CREDITS] = @ - amount] EXCEPT ![to] = @ + amount]
  BY DEF burn_and_send
<1>2. to \in Accounts /\ to # CREDITS /\ CREDITS \in Accounts
  BY AccountsApart
<1>3. balances \in [Holders -> Nat] /\ untrn \in [Accounts -> Nat]
      /\ untrn[CREDITS] = total_supply
  BY DEF AirdropTypeOK, SupplyHeld
<1>4. untrn[CREDITS] \in Nat /\ untrn[CREDITS] - amount \in Nat
      /\ balances[holder] - amount \in Nat
  BY <1>1, <1>2, <1>3
<1>5. untrn' \in [Accounts -> Nat] /\ untrn'[CREDITS] = untrn[CREDITS] - amount
      /\ untrn'[to] = untrn[to] + amount
  BY <1>1, <1>2, <1>3, <1>4
<1>6. \A v \in Users : v # to => untrn'[v] = untrn[v]
  BY <1>1, <1>3, AccountsApart
<1>7. balances' \in [Holders -> Nat] /\ balances'[holder] = balances[holder] - amount
      /\ \A h \in Holders : h # holder => balances'[h] = balances[h]
  BY <1>1, <1>3, <1>4
<1>8. total_supply' \in Nat /\ SupplyHeld'
  BY <1>1, <1>3, <1>4, <1>5 DEF SupplyHeld
<1>9. amount > 0
  BY <1>1
<1> QED BY <1>5, <1>6, <1>7, <1>8, <1>9, Zenon

\* What the two queries return for a user with an allocation.
LEMMA QueriesBounded ==
    ASSUME AirdropInv, NEW u \in DOMAIN allocations
    PROVE  /\ u \in Users
           /\ balances[u] \in Nat
           /\ compute_withdrawable_amount(allocations[u], now) \in Nat
           /\ query_withdrawable_amount(u) \in 0..balances[u]
           /\ query_vested_amount(u) = balances[u] - query_withdrawable_amount(u)
<1>1. u \in Users /\ allocations[u] \in AllocationRecords /\ now \in Nat
  BY DEF AirdropInv, AirdropTypeOK
<1>2. balances[u] \in Nat
  BY <1>1, AccountsApart DEF AirdropInv, AirdropTypeOK
<1>3. allocations[u].withdrawn_amount \in Nat
      /\ allocations[u].withdrawn_amount <= Vested(allocations[u], now)
  BY <1>1 DEF AirdropInv, WithdrawnWithinVested, AllocationRecords
<1>4. Vested(allocations[u], now) \in Nat
  BY <1>1, VestedGrows
<1>5. compute_withdrawable_amount(allocations[u], now) \in Nat
  BY <1>3, <1>4 DEF compute_withdrawable_amount
<1>6. query_withdrawable_amount(u) \in 0..balances[u]
  BY <1>2, <1>5 DEF query_withdrawable_amount, SmallerOf
<1> QED BY <1>1, <1>2, <1>5, <1>6 DEF query_vested_amount

\* The amount of the lockdrop's BurnFrom lies within the balance, and is not
\* zero for a user with tokens and a positive reward.
LEMMA BurnWithinBalance ==
    ASSUME AirdropInv, NEW u \in DOMAIN allocations, NEW reward \in Nat
    PROVE  /\ AirdropTokensWithMultiplier(u, reward) \in 0..balances[u]
           /\ (balances[u] > 0 /\ reward > 0) =>
                  AirdropTokensWithMultiplier(u, reward) \in 1..balances[u]
<1> DEFINE w == query_withdrawable_amount(u)
<1>1. balances[u] \in Nat /\ w \in 0..balances[u]
      /\ query_vested_amount(u) = balances[u] - w
  BY QueriesBounded
<1> HIDE DEF w
<1>2. AirdropTokensWithMultiplier(u, reward)
        = (IF balances[u] - w < reward THEN balances[u] - w ELSE reward) + w
  BY <1>1 DEF AirdropTokensWithMultiplier, SmallerOf, w
<1> QED BY <1>1, <1>2

\* The inductive invariant holds of the instantiated contracts.
LEMMA AirdropInvInit == AirdropInit => AirdropInv
<1> SUFFICES ASSUME AirdropInit PROVE AirdropInv
  OBVIOUS
<1> USE DEF AirdropInit, CreditsInit
<1>1. DOMAIN allocations = {}
  OBVIOUS
<1>2. AirdropTypeOK
  <2>1. now \in Nat
    BY AirdropAssumption
  <2>2. credits_config \in [airdrop : AirdropAddrs \cup {NONE},
                            lockdrop : LockdropAddrs \cup {NONE},
                            when_withdrawable : Nat \cup {NONE}]
    OBVIOUS
  <2>3. /\ balances \in [Holders -> Nat] /\ untrn \in [Accounts -> Nat]
        /\ rewards_burned \in [Users -> Nat]
    OBVIOUS
  <2>4. /\ DOMAIN allocations \subseteq Users
        /\ \A u \in DOMAIN allocations : allocations[u] \in AllocationRecords
    BY <1>1
  <2>5. /\ total_supply \in Nat /\ minted \in Nat /\ claimed \subseteq Users
        /\ amount_claimed \in Nat /\ paused \in BOOLEAN
        /\ reserve_address \in Reserves
    BY AirdropAssumption
  <2> QED BY <2>1, <2>2, <2>3, <2>4, <2>5 DEF AirdropTypeOK
<1>3. SupplyHeld
  BY AccountsApart DEF SupplyHeld
<1>4. HoldersAccounted
  BY <1>1, AccountsApart DEF HoldersAccounted
<1>5. WithdrawnWithinVested
  BY <1>1 DEF WithdrawnWithinVested
<1> QED BY <1>2, <1>3, <1>4, <1>5 DEF AirdropInv
\* A step that moves no token, untrn or allocation keeps the ledgers.
LEMMA LedgersUnmoved ==
    ASSUME AirdropInv, now' = now,
           UNCHANGED <<balances, total_supply, allocations, rewards_burned, untrn>>
    PROVE  SupplyHeld' /\ HoldersAccounted' /\ WithdrawnWithinVested'
<1>1. SupplyHeld'
  BY DEF AirdropInv, SupplyHeld
<1>2. HoldersAccounted'
  BY DEF AirdropInv, HoldersAccounted
<1>3. WithdrawnWithinVested'
  BY DEF AirdropInv, WithdrawnWithinVested, Vested
<1> QED BY <1>1, <1>2, <1>3

\* As time passes more has vested.
LEMMA TickKeeps == AirdropInv /\ AirdropTick => AirdropInv'
<1> SUFFICES ASSUME AirdropInv, AirdropTick PROVE AirdropInv'
  OBVIOUS
<1>1. now \in Nat /\ now' \in Nat /\ now <= now'
  BY DEF AirdropInv, AirdropTypeOK, AirdropTick, NextBlock
<1>2. /\ UNCHANGED <<credits_config, balances, total_supply, minted, allocations,
                     rewards_burned, untrn>>
      /\ UNCHANGED <<claimed, amount_claimed, paused, reserve_address>>
  BY DEF AirdropTick, creditsVars, claimVars
<1>3. AirdropTypeOK'
  BY <1>1, <1>2 DEF AirdropInv, AirdropTypeOK
<1>4. SupplyHeld' /\ HoldersAccounted'
  BY <1>2 DEF AirdropInv, SupplyHeld, HoldersAccounted
<1>5. WithdrawnWithinVested'
  <2> SUFFICES ASSUME NEW u \in DOMAIN allocations
               PROVE  allocations[u].withdrawn_amount <= Vested(allocations[u], now')
    BY <1>2 DEF WithdrawnWithinVested, Vested
  <2>1. allocations[u] \in AllocationRecords
    BY DEF AirdropInv, AirdropTypeOK
  <2>2. /\ Vested(allocations[u], now) \in Nat
        /\ Vested(allocations[u], now') \in Nat
        /\ Vested(allocations[u], now) <= Vested(allocations[u], now')
    BY <1>1, <2>1, VestedGrows
  <2>3. /\ allocations[u].withdrawn_amount \in Nat
        /\ allocations[u].withdrawn_amount <= Vested(allocations[u], now)
    BY <2>1 DEF AirdropInv, WithdrawnWithinVested, AllocationRecords
  <2> QED BY <2>2, <2>3
<1> QED BY <1>3, <1>4, <1>5 DEF AirdropInv

\* Minting credits to the airdrop contract keeps the invariant.
LEMMA MintKeeps ==
    ASSUME AirdropInv, NEW sender, NEW amount \in MintAmounts,
           execute_mint(sender, amount), UNCHANGED claimVars
    PROVE  AirdropInv'
<1> DEFINE airdrop == credits_config.airdrop
<1>1. airdrop \in AirdropAddrs /\ amount \in Nat
  BY CreditsAssumption DEF AirdropInv, AirdropTypeOK, execute_mint
<1>2. /\ balances' = [balances EXCEPT ![airdrop] = @ + amount]
      /\ total_supply' = total_supply + amount
      /\ minted' = minted + amount
      /\ untrn' = [untrn EXCEPT ![CREDITS] = @ + amount]
      /\ UNCHANGED <<now, credits_config, allocations, rewards_burned>>
      /\ UNCHANGED <<claimed, amount_claimed, paused, reserve_address>>
  BY DEF execute_mint, claimVars
<1> HIDE DEF airdrop
<1>3. balances \in [Holders -> Nat] /\ untrn \in [Accounts -> Nat]
      /\ total_supply \in Nat /\ minted \in Nat
  BY DEF AirdropInv, AirdropTypeOK
<1>4. balances' \in [Holders -> Nat] /\ untrn' \in [Accounts -> Nat]
      /\ total_supply' \in Nat /\ minted' \in Nat
  BY <1>1, <1>2, <1>3, AccountsApart
<1>5. AirdropTypeOK'
  BY <1>2, <1>4 DEF AirdropInv, AirdropTypeOK
<1>6. SupplyHeld'
  BY <1>2, <1>3, AccountsApart DEF AirdropInv, SupplyHeld
<1>7. \A u \in Users : balances'[u] = balances[u] /\ untrn'[u] = untrn[u]
  BY <1>1, <1>2, <1>3, AccountsApart
<1>8. HoldersAccounted'
  BY <1>2, <1>7 DEF AirdropInv, HoldersAccounted
<1>9. WithdrawnWithinVested'
  BY <1>2 DEF AirdropInv, WithdrawnWithinVested, Vested
<1> QED BY <1>5, <1>6, <1>8, <1>9 DEF AirdropInv

\* Withdraw pays no more than has vested, once.
LEMMA CreditsWithdrawKeeps ==
    ASSUME AirdropInv, NEW u \in Users, execute_withdraw(u), UNCHANGED claimVars
    PROVE  AirdropInv'
<1> DEFINE max == compute_withdrawable_amount(allocations[u], now)
           amount == SmallerOf(max, balances[u])
<1>1. /\ u \in DOMAIN allocations
      /\ allocations' = [allocations EXCEPT ![u].withdrawn_amount = @ + amount]
      /\ burn_and_send(u, u, amount)
      /\ UNCHANGED <<now, credits_config, minted, rewards_burned>>
      /\ UNCHANGED <<claimed, amount_claimed, paused, reserve_address>>
  BY DEF execute_withdraw, claimVars
<1>2. max \in Nat /\ balances[u] \in Nat
  BY <1>1, QueriesBounded
<1>3. max = Vested(allocations[u], now) - allocations[u].withdrawn_amount
  BY DEF compute_withdrawable_amount
<1>4. amount \in Nat /\ amount <= max /\ amount <= balances[u]
  <2> HIDE DEF max
  <2> QED BY <1>2 DEF SmallerOf
<1> HIDE DEF max, amount
<1>5. /\ balances' \in [Holders -> Nat] /\ total_supply' \in Nat
      /\ untrn' \in [Accounts -> Nat] /\ SupplyHeld'
      /\ balances'[u] = balances[u] - amount
      /\ \A h \in Holders : h # u => balances'[h] = balances[h]
      /\ untrn'[u] = untrn[u] + amount
      /\ \A v \in Users : v # u => untrn'[v] = untrn[v]
  BY <1>1, <1>4, BurnMoves, AccountsApart DEF AirdropInv
<1>6. /\ allocations[u] \in AllocationRecords /\ now \in Nat
      /\ allocations[u].withdrawn_amount \in Nat
      /\ allocations[u].allocated_amount \in Nat
      /\ rewards_burned[u] \in Nat /\ untrn[u] \in Nat
  BY <1>1, AccountsApart DEF AirdropInv, AirdropTypeOK, AllocationRecords
<1>7. /\ DOMAIN allocations' = DOMAIN allocations
      /\ allocations'[u] \in AllocationRecords
      /\ allocations'[u].withdrawn_amount = allocations[u].withdrawn_amount + amount
      /\ allocations'[u].allocated_amount = allocations[u].allocated_amount
      /\ allocations'[u].schedule = allocations[u].schedule
      /\ \A v \in DOMAIN allocations : v # u => allocations'[v] = allocations[v]
  BY <1>1, <1>4, <1>6 DEF AllocationRecords
<1>8. AirdropTypeOK'
  <2>1. DOMAIN allocations' \subseteq Users
        /\ \A v \in DOMAIN allocations' : allocations'[v] \in AllocationRecords
    BY <1>7 DEF AirdropInv, AirdropTypeOK
  <2> QED BY <2>1, <1>1, <1>5 DEF AirdropInv, AirdropTypeOK
<1>9. HoldersAccounted'
  <2>1. /\ balances'[u] + allocations'[u].withdrawn_amount + rewards_burned'[u]
               = allocations'[u].allocated_amount
        /\ untrn'[u] = allocations'[u].withdrawn_amount + rewards_burned'[u]
    BY <1>1, <1>2, <1>4, <1>5, <1>6, <1>7 DEF AirdropInv, HoldersAccounted
  <2>2. \A v \in Users : v # u => /\ balances'[v] = balances[v] /\ untrn'[v] = untrn[v]
                                 /\ rewards_burned'[v] = rewards_burned[v]
    BY <1>1, <1>5, AccountsApart
  <2> QED BY <1>1, <1>7, <2>1, <2>2 DEF AirdropInv, HoldersAccounted
<1>10. WithdrawnWithinVested'
  <2>1. Vested(allocations[u], now) \in Nat
    BY <1>6, VestedGrows
  <2>2. Vested(allocations'[u], now') = Vested(allocations[u], now)
    BY <1>1, <1>7 DEF Vested
  <2>3. allocations'[u].withdrawn_amount <= Vested(allocations'[u], now')
    BY <1>2, <1>3, <1>4, <1>6, <1>7, <2>1, <2>2
  <2>4. \A v \in DOMAIN allocations : v # u =>
            allocations'[v].withdrawn_amount <= Vested(allocations'[v], now')
    BY <1>1, <1>7 DEF AirdropInv, WithdrawnWithinVested, Vested
  <2> QED BY <1>7, <2>3, <2>4 DEF WithdrawnWithinVested, Vested
<1> QED BY <1>5, <1>8, <1>9, <1>10 DEF AirdropInv
\* A claim opens an allocation of what it transfers, from nothing.
LEMMA AirdropClaimKeeps ==
    ASSUME AirdropInv, NEW u \in Users, NEW amount \in ClaimAmounts,
           execute_claim(u, amount)
    PROVE  AirdropInv'
<1> DEFINE new == [allocated_amount |-> amount, withdrawn_amount |-> 0,
                   schedule |-> [start_time |-> VESTING_START,
                                 cliff |-> VESTING_CLIFF,
                                 duration |-> VESTING_DURATION]]
<1>1. /\ u \notin DOMAIN allocations
      /\ amount <= balances[AIRDROP]
      /\ balances' = [balances EXCEPT ![AIRDROP] = @ - amount, ![u] = @ + amount]
      /\ allocations' = [v \in DOMAIN allocations \cup {u} |->
                             IF v = u THEN new ELSE allocations[v]]
      /\ UNCHANGED <<now, credits_config, total_supply, minted, rewards_burned, untrn>>
      /\ claimed' = claimed \cup {u}
      /\ amount_claimed' = amount_claimed + amount
      /\ UNCHANGED <<paused, reserve_address>>
  BY DEF execute_claim, TransferAndVest
<1>2. amount \in Nat /\ new \in AllocationRecords
  BY AirdropAssumption DEF AllocationRecords, VESTING_CLIFF
<1>3. AIRDROP \in Holders /\ u \in Holders /\ u # AIRDROP
  BY AccountsApart, AirdropAssumption
<1>4. balances \in [Holders -> Nat]
  BY DEF AirdropInv, AirdropTypeOK
<1>5. /\ balances' \in [Holders -> Nat]
      /\ balances'[u] = balances[u] + amount
      /\ \A v \in Users : v # u => balances'[v] = balances[v]
  BY <1>1, <1>2, <1>3, <1>4, AccountsApart, AirdropAssumption
<1>6. /\ DOMAIN allocations' = DOMAIN allocations \cup {u}
      /\ allocations'[u] = new
      /\ \A v \in DOMAIN allocations : allocations'[v] = allocations[v]
  BY <1>1
<1>7. AirdropTypeOK'
  <2>1. DOMAIN allocations' \subseteq Users
        /\ \A v \in DOMAIN allocations' : allocations'[v] \in AllocationRecords
    BY <1>2, <1>6 DEF AirdropInv, AirdropTypeOK
  <2>2. claimed' \subseteq Users /\ amount_claimed' \in Nat
    BY <1>1, <1>2 DEF AirdropInv, AirdropTypeOK
  <2> QED BY <1>1, <1>5, <2>1, <2>2 DEF AirdropInv, AirdropTypeOK
<1>8. SupplyHeld'
  BY <1>1 DEF AirdropInv, SupplyHeld
<1>9. HoldersAccounted'
  <2>1. balances[u] = 0 /\ untrn[u] = 0 /\ rewards_burned[u] \in Nat
    BY <1>1 DEF AirdropInv, HoldersAccounted, AirdropTypeOK
  <2>2. rewards_burned[u] = 0
    BY <1>1 DEF AirdropInv, HoldersAccounted
  <2>3. /\ balances'[u] + allocations'[u].withdrawn_amount + rewards_burned'[u]
               = allocations'[u].allocated_amount
        /\ untrn'[u] = allocations'[u].withdrawn_amount + rewards_burned'[u]
    BY <1>1, <1>2, <1>5, <1>6, <2>1, <2>2
  <2> QED BY <1>1, <1>5, <1>6, <2>3 DEF AirdropInv, HoldersAccounted
<1>10. WithdrawnWithinVested'
  <2>1. now \in Nat /\ now' = now
    BY <1>1 DEF AirdropInv, AirdropTypeOK
  <2>2. Vested(new, now) \in Nat
    BY <1>2, <2>1, VestedGrows
  <2>3. allocations'[u].withdrawn_amount <= Vested(allocations'[u], now')
    BY <1>6, <2>1, <2>2
  <2>4. \A v \in DOMAIN allocations :
            allocations'[v].withdrawn_amount <= Vested(allocations'[v], now')
    BY <1>6, <2>1 DEF AirdropInv, WithdrawnWithinVested
  <2> QED BY <1>6, <2>3, <2>4 DEF WithdrawnWithinVested, Vested
<1> QED BY <1>7, <1>8, <1>9, <1>10 DEF AirdropInv

\* WithdrawAll touches no user.
LEMMA WithdrawAllKeeps ==
    ASSUME AirdropInv, NEW sender, execute_withdraw_all(sender)
    PROVE  AirdropInv'
<1> DEFINE amount == balances[AIRDROP]
<1>1. /\ burn_and_send(AIRDROP, reserve_address, amount)
      /\ UNCHANGED <<now, credits_config, minted, allocations, rewards_burned>>
      /\ UNCHANGED <<claimed, amount_claimed, paused, reserve_address>>
  BY DEF execute_withdraw_all, execute_burn, claimVars
<1>2. AIRDROP \in Holders /\ reserve_address \in Reserves /\ amount \in Nat
  BY AccountsApart DEF AirdropInv, AirdropTypeOK
<1> HIDE DEF amount
<1>3. /\ balances' \in [Holders -> Nat] /\ total_supply' \in Nat
      /\ untrn' \in [Accounts -> Nat] /\ SupplyHeld'
      /\ \A h \in Holders : h # AIRDROP => balances'[h] = balances[h]
      /\ \A v \in Users : v # reserve_address => untrn'[v] = untrn[v]
  BY <1>1, <1>2, BurnMoves DEF AirdropInv
<1>4. AirdropTypeOK'
  BY <1>1, <1>3 DEF AirdropInv, AirdropTypeOK
<1>5. \A u \in Users : balances'[u] = balances[u] /\ untrn'[u] = untrn[u]
  BY <1>2, <1>3, AccountsApart, AirdropAssumption
<1>6. HoldersAccounted'
  BY <1>1, <1>5 DEF AirdropInv, HoldersAccounted
<1>7. WithdrawnWithinVested'
  BY <1>1 DEF AirdropInv, WithdrawnWithinVested, Vested
<1> QED BY <1>3, <1>4, <1>6, <1>7 DEF AirdropInv

\* BurnFrom leaves the allocation and with it the schedule alone.
LEMMA BurnFromKeeps ==
    ASSUME AirdropInv, NEW u \in Users, NEW reward \in Nat,
           ClaimAirdropTokens(u, reward)
    PROVE  AirdropInv'
<1> DEFINE amount == AirdropTokensWithMultiplier(u, reward)
<1>1. /\ u \in DOMAIN allocations
      /\ burn_and_send(u, u, amount)
      /\ rewards_burned' = [rewards_burned EXCEPT ![u] = @ + amount]
      /\ UNCHANGED <<now, credits_config, minted, allocations>>
      /\ UNCHANGED <<claimed, amount_claimed, paused, reserve_address>>
  BY DEF ClaimAirdropTokens, execute_burn_from, claimVars
<1>2. balances[u] \in Nat
  BY <1>1, QueriesBounded
<1>3. amount \in 0..balances[u]
  BY <1>1, <1>2, BurnWithinBalance
<1> HIDE DEF amount
<1>4. /\ balances' \in [Holders -> Nat] /\ total_supply' \in Nat
      /\ untrn' \in [Accounts -> Nat] /\ SupplyHeld'
      /\ balances'[u] = balances[u] - amount
      /\ \A h \in Holders : h # u => balances'[h] = balances[h]
      /\ untrn'[u] = untrn[u] + amount
      /\ \A v \in Users : v # u => untrn'[v] = untrn[v]
  BY <1>1, <1>2, <1>3, BurnMoves, AccountsApart DEF AirdropInv
<1>5. /\ rewards_burned \in [Users -> Nat]
      /\ allocations[u].withdrawn_amount \in Nat
      /\ allocations[u].allocated_amount \in Nat
      /\ untrn[u] \in Nat
  BY <1>1, AccountsApart DEF AirdropInv, AirdropTypeOK, AllocationRecords
<1>6. /\ rewards_burned' \in [Users -> Nat]
      /\ rewards_burned'[u] = rewards_burned[u] + amount
      /\ \A v \in Users : v # u => rewards_burned'[v] = rewards_burned[v]
  BY <1>1, <1>2, <1>3, <1>5
<1>7. AirdropTypeOK'
  BY <1>1, <1>4, <1>6 DEF AirdropInv, AirdropTypeOK
<1>8. HoldersAccounted'
  <2>1. /\ balances'[u] + allocations[u].withdrawn_amount + rewards_burned'[u]
               = allocations[u].allocated_amount
        /\ untrn'[u] = allocations[u].withdrawn_amount + rewards_burned'[u]
    BY <1>1, <1>2, <1>3, <1>4, <1>5, <1>6 DEF AirdropInv, HoldersAccounted
  <2>2. \A v \in Users : v # u => balances'[v] = balances[v] /\ untrn'[v] = untrn[v]
    BY <1>4, AccountsApart
  <2> QED BY <1>1, <1>6, <2>1, <2>2 DEF AirdropInv, HoldersAccounted
<1>9. WithdrawnWithinVested'
  BY <1>1 DEF AirdropInv, WithdrawnWithinVested, Vested
<1> QED BY <1>4, <1>7, <1>8, <1>9 DEF AirdropInv

\* The remaining messages change configuration and flags only.
LEMMA SettingsKeep ==
    ASSUME AirdropInv, NEW s,
           \/ /\ \E a \in AirdropAddrs \cup {NONE}, l \in LockdropAddrs \cup {NONE},
                    t \in WithdrawableTimes \cup {NONE} :
                     execute_update_config(s, a, l, t)
              /\ UNCHANGED claimVars
           \/ \E r \in Reserves : execute_update_reserve(s, r)
           \/ execute_pause(s)
           \/ execute_resume(s)
    PROVE  AirdropInv'
<1>1. /\ now' = now
      /\ UNCHANGED <<balances, total_supply, minted, allocations, rewards_burned, untrn>>
      /\ UNCHANGED <<claimed, amount_claimed>>
  BY DEF execute_update_config, execute_update_reserve, execute_pause,
         execute_resume, claimVars, creditsVars
<1>2. /\ paused' \in BOOLEAN /\ reserve_address' \in Reserves
      /\ credits_config' \in [airdrop : AirdropAddrs \cup {NONE},
                               lockdrop : LockdropAddrs \cup {NONE},
                               when_withdrawable : Nat \cup {NONE}]
  <2>1. CASE /\ \E a \in AirdropAddrs \cup {NONE}, l \in LockdropAddrs \cup {NONE},
                   t \in WithdrawableTimes \cup {NONE} :
                    execute_update_config(s, a, l, t)
             /\ UNCHANGED claimVars
    <3>1. PICK a \in AirdropAddrs \cup {NONE}, l \in LockdropAddrs \cup {NONE},
               t \in WithdrawableTimes \cup {NONE} : execute_update_config(s, a, l, t)
      BY <2>1
    <3>2. /\ credits_config.airdrop \in AirdropAddrs \cup {NONE}
          /\ credits_config.lockdrop \in LockdropAddrs \cup {NONE}
          /\ credits_config.when_withdrawable \in Nat \cup {NONE}
          /\ t \in Nat \cup {NONE}
      BY CreditsAssumption DEF AirdropInv, AirdropTypeOK
    <3>3. credits_config' \in [airdrop : AirdropAddrs \cup {NONE},
                               lockdrop : LockdropAddrs \cup {NONE},
                               when_withdrawable : Nat \cup {NONE}]
      BY <3>1, <3>2 DEF execute_update_config
    <3> QED BY <2>1, <3>3 DEF claimVars, AirdropInv, AirdropTypeOK
  <2>2. CASE \E r \in Reserves : execute_update_reserve(s, r)
    BY <2>2 DEF AirdropInv, AirdropTypeOK, execute_update_reserve, creditsVars
  <2>3. CASE execute_pause(s) \/ execute_resume(s)
    BY <2>3 DEF AirdropInv, AirdropTypeOK, execute_pause, execute_resume, creditsVars
  <2> QED BY <2>1, <2>2, <2>3
<1>3. AirdropTypeOK'
  BY <1>1, <1>2 DEF AirdropInv, AirdropTypeOK
<1> QED BY <1>1, <1>3, LedgersUnmoved DEF AirdropInv

\* Every step of airdrop and credits contract keeps the invariant.
LEMMA AirdropInvStep == AirdropInv /\ [AirdropNext]_airdropVars => AirdropInv'
<1> SUFFICES ASSUME AirdropInv, [AirdropNext]_airdropVars PROVE AirdropInv'
  OBVIOUS
<1>1. CASE AirdropTick
  BY <1>1, TickKeeps
<1>2. CASE CreditsStep /\ UNCHANGED claimVars
  BY <1>2, SettingsKeep, MintKeeps, CreditsWithdrawKeeps DEF CreditsStep
<1>3. CASE \E u \in Users, amount \in ClaimAmounts : execute_claim(u, amount)
  BY <1>3, AirdropClaimKeeps
<1>4. CASE \E s \in Parties : execute_withdraw_all(s)
  BY <1>4, WithdrawAllKeeps
<1>5. CASE \/ \E s \in Parties, r \in Reserves : execute_update_reserve(s, r)
           \/ \E s \in Parties : execute_pause(s)
           \/ \E s \in Parties : execute_resume(s)
  BY <1>5, SettingsKeep
<1>6. CASE \E u \in Users, reward \in LockdropRewards :
               balances[u] > 0 /\ ClaimAirdropTokens(u, reward)
  BY <1>6, BurnFromKeeps, AirdropAssumption
<1>7. CASE UNCHANGED airdropVars
  <2>1. /\ now' = now
        /\ UNCHANGED <<credits_config, balances, total_supply, minted, allocations,
                       rewards_burned, untrn>>
        /\ UNCHANGED <<claimed, amount_claimed, paused, reserve_address>>
    BY <1>7 DEF airdropVars, creditsVars, claimVars
  <2>2. AirdropTypeOK'
    BY <2>1 DEF AirdropInv, AirdropTypeOK
  <2> QED BY <2>1, <2>2, LedgersUnmoved DEF AirdropInv
<1> QED BY <1>1, <1>2, <1>3, <1>4, <1>5, <1>6, <1>7 DEF AirdropNext, AirdropStep

\* The inductive invariant holds in every reachable state.
THEOREM AirdropInvariant == AirdropSpec => []AirdropInv
BY AirdropInvInit, AirdropInvStep, PTL DEF AirdropSpec

\* No balance of the credits contract, its holders or the bank becomes
\* negative, whoever sends what.
THEOREM AirdropTypeCorrect == AirdropSpec => []AirdropTypeOK
<1>1. AirdropInv => AirdropTypeOK
  BY DEF AirdropInv
<1> QED BY <1>1, AirdropInvariant, PTL

\* The two ways out of an allocation, Withdraw and BurnFrom, never pay the
\* same token twice and never lose one.
THEOREM HoldersAccountedAlways == AirdropSpec => []HoldersAccounted
<1>1. AirdropInv => HoldersAccounted
  BY DEF AirdropInv
<1> QED BY <1>1, AirdropInvariant, PTL

\* The checked subtraction of compute_withdrawable_amount never fails, for any
\* schedule: withdrawn stays within vested.
THEOREM WithdrawnWithinVestedAlways == AirdropSpec => []WithdrawnWithinVested
<1>1. AirdropInv => WithdrawnWithinVested
  BY DEF AirdropInv
<1> QED BY <1>1, AirdropInvariant, PTL

\* The credits contract never refuses the BurnFrom of a lockdrop claim with a
\* positive reward for a user who holds tokens.
THEOREM LockdropBurnAcceptedAlways == AirdropSpec => []LockdropBurnAccepted
<1>1. AirdropInv => LockdropBurnAccepted
  <2> SUFFICES ASSUME AirdropInv, NEW u \in Users, balances[u] > 0
               PROVE  /\ u \in DOMAIN allocations
                      /\ \A reward \in LockdropRewards : reward > 0 =>
                             AirdropTokensWithMultiplier(u, reward) \in 1..balances[u]
    BY DEF LockdropBurnAccepted
  <2>1. u \in DOMAIN allocations
    BY DEF AirdropInv, HoldersAccounted
  <2>2. LockdropRewards \subseteq Nat
    BY AirdropAssumption
  <2> QED BY <2>1, <2>2, BurnWithinBalance
<1> QED BY <1>1, AirdropInvariant, PTL
-----------------------------------------------------------------------------
\* The tokens of all holders together.
SupplySpread == total_supply = SumOver(balances, Holders)

\* The accounts that may hold credits are finitely many.
LEMMA HoldersFinite == IsFiniteSet(Holders)
BY UsersAssumption, CreditsAssumption, FS_Union DEF Holders

\* The balance of one holder and the supply change by the same amount.
LEMMA SupplyMoves ==
    ASSUME balances \in [Holders -> Nat], balances' \in [Holders -> Nat], SupplySpread,
           NEW h \in Holders, NEW d \in Int,
           balances'[h] = balances[h] + d,
           \A g \in Holders \ {h} : balances'[g] = balances[g],
           total_supply' = total_supply + d
    PROVE  SupplySpread'
<1>1. PICK f, g : f = balances /\ g = balances'
  OBVIOUS
<1>2. ChangesAt(Holders, f, g, h, d)
  BY <1>1 DEF ChangesAt
<1>3. SumOver(g, Holders) = SumOver(f, Holders) + d
  BY <1>2, HoldersFinite, SumUpdate
<1> QED BY <1>1, <1>3 DEF SupplySpread

\* A burn takes the same from the supply and from one balance.
LEMMA BurnSpreads ==
    ASSUME AirdropInv, SupplySpread, NEW holder \in Holders,
           NEW to \in Users \cup Reserves, NEW amount \in Nat,
           burn_and_send(holder, to, amount)
    PROVE  SupplySpread'
<1>1. AirdropTypeOK /\ SupplyHeld
  BY DEF AirdropInv
<1>2. /\ balances \in [Holders -> Nat] /\ balances' \in [Holders -> Nat]
      /\ balances'[holder] = balances[holder] - amount
      /\ \A h \in Holders \ {holder} : balances'[h] = balances[h]
  BY <1>1, BurnMoves DEF AirdropTypeOK
<1>3. total_supply' = total_supply - amount /\ total_supply \in Nat /\ balances[holder] \in Nat
  BY <1>1, <1>2 DEF burn_and_send, AirdropTypeOK
<1>4. /\ 0 - amount \in Int
      /\ balances'[holder] = balances[holder] + (0 - amount)
      /\ total_supply' = total_supply + (0 - amount)
  BY <1>2, <1>3
<1> QED BY <1>2, <1>4, SupplyMoves

\* A claim moves tokens from the airdrop contract to the user.
LEMMA ClaimSpreads ==
    ASSUME AirdropInv, AirdropInv', SupplySpread, NEW u \in Users, NEW amount,
           execute_claim(u, amount)
    PROVE  SupplySpread'
<1>1. /\ amount \in Nat /\ u # AIRDROP /\ u \in Holders /\ AIRDROP \in Holders
      /\ balances \in [Holders -> Nat] /\ balances' \in [Holders -> Nat]
  BY AirdropAssumption, AccountsApart DEF execute_claim, AirdropInv, AirdropTypeOK
<1>2. /\ balances' = [balances EXCEPT ![AIRDROP] = @ - amount, ![u] = @ + amount]
      /\ total_supply' = total_supply
  BY DEF execute_claim, TransferAndVest
<1>3. PICK f, g, m : f = balances /\ g = balances' /\ m = [balances EXCEPT ![AIRDROP] = @ - amount]
  OBVIOUS
<1>4. ChangesAt(Holders, f, m, AIRDROP, 0 - amount)
  BY <1>1, <1>3 DEF ChangesAt
<1>5. ChangesAt(Holders, m, g, u, amount)
  BY <1>1, <1>2, <1>3 DEF ChangesAt
<1>6. SumOver(m, Holders) = SumOver(f, Holders) + (0 - amount)
  BY <1>1, <1>4, HoldersFinite, SumUpdate
<1>7. SumOver(g, Holders) = SumOver(m, Holders) + amount
  BY <1>1, <1>5, HoldersFinite, SumUpdate
<1>8. SumOver(f, Holders) \in Int
  BY <1>4, HoldersFinite, SumInt DEF ChangesAt
<1> QED BY <1>1, <1>2, <1>3, <1>6, <1>7, <1>8 DEF SupplySpread

\* The supply is spread over the holders to begin with.
LEMMA SpreadInit == AirdropInit => SupplySpread
<1> SUFFICES ASSUME AirdropInit PROVE SupplySpread
  OBVIOUS
<1>1. \A h \in Holders : balances[h] = 0
  BY DEF AirdropInit, CreditsInit
<1>2. SumOver(balances, Holders) = 0
  BY <1>1, HoldersFinite, SumZero
<1> QED BY <1>2 DEF AirdropInit, CreditsInit, SupplySpread

\* Every step keeps the supply spread over the holders.
LEMMA SpreadStep ==
    AirdropInv /\ SupplySpread /\ [AirdropNext]_airdropVars => SupplySpread'
<1> SUFFICES ASSUME AirdropInv, SupplySpread, [AirdropNext]_airdropVars
             PROVE  SupplySpread'
  OBVIOUS
<1>0. AirdropInv'
  BY AirdropInvStep
<1>1. CASE UNCHANGED <<balances, total_supply>>
  BY <1>1 DEF SupplySpread
<1>2. ASSUME NEW s \in Parties, NEW amount \in MintAmounts, execute_mint(s, amount)
      PROVE  SupplySpread'
  <2>1. /\ credits_config.airdrop \in Holders /\ amount \in Int
        /\ balances \in [Holders -> Nat] /\ balances' \in [Holders -> Nat]
    BY <1>0, <1>2, AccountsApart, CreditsAssumption
       DEF AirdropInv, AirdropTypeOK, execute_mint
  <2>2. /\ balances' = [balances EXCEPT ![credits_config.airdrop] = @ + amount]
        /\ total_supply' = total_supply + amount
    BY <1>2 DEF execute_mint
  <2>3. PICK a \in Holders : a = credits_config.airdrop
    BY <2>1
  <2>4. balances'[a] = balances[a] + amount
        /\ \A h \in Holders \ {a} : balances'[h] = balances[h]
    BY <2>1, <2>2, <2>3
  <2> QED BY <2>1, <2>2, <2>4, SupplyMoves
<1>3. ASSUME NEW u \in Users, execute_withdraw(u)
      PROVE  SupplySpread'
  <2>1. PICK amount : amount = query_withdrawable_amount(u)
    OBVIOUS
  <2>2. u \in DOMAIN allocations /\ burn_and_send(u, u, amount)
    BY <1>3, <2>1 DEF execute_withdraw, query_withdrawable_amount
  <2>3. amount \in Nat
    BY <2>1, <2>2, QueriesBounded
  <2> QED BY <2>2, <2>3, BurnSpreads, AccountsApart
<1>4. ASSUME NEW s \in Parties, execute_withdraw_all(s)
      PROVE  SupplySpread'
  <2>1. burn_and_send(AIRDROP, reserve_address, balances[AIRDROP])
    BY <1>4 DEF execute_withdraw_all, execute_burn
  <2>2. AIRDROP \in Holders /\ reserve_address \in Reserves /\ balances[AIRDROP] \in Nat
    BY AccountsApart DEF AirdropInv, AirdropTypeOK
  <2> QED BY <2>1, <2>2, BurnSpreads
<1>5. ASSUME NEW u \in Users, NEW amount \in ClaimAmounts, execute_claim(u, amount)
      PROVE  SupplySpread'
  BY <1>0, <1>5, ClaimSpreads
<1>6. ASSUME NEW u \in Users, NEW reward \in LockdropRewards,
             ClaimAirdropTokens(u, reward)
      PROVE  SupplySpread'
  <2>1. PICK amount : amount = AirdropTokensWithMultiplier(u, reward)
    OBVIOUS
  <2>2. u \in DOMAIN allocations /\ burn_and_send(u, u, amount)
    BY <1>6, <2>1 DEF ClaimAirdropTokens, execute_burn_from
  <2>3. reward \in Nat /\ balances[u] \in Nat
    BY <2>2, AirdropAssumption, QueriesBounded
  <2>4. amount \in Nat
    BY <2>1, <2>2, <2>3, BurnWithinBalance
  <2> QED BY <2>2, <2>4, BurnSpreads, AccountsApart
<1>7. CASE \E s \in Parties, a \in AirdropAddrs \cup {NONE},
             l \in LockdropAddrs \cup {NONE}, t \in WithdrawableTimes \cup {NONE} :
               execute_update_config(s, a, l, t)
  BY <1>1, <1>7 DEF execute_update_config
<1>8. CASE \/ \E s \in Parties, r \in Reserves : execute_update_reserve(s, r)
           \/ \E s \in Parties : execute_pause(s)
           \/ \E s \in Parties : execute_resume(s)
  BY <1>1, <1>8 DEF execute_update_reserve, execute_pause, execute_resume, creditsVars
<1>9. CASE AirdropTick \/ UNCHANGED airdropVars
  BY <1>1, <1>9 DEF AirdropTick, airdropVars, creditsVars
<1> QED
  BY <1>2, <1>3, <1>4, <1>5, <1>6, <1>7, <1>8, <1>9
     DEF AirdropNext, AirdropStep, CreditsStep

\* The untrn of the credits contract, the cw20 supply and the tokens of all
\* holders together stay the same amount, for any number of holders and any
\* order of minting, claims, withdrawals, rewards and the final burn.
THEOREM BackedAlways == AirdropSpec => []Backed
<1>1. AirdropInv /\ SupplySpread => Backed
  BY DEF AirdropInv, SupplySpread, Backed
<1>2. AirdropSpec => []SupplySpread
  BY SpreadInit, SpreadStep, AirdropInvariant, PTL DEF AirdropSpec
<1> QED BY <1>1, <1>2, AirdropInvariant, PTL
-----------------------------------------------------------------------------
(***************************************************************************)
(* With the lockdrop. A user's one time reward is zero until a pool is      *)
(* initialised, and settled from then on: between the two a claim may       *)
(* already burn what has vested.                                            *)
(***************************************************************************)
Unshared ==
    ~PoolsInitialised => NothingStored /\ total_incentives_share = 0

\* Without shares nobody has a reward.
LEMMA ZeroReward ==
    ASSUME LockdropInv, Unshared, ~PoolsInitialised
    PROVE  /\ \A k \in DOMAIN lockup : LockupReward(k) = 0
           /\ \A u \in Users : UserReward(u) = 0
<1>1. LockdropTypeOK /\ LockupsKnown /\ NothingStored /\ total_incentives_share = 0
  BY DEF LockdropInv, Unshared
<1>2. \A k \in DOMAIN lockup : LockupReward(k) = 0
  BY <1>1 DEF LockupReward, NothingStored, calculate_astro_incentives_for_lockup
<1>3. ASSUME NEW u \in Users PROVE UserReward(u) = 0
  <2>1. PICK K, f : /\ K = UserKeys(u) /\ IsFiniteSet(K) /\ K \subseteq DOMAIN lockup
                    /\ f = [k \in UserKeys(u) |-> LockupReward(k)]
    BY <1>1, RewardNat DEF UserKeys
  <2>2. SumOver(f, K) = 0
    BY <1>2, <2>1, SumZero
  <2> QED BY <1>1, <2>1, <2>2 DEF UserReward, NothingStored
<1> QED BY <1>2, <1>3

\* What the steps of the lockdrop other than a claim leave alone.
LEMMA NoClaimNoReward ==
    ASSUME LockdropTick \/ LockdropSetup \/ AnyAuctionCalls \/ UNCHANGED lockdropVars
    PROVE  UNCHANGED <<total_ntrn_rewards, ntrn_transferred>>
<1> USE DEF lockdropVars, poolVars, lockerVars, lockdropEnv
<1>1. CASE LockdropTick \/ UNCHANGED lockdropVars
  BY <1>1 DEF LockdropTick
<1>2. CASE LockdropSetup
  BY <1>2 DEF LockdropSetup, GeneratorAccrues, handle_update_config, handle_set_token_info,
              handle_increasing_ntrn_incentives
<1>3. ASSUME NEW s, NEW u, NEW p, NEW d, NEW a,
             \/ handle_increase_lockup(s, u, p, d, a)
             \/ handle_withdraw_from_lockup(s, u, p, d, a)
      PROVE  UNCHANGED <<total_ntrn_rewards, ntrn_transferred>>
  BY <1>3 DEF handle_increase_lockup, handle_withdraw_from_lockup
<1>4. ASSUME NEW s, NEW share, handle_initialize_pool(s, share, amount_in_lockups)
      PROVE  UNCHANGED <<total_ntrn_rewards, ntrn_transferred>>
  BY <1>4 DEF handle_initialize_pool
<1> QED BY <1>1, <1>2, <1>3, <1>4 DEF AnyAuctionCalls

\* IncreaseLockupFor and WithdrawFromLockup store no reward.
LEMMA LockupUnrewarded ==
    ASSUME LockdropTypeOK, NothingStored,
           NEW s, NEW u \in Users, NEW p \in LockPools, NEW d \in LockDurations, NEW a,
           \/ handle_increase_lockup(s, u, p, d, a)
           \/ handle_withdraw_from_lockup(s, u, p, d, a)
    PROVE  NothingStored'
<1> DEFINE key == <<p, u, d>>
<1>1. \A k \in DOMAIN lockup : lockup[k] \in LockupRecords /\ lockup[k].ntrn_rewards = 0
  BY DEF LockdropTypeOK, NothingStored
<1>2. UNCHANGED total_ntrn_rewards
  BY DEF handle_increase_lockup, handle_withdraw_from_lockup
<1>3. \A k \in DOMAIN lockup' : lockup'[k].ntrn_rewards = 0
  <2>1. CASE lockup' = [lockup EXCEPT ![key].lp_units_locked = @ + a]
    BY <1>1, <2>1 DEF LockupRecords
  <2>2. CASE lockup' = [k \in DOMAIN lockup \cup {key} |->
                            IF k = key THEN NewLockup(a) ELSE lockup[k]]
    BY <1>1, <2>2 DEF NewLockup
  <2>3. CASE lockup' = [k \in DOMAIN lockup \ {key} |-> lockup[k]]
    BY <1>1, <2>3
  <2>4. CASE lockup' = [lockup EXCEPT ![key].lp_units_locked = @ - a,
                                      ![key].withdrawal_flag = now >= LockCutoff]
    BY <1>1, <2>4 DEF LockupRecords
  <2> QED BY <2>1, <2>2, <2>3, <2>4 DEF handle_increase_lockup, handle_withdraw_from_lockup
<1> QED BY <1>2, <1>3 DEF NothingStored

\* Shares come with the first pool; until then nothing is stored.
LEMMA UnsharedStep ==
    ASSUME LockdropInv, Unshared, [UnboundedNext]_lockdropVars
    PROVE  Unshared'
<1> USE DEF lockdropVars, poolVars, lockerVars, lockdropEnv
<1>0. LockdropTypeOK
  BY DEF LockdropInv
<1>1. CASE PoolsInitialised
  <2>1. ~AnyAuctionCalls
    BY <1>1 DEF AnyAuctionCalls
  <2>2. participants # {}
    BY <1>1 DEF LockdropInv, StakedOK, PoolsInitialised
  <2>3. UNCHANGED is_staked
    <3>1. CASE LockdropTick \/ UNCHANGED lockdropVars
      BY <3>1 DEF LockdropTick
    <3>2. CASE LockdropSetup
      BY <2>2, <3>2 DEF LockdropSetup, GeneratorAccrues, handle_update_config,
                        handle_increasing_ntrn_incentives
    <3>3. ASSUME NEW u, NEW p, NEW d, NEW w,
                 handle_claim_rewards_and_unlock_for_lockup(u, p, d, w)
          PROVE  UNCHANGED is_staked
      BY <3>3 DEF handle_claim_rewards_and_unlock_for_lockup
    <3> QED BY <2>1, <3>1, <3>2, <3>3 DEF UnboundedNext, LockdropStep
  <2> QED BY <1>1, <2>3 DEF PoolsInitialised, Unshared
<1>2. CASE ~PoolsInitialised
  <2>0. NothingStored /\ total_incentives_share = 0
    BY <1>2 DEF Unshared
  <2>1. CASE LockdropTick \/ LockdropSetup \/ UNCHANGED lockdropVars
    <3>1. UNCHANGED <<lockup, total_ntrn_rewards, total_incentives_share>>
      BY <2>1 DEF LockdropTick, LockdropSetup, GeneratorAccrues, handle_update_config,
                  handle_set_token_info, handle_increasing_ntrn_incentives
    <3> QED BY <2>0, <3>1 DEF Unshared, NothingStored
  <2>2. ASSUME NEW u \in Users, NEW p \in LockPools, NEW d \in LockDurations, NEW w \in BOOLEAN,
               handle_claim_rewards_and_unlock_for_lockup(u, p, d, w)
        PROVE  Unshared'
    <3>1. RewardInputsKept
      BY <2>2, ClaimKeepsInputs
    <3>2. total_ntrn_rewards' = [total_ntrn_rewards EXCEPT ![u] = UserReward(u)]
      BY <2>2 DEF handle_claim_rewards_and_unlock_for_lockup
    <3>3. UserReward(u) = 0 /\ \A k \in DOMAIN lockup : LockupReward(k) = 0
      BY <1>2, ZeroReward
    <3>4. \A k \in DOMAIN lockup' : lockup'[k].ntrn_rewards = 0
      BY <2>0, <3>1, <3>3 DEF RewardInputsKept, NothingStored
    <3>5. \A v \in Users : total_ntrn_rewards'[v] = 0
      BY <1>0, <2>0, <3>2, <3>3 DEF NothingStored, LockdropTypeOK
    <3> QED BY <2>0, <3>1, <3>4, <3>5 DEF Unshared, NothingStored, RewardInputsKept
  <2>3. ASSUME NEW s \in AuctionAddrs, NEW u \in Users, NEW p \in LockPools,
               NEW d \in LockDurations, NEW a \in Nat,
               \/ handle_increase_lockup(s, u, p, d, a)
               \/ handle_withdraw_from_lockup(s, u, p, d, a)
        PROVE  Unshared'
    <3>1. NothingStored'
      BY <1>0, <2>0, <2>3, LockupUnrewarded
    <3>2. UNCHANGED total_incentives_share
      BY <2>3 DEF handle_increase_lockup, handle_withdraw_from_lockup
    <3> QED BY <2>0, <3>1, <3>2 DEF Unshared
  <2>4. ASSUME NEW s \in AuctionAddrs, NEW share \in [PoolType -> Nat],
               handle_initialize_pool(s, share, amount_in_lockups)
        PROVE  Unshared'
    <3>1. /\ UNCHANGED <<lockup, total_ntrn_rewards>>
          /\ is_staked' = [p \in PoolType |->
                              p \in {q \in PoolType : amount_in_lockups[q] # 0} \/ is_staked[p]]
          /\ total_incentives_share' = total_incentives_share
                 + (IF "ATOM" \in {q \in PoolType : amount_in_lockups[q] # 0}
                    THEN share["ATOM"] ELSE 0)
                 + (IF "USDC" \in {q \in PoolType : amount_in_lockups[q] # 0}
                    THEN share["USDC"] ELSE 0)
      BY <2>4 DEF handle_initialize_pool
    <3>2. ASSUME ~PoolsInitialised' PROVE total_incentives_share' = 0
      <4>1. \A p \in PoolType : p \notin {q \in PoolType : amount_in_lockups[q] # 0}
        BY <3>1, <3>2 DEF PoolsInitialised
      <4> QED BY <2>0, <3>1, <4>1 DEF PoolType
    <3> QED BY <2>0, <3>1, <3>2 DEF Unshared, NothingStored
  <2> QED BY <2>1, <2>2, <2>3, <2>4 DEF UnboundedNext, LockdropStep, AnyAuctionCalls
<1> QED BY <1>1, <1>2

\* The rewards of all users are naturals.
RewardsNat == \A u \in Users : UserReward(u) \in Nat

\* RewardNat, in a state and in the next.
LEMMA RewardsNatNext ==
    /\ LockdropTypeOK /\ LockupsKnown => RewardsNat
    /\ LockdropTypeOK' /\ LockupsKnown' => RewardsNat'
<1>1. LockdropTypeOK /\ LockupsKnown => RewardsNat
  BY RewardNat DEF RewardsNat
<1> QED BY <1>1, PTL

\* After the windows no reward of a user ever shrinks: it is zero before the
\* pools are initialised and stays the same afterwards.
LEMMA RewardsGrow ==
    ASSUME LockdropInv, LockdropInv', Unshared, [UnboundedNext]_lockdropVars,
           now >= WindowsEnd, NEW v \in Users
    PROVE  UserReward(v) \in Nat /\ UserReward(v)' \in Nat /\ UserReward(v) <= UserReward(v)'
<1>0. /\ LockdropTypeOK /\ LockupsKnown /\ LockdropTypeOK' /\ LockupsKnown'
  BY DEF LockdropInv
<1>1. PICK r \in Nat : r = UserReward(v)
  BY <1>0, RewardNat
<1>2. UserReward(v)' \in Nat
  BY <1>0, RewardsNatNext DEF RewardsNat
<1>3. CASE ~PoolsInitialised
  BY <1>1, <1>2, <1>3, ZeroReward
<1>4. CASE PoolsInitialised
  <2>1. RewardInputsKept
    BY <1>4, InputsKept
  <2>2. [k \in UserKeys(v) |-> LockupReward(k)]' = [k \in UserKeys(v) |-> LockupReward(k)]
    <3>1. UserKeys(v)' = UserKeys(v) /\ UserKeys(v) \subseteq DOMAIN lockup
      BY <2>1 DEF RewardInputsKept, UserKeys
    <3>2. \A k \in UserKeys(v) : LockupReward(k)' = LockupReward(k)
      BY <2>1, <3>1, RewardKept
    <3> QED BY <3>1, <3>2
  <2>3. PICK n : n = SumOver([k \in UserKeys(v) |-> LockupReward(k)], UserKeys(v))
    OBVIOUS
  <2>4. SumOver([k \in UserKeys(v) |-> LockupReward(k)]', UserKeys(v)') = n
    <3>1. UserKeys(v)' = UserKeys(v)
      BY <2>1 DEF RewardInputsKept, UserKeys
    <3> QED BY <2>2, <2>3, <3>1
  <2>5. total_ntrn_rewards'[v] = total_ntrn_rewards[v] \/ total_ntrn_rewards'[v] = r
    <3>1. ASSUME NEW u \in Users, NEW p \in LockPools, NEW d \in LockDurations,
                 NEW w \in BOOLEAN, handle_claim_rewards_and_unlock_for_lockup(u, p, d, w)
          PROVE  total_ntrn_rewards'[v] = total_ntrn_rewards[v]
                     \/ total_ntrn_rewards'[v] = r
      <4>1. total_ntrn_rewards' = [total_ntrn_rewards EXCEPT ![u] = UserReward(u)]
        BY <3>1 DEF handle_claim_rewards_and_unlock_for_lockup
      <4> QED BY <1>0, <1>1, <4>1 DEF LockdropTypeOK
    <3> QED BY <3>1, NoClaimNoReward DEF UnboundedNext, LockdropStep
  <2>6. /\ r = IF total_ntrn_rewards[v] # 0 THEN total_ntrn_rewards[v] ELSE n
        /\ UserReward(v)' = IF total_ntrn_rewards'[v] # 0 THEN total_ntrn_rewards'[v] ELSE n
    BY <1>1, <2>3, <2>4 DEF UserReward
  <2>7. UserReward(v)' = r
    BY <2>5, <2>6
  <2> QED BY <1>1, <2>7
<1> QED BY <1>3, <1>4

(***************************************************************************)
(* The inductive invariant of the two together: what the lockdrop has burnt *)
(* for a user is at most what has vested and the reward, and it burns only  *)
(* with the reward, once.                                                   *)
(***************************************************************************)
BurntWithReward ==
    /\ now < WindowsEnd => \A u \in Users : ~ntrn_transferred[u]
    /\ \A u \in Users : ~ntrn_transferred[u] => rewards_burned[u] = 0
    /\ \A u \in DOMAIN allocations :
           rewards_burned[u] <= Vested(allocations[u], now) + UserReward(u)

DistributionInv == LockdropInv /\ AirdropInv /\ Unshared /\ BurntWithReward

\* Without a BurnFrom more vests and nothing is burnt with a reward.
VestingGoesOn ==
    /\ rewards_burned' = rewards_burned
    /\ \A u \in DOMAIN allocations' :
           \/ rewards_burned[u] = 0
           \/ /\ u \in DOMAIN allocations
              /\ Vested(allocations[u], now) \in Nat /\ Vested(allocations'[u], now') \in Nat
              /\ Vested(allocations[u], now) <= Vested(allocations'[u], now')

\* That is so for the clock and every message to airdrop and credits.
LEMMA VestingSteps ==
    ASSUME AirdropInv, AirdropInv', AirdropTick \/ AirdropStep \/ UNCHANGED airdropVars
    PROVE  VestingGoesOn
<1>0. /\ now \in Nat /\ \A u \in DOMAIN allocations : allocations[u] \in AllocationRecords
      /\ now' \in Nat /\ \A u \in DOMAIN allocations' : allocations'[u] \in AllocationRecords
      /\ DOMAIN allocations' \subseteq Users
  BY DEF AirdropInv, AirdropTypeOK
<1>1. ASSUME now' >= now, UNCHANGED <<allocations, rewards_burned>>
      PROVE  VestingGoesOn
  <2>1. ASSUME NEW u \in DOMAIN allocations
        PROVE  /\ Vested(allocations[u], now) \in Nat /\ Vested(allocations[u], now') \in Nat
               /\ Vested(allocations[u], now) <= Vested(allocations[u], now')
    BY <1>0, <1>1, VestedGrows
  <2>2. \A u \in DOMAIN allocations : Vested(allocations'[u], now') = Vested(allocations[u], now')
    BY <1>1
  <2> QED BY <1>1, <2>1, <2>2 DEF VestingGoesOn
<1>2. CASE AirdropTick \/ UNCHANGED airdropVars
  <2>1. now' >= now /\ UNCHANGED <<allocations, rewards_burned>>
    BY <1>0, <1>2 DEF AirdropTick, NextBlock, airdropVars, creditsVars
  <2> QED BY <1>1, <2>1
<1>3. ASSUME NEW u \in Users, execute_withdraw(u)
      PROVE  VestingGoesOn
  <2>1. PICK a : /\ u \in DOMAIN allocations
                 /\ allocations' = [allocations EXCEPT ![u].withdrawn_amount = @ + a]
                 /\ UNCHANGED <<now, rewards_burned>>
    BY <1>3 DEF execute_withdraw
  <2>2. ASSUME NEW v \in DOMAIN allocations
        PROVE  Vested(allocations'[v], now') = Vested(allocations[v], now)
    <3>1. /\ allocations'[v].schedule = allocations[v].schedule
          /\ allocations'[v].allocated_amount = allocations[v].allocated_amount
      BY <1>0, <2>1 DEF AllocationRecords
    <3> QED BY <2>1, <3>1 DEF Vested
  <2>3. ASSUME NEW v \in DOMAIN allocations
        PROVE  Vested(allocations[v], now) \in Nat
    BY <1>0, VestedGrows
  <2>4. ASSUME NEW v \in DOMAIN allocations'
        PROVE  /\ v \in DOMAIN allocations
               /\ Vested(allocations[v], now) \in Nat /\ Vested(allocations'[v], now') \in Nat
               /\ Vested(allocations[v], now) <= Vested(allocations'[v], now')
    BY <2>1, <2>2, <2>3
  <2> QED BY <2>1, <2>4 DEF VestingGoesOn
<1>4. ASSUME NEW u \in Users, NEW amount \in ClaimAmounts, execute_claim(u, amount)
      PROVE  VestingGoesOn
  <2>1. /\ u \notin DOMAIN allocations
        /\ DOMAIN allocations' = DOMAIN allocations \cup {u}
        /\ \A v \in DOMAIN allocations : allocations'[v] = allocations[v]
        /\ UNCHANGED <<now, rewards_burned>>
    BY <1>4 DEF execute_claim, TransferAndVest
  <2>2. rewards_burned[u] = 0
    BY <2>1 DEF AirdropInv, HoldersAccounted
  <2>3. ASSUME NEW v \in DOMAIN allocations
        PROVE  /\ Vested(allocations[v], now) \in Nat
               /\ Vested(allocations'[v], now') = Vested(allocations[v], now)
    BY <1>0, <2>1, VestedGrows
  <2> QED BY <2>1, <2>2, <2>3 DEF VestingGoesOn
<1>5. CASE \/ \E s \in Parties : execute_withdraw_all(s)
           \/ \E s \in Parties, r \in Reserves : execute_update_reserve(s, r)
           \/ \E s \in Parties : execute_pause(s)
           \/ \E s \in Parties : execute_resume(s)
  <2>1. now' >= now /\ UNCHANGED <<allocations, rewards_burned>>
    BY <1>0, <1>5 DEF execute_withdraw_all, execute_burn, execute_update_reserve, execute_pause,
                      execute_resume, creditsVars
  <2> QED BY <1>1, <2>1
<1>6. CASE \/ \E s \in Parties, a \in AirdropAddrs \cup {NONE},
                 l \in LockdropAddrs \cup {NONE}, t \in WithdrawableTimes \cup {NONE} :
                     execute_update_config(s, a, l, t)
           \/ \E s \in Parties, amount \in MintAmounts : execute_mint(s, amount)
  <2>1. now' >= now /\ UNCHANGED <<allocations, rewards_burned>>
    BY <1>0, <1>6 DEF execute_update_config, execute_mint
  <2> QED BY <1>1, <2>1
<1> QED BY <1>2, <1>3, <1>4, <1>5, <1>6 DEF AirdropStep, CreditsStep

\* A step without a claim of the lockdrop.
LEMMA BurntKept ==
    ASSUME DistributionInv, LockdropInv', AirdropInv', VestingGoesOn,
           [UnboundedNext]_lockdropVars, UNCHANGED ntrn_transferred, now' >= now
    PROVE  BurntWithReward'
<1>0. now \in Nat /\ now' \in Nat /\ WindowsEnd \in Nat /\ WindowsEnd' = WindowsEnd
  BY LockdropWindowAssumption DEF DistributionInv, AirdropInv, AirdropTypeOK, WindowsEnd, LockCutoff
<1>1. now' < WindowsEnd' => \A u \in Users : ~ntrn_transferred'[u]
  BY <1>0 DEF DistributionInv, BurntWithReward
<1>2. \A u \in Users : ~ntrn_transferred'[u] => rewards_burned'[u] = 0
  BY DEF DistributionInv, BurntWithReward, VestingGoesOn
<1>3. ASSUME NEW u \in DOMAIN allocations'
      PROVE  rewards_burned'[u] <= Vested(allocations'[u], now') + UserReward(u)'
  <2>1. /\ u \in Users /\ rewards_burned'[u] = rewards_burned[u]
        /\ allocations'[u] \in AllocationRecords
    BY DEF AirdropInv, AirdropTypeOK, VestingGoesOn
  <2>2. PICK b \in Nat : b = rewards_burned[u]
    BY <2>1 DEF DistributionInv, AirdropInv, AirdropTypeOK
  <2>3. PICK v2 \in Nat, r2 \in Nat : v2 = Vested(allocations'[u], now') /\ r2 = UserReward(u)'
    <3>1. Vested(allocations'[u], now') \in Nat
      BY <1>0, <2>1, VestedGrows
    <3>2. UserReward(u)' \in Nat
      BY <2>1, RewardsNatNext DEF LockdropInv, RewardsNat
    <3> QED BY <3>1, <3>2
  <2>4. CASE b = 0
    BY <2>1, <2>2, <2>3, <2>4
  <2>5. CASE b # 0
    <3>1. now >= WindowsEnd
      BY <1>0, <2>1, <2>2, <2>5 DEF DistributionInv, BurntWithReward
    <3>2. PICK r \in Nat : r = UserReward(u) /\ r <= r2
      BY <2>1, <2>3, <3>1, RewardsGrow DEF DistributionInv
    <3>3. u \in DOMAIN allocations
          /\ \E v \in Nat : v = Vested(allocations[u], now) /\ v <= v2
      BY <2>2, <2>3, <2>5 DEF VestingGoesOn
    <3>4. PICK v \in Nat : v = Vested(allocations[u], now) /\ v <= v2
      BY <3>3
    <3>5. b <= v + r
      BY <2>2, <3>2, <3>3, <3>4 DEF DistributionInv, BurntWithReward
    <3> QED BY <2>1, <2>2, <2>3, <3>2, <3>4, <3>5
  <2> QED BY <2>4, <2>5
<1> QED BY <1>1, <1>2, <1>3 DEF BurntWithReward

\* BurnFrom takes at most the reward and what could be withdrawn.
LEMMA BurnIsBounded ==
    ASSUME AirdropInv, NEW u \in DOMAIN allocations, NEW reward \in Nat
    PROVE  /\ Vested(allocations[u], now) \in Nat
           /\ AirdropTokensWithMultiplier(u, reward) \in Nat
           /\ AirdropTokensWithMultiplier(u, reward) <= Vested(allocations[u], now) + reward
<1>1. PICK v \in Nat, w \in Nat :
          v = Vested(allocations[u], now) /\ w = allocations[u].withdrawn_amount /\ w <= v
  <2>1. now \in Nat /\ allocations[u] \in AllocationRecords
    BY DEF AirdropInv, AirdropTypeOK
  <2>2. Vested(allocations[u], now) \in Nat /\ allocations[u].withdrawn_amount \in Nat
    BY <2>1, VestedGrows DEF AllocationRecords
  <2> QED BY <2>2 DEF AirdropInv, WithdrawnWithinVested
<1>2. PICK b \in Nat, q \in Nat : b = balances[u] /\ q = query_withdrawable_amount(u) /\ q <= b
  BY QueriesBounded
<1>3. q <= v
  <2>1. compute_withdrawable_amount(allocations[u], now) = v - w
    BY <1>1 DEF compute_withdrawable_amount
  <2>2. q = IF v - w < b THEN v - w ELSE b
    BY <1>2, <2>1 DEF query_withdrawable_amount, SmallerOf
  <2> QED BY <1>1, <1>2, <2>2
<1>4. AirdropTokensWithMultiplier(u, reward) = (IF b - q < reward THEN b - q ELSE reward) + q
  BY <1>2, QueriesBounded DEF AirdropTokensWithMultiplier, SmallerOf
<1> QED BY <1>1, <1>2, <1>3, <1>4

\* A claim that pays the reward burns once, for a user for whom nothing was
\* burnt before, and the reward stays what it was.
LEMMA ClaimBurns ==
    ASSUME DistributionInv, LockdropInv', AirdropInv',
           NEW u \in Users, NEW p \in LockPools, NEW d \in LockDurations, NEW w \in BOOLEAN,
           ClaimRewardsAndUnlock(u, p, d, w)
    PROVE  BurntWithReward'
<1>0. /\ LockdropInv /\ AirdropInv /\ Unshared /\ BurntWithReward
      /\ LockdropTypeOK /\ now \in Nat /\ WindowsEnd \in Nat
  BY LockdropWindowAssumption
     DEF DistributionInv, LockdropInv, AirdropInv, AirdropTypeOK, WindowsEnd, LockCutoff
<1>1. handle_claim_rewards_and_unlock_for_lockup(u, p, d, w)
  BY DEF ClaimRewardsAndUnlock
<1>2. /\ UNCHANGED now /\ now >= WindowsEnd
      /\ ntrn_transferred' = IF ntrn_transferred[u] THEN ntrn_transferred
                             ELSE [ntrn_transferred EXCEPT ![u] = TRUE]
  BY <1>1 DEF handle_claim_rewards_and_unlock_for_lockup, PayOneTimeReward
<1>3. /\ ntrn_transferred'[u]
      /\ \A v \in Users : v # u => ntrn_transferred'[v] = ntrn_transferred[v]
  BY <1>0, <1>2 DEF LockdropTypeOK
<1>4. [UnboundedNext]_lockdropVars
  BY <1>1 DEF UnboundedNext, LockdropStep
<1>5. \A v \in Users : /\ UserReward(v) \in Nat /\ UserReward(v)' \in Nat
                       /\ UserReward(v) <= UserReward(v)'
  BY <1>0, <1>2, <1>4, RewardsGrow
<1>6. WindowsEnd' = WindowsEnd
  BY DEF WindowsEnd, LockCutoff
<1>7. ~(now' < WindowsEnd')
  BY <1>0, <1>2, <1>6
<1>8. CASE ntrn_transferred[u] \/ balances[u] = 0
  <2>1. UNCHANGED <<allocations, rewards_burned>>
    BY <1>8 DEF ClaimRewardsAndUnlock, airdropSide, creditsVars
  <2>2. \A v \in Users : ~ntrn_transferred'[v] => rewards_burned'[v] = 0
    BY <1>0, <1>3, <2>1 DEF BurntWithReward
  <2>3. ASSUME NEW v \in DOMAIN allocations'
        PROVE  rewards_burned'[v] <= Vested(allocations'[v], now') + UserReward(v)'
    <3>1. v \in DOMAIN allocations /\ v \in Users /\ allocations[v] \in AllocationRecords
      BY <1>0, <2>1 DEF AirdropInv, AirdropTypeOK
    <3>2. PICK n \in Nat, b \in Nat, r \in Nat, r2 \in Nat :
              /\ n = Vested(allocations[v], now) /\ b = rewards_burned[v]
              /\ r = UserReward(v) /\ r2 = UserReward(v)' /\ r <= r2
      <4>1. Vested(allocations[v], now) \in Nat
        BY <1>0, <3>1, VestedGrows
      <4>2. rewards_burned[v] \in Nat
        BY <1>0, <3>1 DEF AirdropInv, AirdropTypeOK
      <4> QED BY <1>5, <3>1, <4>1, <4>2
    <3>3. b <= n + r
      BY <1>0, <3>1, <3>2 DEF BurntWithReward
    <3>4. Vested(allocations'[v], now') = n
      BY <1>2, <2>1, <3>2
    <3> QED BY <2>1, <3>2, <3>3, <3>4
  <2> QED BY <1>7, <2>2, <2>3 DEF BurntWithReward
<1>9. CASE ~(ntrn_transferred[u] \/ balances[u] = 0)
  <2>1. PICK reward \in Nat, r2 \in Nat :
            reward = UserReward(u) /\ r2 = UserReward(u)' /\ reward <= r2
    BY <1>5
  <2>2. ClaimAirdropTokens(u, reward)
    BY <1>9, <2>1 DEF ClaimRewardsAndUnlock
  <2>3. /\ u \in DOMAIN allocations /\ UNCHANGED allocations
        /\ rewards_burned' = [rewards_burned EXCEPT
                                 ![u] = @ + AirdropTokensWithMultiplier(u, reward)]
    BY <2>2 DEF ClaimAirdropTokens, execute_burn_from
  <2>4. PICK n \in Nat, a \in Nat :
            /\ n = Vested(allocations[u], now) /\ a = AirdropTokensWithMultiplier(u, reward)
            /\ a <= n + reward
    BY <1>0, <2>3, BurnIsBounded
  <2>5. rewards_burned \in [Users -> Nat] /\ rewards_burned[u] = 0
    BY <1>0, <1>9 DEF AirdropInv, AirdropTypeOK, BurntWithReward
  <2>6. /\ rewards_burned'[u] = a
        /\ \A v \in Users : v # u => rewards_burned'[v] = rewards_burned[v]
    BY <2>3, <2>4, <2>5
  <2>7. \A v \in Users : ~ntrn_transferred'[v] => rewards_burned'[v] = 0
    BY <1>0, <1>3, <2>6 DEF BurntWithReward
  <2>8. ASSUME NEW v \in DOMAIN allocations'
        PROVE  rewards_burned'[v] <= Vested(allocations'[v], now') + UserReward(v)'
    <3>1. v \in DOMAIN allocations /\ v \in Users /\ allocations[v] \in AllocationRecords
      BY <1>0, <2>3 DEF AirdropInv, AirdropTypeOK
    <3>2. Vested(allocations'[v], now') = Vested(allocations[v], now)
      BY <1>2, <2>3
    <3>3. CASE v = u
      BY <2>1, <2>4, <2>6, <3>2, <3>3
    <3>4. CASE v # u
      <4>1. PICK m \in Nat, b \in Nat, r \in Nat, s \in Nat :
                /\ m = Vested(allocations[v], now) /\ b = rewards_burned[v]
                /\ r = UserReward(v) /\ s = UserReward(v)' /\ r <= s
        <5>1. Vested(allocations[v], now) \in Nat
          BY <1>0, <3>1, VestedGrows
        <5> QED BY <1>5, <2>5, <3>1, <5>1
      <4>2. b <= m + r
        BY <1>0, <3>1, <4>1 DEF BurntWithReward
      <4> QED BY <2>6, <3>1, <3>2, <3>4, <4>1, <4>2
    <3> QED BY <3>3, <3>4
  <2> QED BY <1>7, <2>7, <2>8 DEF BurntWithReward
<1> QED BY <1>8, <1>9

\* The lockdrop's clock is the chain's: no message moves it.
LEMMA NoMessageMovesTheClock ==
    /\ LockdropSetup \/ AuctionCalls => UNCHANGED now
    /\ AirdropStep => UNCHANGED now
<1>1. LockdropSetup => UNCHANGED now
  BY DEF LockdropSetup, GeneratorAccrues, handle_update_config, handle_set_token_info,
         handle_increasing_ntrn_incentives
<1>2. ASSUME NEW s, NEW u, NEW p, NEW d, NEW a,
             handle_increase_lockup(s, u, p, d, a) \/ handle_withdraw_from_lockup(s, u, p, d, a)
      PROVE  UNCHANGED now
  BY <1>2 DEF handle_increase_lockup, handle_withdraw_from_lockup
<1>3. ASSUME NEW s, NEW share, handle_initialize_pool(s, share, amount_in_lockups)
      PROVE  UNCHANGED now
  BY <1>3 DEF handle_initialize_pool
<1>4. AirdropStep => UNCHANGED now
  BY DEF AirdropStep, CreditsStep, execute_update_config, execute_mint, execute_withdraw,
         execute_claim, TransferAndVest, execute_withdraw_all, execute_burn,
         execute_update_reserve, execute_pause, execute_resume
<1> QED BY <1>1, <1>2, <1>3, <1>4 DEF AuctionCalls

\* What a step of the two together is for the lockdrop.
LEMMA DistributionLockdropStep ==
    [DistributionNext]_distributionVars => [LockdropNext]_lockdropVars
<1> SUFFICES ASSUME [DistributionNext]_distributionVars PROVE [LockdropNext]_lockdropVars
  OBVIOUS
<1>1. CASE DistributionTick
  BY <1>1 DEF DistributionTick, lockdropSide, LockdropNext, LockdropTick, poolVars, lockerVars,
              lockdropEnv
<1>2. CASE LockdropSetup \/ AuctionCalls
  BY <1>2 DEF LockdropNext, LockdropStep
<1>3. CASE AirdropStep /\ UNCHANGED lockdropSide
  <2>1. UNCHANGED now
    BY <1>3, NoMessageMovesTheClock
  <2> QED BY <1>3, <2>1 DEF lockdropSide, lockdropVars
<1>4. CASE \E u \in Users, p \in LockPools, d \in LockDurations, w \in BOOLEAN :
               ClaimRewardsAndUnlock(u, p, d, w)
  BY <1>4 DEF ClaimRewardsAndUnlock, LockdropNext, LockdropStep
<1>5. CASE UNCHANGED distributionVars
  BY <1>5 DEF distributionVars
<1> QED BY <1>1, <1>2, <1>3, <1>4, <1>5 DEF DistributionNext

\* Every step of the two together keeps the invariant.
LEMMA DistributionInvStep ==
    DistributionInv /\ [DistributionNext]_distributionVars => DistributionInv'
<1> SUFFICES ASSUME DistributionInv, [DistributionNext]_distributionVars
             PROVE  DistributionInv'
  OBVIOUS
<1>0. LockdropInv /\ AirdropInv /\ Unshared
  BY DEF DistributionInv
<1>1. [UnboundedNext]_lockdropVars
  <2>1. [LockdropNext]_lockdropVars
    BY DistributionLockdropStep
  <2> QED BY <2>1, AuctionCallsAny DEF LockdropNext, UnboundedNext
<1>2. LockdropInv' /\ Unshared'
  BY <1>0, <1>1, LockdropInvStep, UnsharedStep
<1>3. ASSUME AirdropInv', VestingGoesOn, UNCHANGED ntrn_transferred, now' >= now
      PROVE  DistributionInv'
  BY <1>1, <1>2, <1>3, BurntKept DEF DistributionInv
<1>4. now \in Nat
  BY <1>0 DEF AirdropInv, AirdropTypeOK
<1>5. CASE DistributionTick
  <2>1. AirdropTick /\ now' >= now /\ UNCHANGED ntrn_transferred
    BY <1>4, <1>5 DEF DistributionTick, AirdropTick, airdropSide, lockdropSide, lockerVars,
                      NextBlock, creditsVars, claimVars
  <2>2. AirdropInv'
    BY <1>0, <2>1, TickKeeps
  <2>3. VestingGoesOn
    BY <1>0, <2>1, <2>2, VestingSteps
  <2> QED BY <1>3, <2>1, <2>2, <2>3
<1>6. CASE UNCHANGED airdropSide /\ (LockdropSetup \/ AuctionCalls)
  <2>1. UNCHANGED now
    BY <1>6, NoMessageMovesTheClock
  <2>2. UNCHANGED airdropVars /\ now' >= now
    BY <1>4, <1>6, <2>1 DEF airdropVars, airdropSide
  <2>3. AirdropInv'
    BY <1>0, <2>2, AirdropInvStep
  <2>4. VestingGoesOn
    BY <1>0, <2>2, <2>3, VestingSteps
  <2>5. UNCHANGED ntrn_transferred
    BY <1>6, AuctionCallsAny, NoClaimNoReward
  <2> QED BY <1>3, <2>2, <2>3, <2>4, <2>5
<1>7. CASE AirdropStep /\ UNCHANGED lockdropSide
  <2>1. now' = now
    BY <1>7, NoMessageMovesTheClock
  <2>2. now' >= now /\ UNCHANGED ntrn_transferred
    BY <1>4, <1>7, <2>1 DEF lockdropSide, lockerVars
  <2>3. AirdropInv'
    BY <1>0, <1>7, AirdropInvStep DEF AirdropNext
  <2>4. VestingGoesOn
    BY <1>0, <1>7, <2>3, VestingSteps
  <2> QED BY <1>3, <2>2, <2>3, <2>4
<1>8. ASSUME NEW u \in Users, NEW p \in LockPools, NEW d \in LockDurations, NEW w \in BOOLEAN,
             ClaimRewardsAndUnlock(u, p, d, w)
      PROVE  DistributionInv'
  <2>1. AirdropInv'
    <3>1. CASE ntrn_transferred[u] \/ balances[u] = 0
      <4>1. UNCHANGED airdropVars
        BY <1>8, <3>1 DEF ClaimRewardsAndUnlock, airdropVars, airdropSide,
                          handle_claim_rewards_and_unlock_for_lockup
      <4> QED BY <1>0, <4>1, AirdropInvStep
    <3>2. CASE ~(ntrn_transferred[u] \/ balances[u] = 0)
      <4>1. PICK reward \in Nat : reward = UserReward(u)
        BY <1>0, RewardNat DEF LockdropInv
      <4>2. ClaimAirdropTokens(u, reward)
        BY <1>8, <3>2, <4>1 DEF ClaimRewardsAndUnlock
      <4> QED BY <1>0, <4>2, BurnFromKeeps
    <3> QED BY <3>1, <3>2
  <2> QED BY <1>2, <1>8, <2>1, ClaimBurns DEF DistributionInv
<1>9. CASE UNCHANGED distributionVars
  <2>1. UNCHANGED airdropVars /\ now' >= now /\ UNCHANGED ntrn_transferred
    BY <1>4, <1>9 DEF distributionVars, airdropVars, lockdropVars, lockerVars
  <2>2. AirdropInv'
    BY <1>0, <2>1, AirdropInvStep
  <2>3. VestingGoesOn
    BY <1>0, <2>1, <2>2, VestingSteps
  <2> QED BY <1>3, <2>1, <2>2, <2>3
<1> QED BY <1>5, <1>6, <1>7, <1>8, <1>9 DEF DistributionNext

\* The invariant holds of the lockdrop with airdrop and credits.
LEMMA DistributionInvariant == DistributionSpec => []DistributionInv
<1>1. DistributionInit => DistributionInv
  <2> SUFFICES ASSUME DistributionInit PROVE DistributionInv
    OBVIOUS
  <2>1. LockdropInv /\ AirdropInv
    BY LockdropInvInit, AirdropInvInit DEF DistributionInit
  <2>2. Unshared
    BY DEF Unshared, NothingStored, DistributionInit, LockdropInit
  <2>3. BurntWithReward
    BY DEF BurntWithReward, DistributionInit, LockdropInit, AirdropInit, CreditsInit
  <2> QED BY <2>1, <2>2, <2>3 DEF DistributionInv
<1> QED BY <1>1, DistributionInvStep, PTL DEF DistributionSpec

\* The lockdrop takes a user ahead of the vesting schedule by the one time
\* reward and by what had vested when it was paid, never further: for all
\* schedules, rewards and orders of Withdraw, claims and pool initialisation.
THEOREM AheadOfVestingBoundedAlways == DistributionSpec => []AheadOfVestingBounded
<1>1. DistributionInv => AheadOfVestingBounded
  <2> SUFFICES ASSUME DistributionInv, NEW u \in DOMAIN allocations
               PROVE  untrn[u] <= 2 * Vested(allocations[u], now)
                          + (IF ntrn_transferred[u] THEN UserReward(u) ELSE 0)
    BY DEF AheadOfVestingBounded
  <2>1. LockdropInv /\ AirdropInv /\ BurntWithReward
    BY DEF DistributionInv
  <2>2. u \in Users /\ allocations[u] \in AllocationRecords /\ now \in Nat
    BY <2>1 DEF AirdropInv, AirdropTypeOK
  <2>3. PICK v \in Nat, w \in Nat, b \in Nat, r \in Nat :
            /\ v = Vested(allocations[u], now) /\ w = allocations[u].withdrawn_amount
            /\ b = rewards_burned[u] /\ r = UserReward(u)
    <3>1. Vested(allocations[u], now) \in Nat /\ allocations[u].withdrawn_amount \in Nat
      BY <2>2, VestedGrows DEF AllocationRecords
    <3>2. rewards_burned[u] \in Nat
      BY <2>1, <2>2 DEF AirdropInv, AirdropTypeOK
    <3>3. UserReward(u) \in Nat
      BY <2>1, <2>2, RewardNat DEF LockdropInv
    <3> QED BY <3>1, <3>2, <3>3
  <2>4. w <= v /\ untrn[u] = w + b
    BY <2>1, <2>2, <2>3 DEF AirdropInv, WithdrawnWithinVested, HoldersAccounted
  <2>5. b <= v + r /\ (~ntrn_transferred[u] => b = 0)
    BY <2>1, <2>2, <2>3 DEF BurntWithReward
  <2> QED BY <2>3, <2>4, <2>5
<1> QED BY <1>1, DistributionInvariant, PTL

\* The one time rewards that the users have are among the ones that the
\* airdrop's specification enumerates.
RewardsEnumerated == \A u \in Users : UserReward(u) \in LockdropRewards

\* For the airdrop and the credits contract the lockdrop of this repository is
\* the lockdrop of AirdropSpec: its claims burn the tokens that
\* claim_airdrop_tokens_with_multiplier_msg computes, and nothing else. The
\* hypothesis only says that LockdropRewards, a bound for TLC, is large enough.
THEOREM DistributionImplementsAirdrop ==
    DistributionSpec /\ []RewardsEnumerated => AirdropSpec
<1>1. DistributionInit => AirdropInit
  BY DEF DistributionInit
<1>2. DistributionInv /\ RewardsEnumerated /\ [DistributionNext]_distributionVars
          => [AirdropNext]_airdropVars
  <2> SUFFICES ASSUME DistributionInv, RewardsEnumerated, [DistributionNext]_distributionVars
               PROVE  [AirdropNext]_airdropVars
    OBVIOUS
  <2>1. CASE DistributionTick
    BY <2>1 DEF DistributionTick, AirdropTick, airdropSide, creditsVars, claimVars, AirdropNext
  <2>2. CASE UNCHANGED airdropSide /\ (LockdropSetup \/ AuctionCalls)
    <3>1. UNCHANGED now
      BY <2>2, NoMessageMovesTheClock
    <3> QED BY <2>2, <3>1 DEF airdropVars, airdropSide
  <2>3. CASE AirdropStep
    BY <2>3 DEF AirdropNext
  <2>4. ASSUME NEW u \in Users, NEW p \in LockPools, NEW d \in LockDurations,
               NEW w \in BOOLEAN, ClaimRewardsAndUnlock(u, p, d, w)
        PROVE  [AirdropNext]_airdropVars
    <3>1. CASE ntrn_transferred[u] \/ balances[u] = 0
      BY <2>4, <3>1 DEF ClaimRewardsAndUnlock, airdropVars, airdropSide,
                        handle_claim_rewards_and_unlock_for_lockup
    <3>2. CASE ~(ntrn_transferred[u] \/ balances[u] = 0)
      <4>1. PICK reward \in LockdropRewards : reward = UserReward(u)
        BY DEF RewardsEnumerated
      <4>2. ClaimAirdropTokens(u, reward)
        BY <2>4, <3>2, <4>1 DEF ClaimRewardsAndUnlock
      <4>3. balances[u] \in Nat
        BY AccountsApart DEF DistributionInv, AirdropInv, AirdropTypeOK
      <4>4. balances[u] > 0
        BY <3>2, <4>3
      <4> QED BY <4>2, <4>4 DEF AirdropNext
    <3> QED BY <3>1, <3>2
  <2>5. CASE UNCHANGED distributionVars
    BY <2>5 DEF distributionVars
  <2> QED BY <2>1, <2>2, <2>3, <2>4, <2>5 DEF DistributionNext
<1> QED BY <1>1, <1>2, DistributionInvariant, PTL DEF DistributionSpec, AirdropSpec
\* For the lockdrop nothing changes by the credits contract: a refused BurnFrom
\* is a claim that does not happen. What is proved of LockdropSpec holds here.
THEOREM DistributionImplementsLockdrop == DistributionSpec => LockdropSpec
<1>1. DistributionInit => LockdropInit
  BY DEF DistributionInit
<1> QED BY <1>1, DistributionLockdropStep, PTL DEF DistributionSpec, LockdropSpec
=============================================================================
