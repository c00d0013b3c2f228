-------------------------- MODULE MigrationProofs --------------------------
(***************************************************************************)
(* Theorems about the migration of lockups from the lockdrop contract of    *)
(* the XYK pools to that of the PCL pools: the two contracts implement      *)
(* LockupCustody, the books of the second agree with its LP tokens and      *)
(* cover its rewards, and the first is left without obligations.            *)
(*                                                                         *)
(* All of them follow from MigrationInv. Its hard step is the migration of  *)
(* a user, a chain of callbacks for each lockup: the books that the chain   *)
(* passes on satisfy ChainOK after any of the lockups, by a minimal         *)
(* counterexample among the subsets of the user's lockups.                  *)
(***************************************************************************)
EXTENDS LockdropMigration, LockdropProofs

\* The records of LOCKUP_INFO and of USER_INFO of the PCL contract.
PclLockups ==
    [lp_units_locked : Nat, astroport_lp_transferred : Nat \cup {NONE},
     incentives_debt : Nat, unlock_timestamp : Nat]
PclUserInfos == [total_ntrn_rewards : Nat, ntrn_transferred : BOOLEAN]

\* s has the fields of the contract's state, and no others.
PclRecord(s) ==
    s \in [incentives : {s.incentives}, amount_in_lockups : {s.amount_in_lockups},
           rewards_per_share : {s.rewards_per_share}, is_staked : {s.is_staked},
           lockup : {s.lockup}, user : {s.user}, total_user_lockup : {s.total_user_lockup},
           lp_held : {s.lp_held}, deposit : {s.deposit}, pending : {s.pending},
           reserve : {s.reserve}, reward_balance : {s.reward_balance}]

\* The fields have their types; the store of lockups is finite.
PclTyped(s) ==
    /\ PclRecord(s)
    /\ s.incentives \in IncentivesAddrs /\ s.amount_in_lockups \in [PoolType -> Nat]
    /\ s.rewards_per_share \in [PoolType -> Nat] /\ s.is_staked \in [PoolType -> BOOLEAN]
    /\ s.lockup \in [DOMAIN s.lockup -> PclLockups]
    /\ DOMAIN s.lockup \subseteq Keys /\ IsFiniteSet(DOMAIN s.lockup)
    /\ s.user \in [DOMAIN s.user -> PclUserInfos]
    /\ s.total_user_lockup \in [PoolType -> [Users -> Nat]]
    /\ s.lp_held \in [PoolType -> Nat]
    /\ s.deposit \in [IncentivesAddrs -> [PoolType -> Nat]]
    /\ s.pending \in [IncentivesAddrs -> [PoolType -> Nat]]
    /\ s.reserve \in Nat /\ s.reward_balance \in Nat

\* The LP tokens that stand for a pool in state s of the contract.
BalanceIn(s, p) == IF s.is_staked[p] THEN s.deposit[s.incentives][p] ELSE s.lp_held[p]

\* Nothing is staked where the contract does not look for it, and a pool that
\* is not staked has earned nothing.
PclStakesOK(s) ==
    \A p \in PoolType :
        /\ \A a \in IncentivesAddrs :
               (a # s.incentives \/ ~s.is_staked[p]) => s.deposit[a][p] = 0
        /\ ~s.is_staked[p] => s.rewards_per_share[p] = 0

\* The totals are those of the lockups, and of the LP tokens.
PclBooksOK(s) ==
    /\ UnitsAgree(s.lockup, s.amount_in_lockups, s.total_user_lockup)
    /\ \A p \in PoolType : s.amount_in_lockups[p] = BalanceIn(s, p)

\* What a lockup has earned and not drawn, in Decimal fractions.
PclUndrawn(s, k) ==
    (s.lockup[k].lp_units_locked * s.rewards_per_share[k[1]])
        - (DECIMAL_FRACTIONAL * s.lockup[k].incentives_debt)

\* PclRewardsCovered before the rounding, as FractionsCovered is of the XYK
\* contract.
PclFractionsCovered(s) ==
    /\ \A k \in LiveIn(s.lockup) : s.lockup[k].incentives_debt
           <= MulFloor(s.lockup[k].lp_units_locked, s.rewards_per_share[k[1]])
    /\ SumOver([k \in DOMAIN s.lockup |-> PclUndrawn(s, k)], LiveIn(s.lockup))
           <= DECIMAL_FRACTIONAL * s.reward_balance

\* The PCL contract, between two lockups that come to it.
PclOK(s) ==
    /\ PclTyped(s)
    /\ \A k \in DOMAIN s.lockup :
           /\ k[2] \in DOMAIN s.user
           /\ s.lockup[k].unlock_timestamp = UnlockTimestamp(k[3])
    /\ PclStakesOK(s) /\ PclBooksOK(s) /\ PclFractionsCovered(s)

(***************************************************************************)
(* The two contracts together: what is in the second has left the first,    *)
(* and when a pool of the second is staked the first has nothing left of it *)
(* to send, so that no lockup comes to a pool that has earned rewards.      *)
(***************************************************************************)
Separate(l, amount, s) ==
    /\ DOMAIN s.lockup \subseteq DOMAIN l \ LiveIn(l)
    /\ \A p \in PoolType : s.is_staked[p] => amount[p] = 0

\* Terms are over after the windows only, and these are over.
TermsOK ==
    /\ now >= WindowsEnd
    /\ \A k \in DOMAIN lockup : k[3] >= MIN_LOCK_DURATION

\* Whoever is marked as paid has been paid the one time reward, and nobody's
\* lockup leaves without it.
OneTimeRewardsPaid ==
    /\ \A u \in Users :
           received_ntrn[u] = IF ntrn_transferred[u] THEN UserReward(u) ELSE 0
    /\ \A k \in DOMAIN lockup \ LiveLockups : ntrn_transferred[k[2]]

\* The generator is known: the pools were initialised.
GeneratorKnown == lockdrop_config.generator \in Generators

\* The inductive invariant.
MigrationInv ==
    /\ LockdropInv /\ GeneratorKnown /\ TermsOK /\ OneTimeRewardsPaid
    /\ PclOK(pcl) /\ Separate(lockup, amount_in_lockups, pcl)
-----------------------------------------------------------------------------
(***************************************************************************)
(* The chain of callbacks, a recursive function over the lockups of a user. *)
(***************************************************************************)
KeysOf(u, S) == IsFiniteSet(S) /\ S \subseteq Keys /\ \A k \in S : k[2] = u

\* Two lockups of a user come one before the other, and the order is
\* transitive.
LEMMA KeysOrdered ==
    ASSUME NEW u, NEW S, KeysOf(u, S), NEW x \in S, NEW y \in S, NEW z \in S
    PROVE  /\ x # y => KeyBefore(x, y) \/ KeyBefore(y, x)
           /\ KeyBefore(x, y) /\ KeyBefore(y, z) => KeyBefore(x, z)
<1>1. ASSUME NEW k \in S PROVE k[1] \in PoolType /\ k[3] \in Nat /\ k = <<k[1], u, k[3]>>
  <2>1. k \in Keys /\ k[2] = u
    BY DEF KeysOf
  <2>2. k[1] \in PoolType /\ k[3] \in LockDurations /\ k = <<k[1], k[2], k[3]>>
    BY <2>1 DEF Keys
  <2> QED BY <2>1, <2>2, LockdropAmountAssumption
<1>2. /\ x[1] \in PoolType /\ x[3] \in Nat /\ x = <<x[1], u, x[3]>>
      /\ y[1] \in PoolType /\ y[3] \in Nat /\ y = <<y[1], u, y[3]>>
      /\ z[1] \in PoolType /\ z[3] \in Nat
  BY <1>1
<1> QED BY <1>2 DEF KeyBefore, PoolType

\* The last of some lockups of a user is one of them.
LEMMA LastIn ==
    ASSUME NEW u, NEW S, KeysOf(u, S), S # {}
    PROVE  LastMigrated(S) \in S
<1> DEFINE T == {s \in SUBSET S : /\ s # {}
                                  /\ ~\E k \in s : \A l \in s \ {k} : KeyBefore(l, k)}
<1>1. ASSUME T # {} PROVE FALSE
  <2>1. PICK s \in T : \A r \in T : ~(r \subseteq s /\ r # s)
    <3>1. T \subseteq SUBSET S /\ IsFiniteSet(S)
      BY DEF KeysOf
    <3> HIDE DEF T
    <3> QED BY <1>1, <3>1, MinimalSet
  <2>2. PICK x \in s : TRUE
    OBVIOUS
  <2>3. s \ {x} \notin T
    BY <2>1, <2>2
  <2>4. s \ {x} # {}
    BY <2>1, <2>2
  <2>5. PICK y \in s \ {x} : \A l \in (s \ {x}) \ {y} : KeyBefore(l, y)
    BY <2>3, <2>4
  <2>6. CASE KeyBefore(x, y)
    <3>1. \A l \in s \ {y} : KeyBefore(l, y)
      BY <2>5, <2>6
    <3> QED BY <2>1, <2>5, <3>1
  <2>7. CASE KeyBefore(y, x)
    <3>1. ASSUME NEW l \in s \ {x} PROVE KeyBefore(l, x)
      <4>1. l = y \/ KeyBefore(l, y)
        BY <2>5
      <4>2. l \in S /\ x \in S /\ y \in S
        BY <2>2, <2>5
      <4> QED BY <2>7, <4>1, <4>2, KeysOrdered
    <3> QED BY <2>1, <2>2, <3>1
  <2>8. KeyBefore(x, y) \/ KeyBefore(y, x)
    <3>1. x \in S /\ y \in S /\ x # y
      BY <2>2, <2>5
    <3> QED BY <3>1, KeysOrdered
  <2> QED BY <2>6, <2>7, <2>8
<1>2. \E k \in S : \A l \in S \ {k} : KeyBefore(l, k)
  BY <1>1
<1> QED BY <1>2 DEF LastMigrated

\* g is the recursive function of the chain over the subsets of mine.
Chains(g, mine, start, minted) ==
    g = [S \in SUBSET mine |->
            IF S = {} THEN start
            ELSE MigrateLockup(g[S \ {LastMigrated(S)}], LastMigrated(S), minted)]

\* Two such functions agree where both are defined.
LEMMA ChainsUnique ==
    ASSUME NEW u, NEW A, KeysOf(u, A), NEW B, NEW g, NEW h, NEW start, NEW minted,
           Chains(g, A, start, minted), Chains(h, B, start, minted),
           NEW S \in SUBSET A, S \in SUBSET B
    PROVE  g[S] = h[S]
<1> DEFINE T == {s \in SUBSET A : s \in SUBSET B /\ g[s] # h[s]}
           rest(s) == s \ {LastMigrated(s)}
<1> SUFFICES ASSUME T # {} PROVE FALSE
  OBVIOUS
<1>1. PICK s \in T : \A r \in T : ~(r \subseteq s /\ r # s)
  <2>1. T \subseteq SUBSET A /\ IsFiniteSet(A)
    BY DEF KeysOf
  <2> HIDE DEF T
  <2> QED BY <2>1, MinimalSet
<1>2. g[s] = IF s = {} THEN start ELSE MigrateLockup(g[rest(s)], LastMigrated(s), minted)
  BY DEF Chains
<1>3. h[s] = IF s = {} THEN start ELSE MigrateLockup(h[rest(s)], LastMigrated(s), minted)
  BY DEF Chains
<1>4. s # {}
  BY <1>2, <1>3
<1>5. LastMigrated(s) \in s
  <2>1. KeysOf(u, s)
    BY FS_Subset DEF KeysOf
  <2> QED BY <1>4, <2>1, LastIn
<1>6. rest(s) \subseteq s /\ rest(s) # s
  BY <1>5
<1>7. rest(s) \notin T
  BY <1>1, <1>6
<1>8. g[rest(s)] = h[rest(s)]
  BY <1>6, <1>7
<1> QED BY <1>2, <1>3, <1>4, <1>8

\* There is such a function for the lockups of a user.
LEMMA ChainsExists ==
    ASSUME NEW u, NEW S, KeysOf(u, S), NEW start, NEW minted
    PROVE  \E g : Chains(g, S, start, minted)
<1> DEFINE T == {s \in SUBSET S : ~\E g : Chains(g, s, start, minted)}
<1> SUFFICES ASSUME T # {} PROVE FALSE
  OBVIOUS
<1>1. PICK s \in T : \A r \in T : ~(r \subseteq s /\ r # s)
  <2>1. T \subseteq SUBSET S /\ IsFiniteSet(S)
    BY DEF KeysOf
  <2> HIDE DEF T
  <2> QED BY <2>1, MinimalSet
<1> DEFINE G(r) == CHOOSE g : Chains(g, r, start, minted)
           rest(r) == r \ {LastMigrated(r)}
           next(r, x) == IF r = {} THEN start ELSE MigrateLockup(x, LastMigrated(r), minted)
           g == [r \in SUBSET s |-> next(r, G(rest(r))[rest(r)])]
<1>2. ASSUME NEW r \in SUBSET s, r # s PROVE Chains(G(r), r, start, minted)
  <2>1. \E h : Chains(h, r, start, minted)
    BY <1>1, <1>2
  <2> QED BY <2>1
<1>3. ASSUME NEW r \in SUBSET s
      PROVE  KeysOf(u, r) /\ (r # {} => LastMigrated(r) \in r)
  <2>1. KeysOf(u, r)
    BY FS_Subset DEF KeysOf
  <2> QED BY <2>1, LastIn
<1>4. ASSUME NEW r \in SUBSET s, r # {}
      PROVE  rest(r) \in SUBSET s /\ rest(r) # s /\ rest(r) \in SUBSET r
  BY <1>3, <1>4
<1>5. ASSUME NEW r \in SUBSET s, r # s PROVE g[r] = G(r)[r]
  <2>1. G(r)[r] = next(r, G(r)[rest(r)])
    <3>1. Chains(G(r), r, start, minted) /\ r \in SUBSET r
      BY <1>2, <1>5
    <3> HIDE DEF G
    <3> QED BY <3>1 DEF Chains
  <2>2. CASE r = {}
    BY <2>1, <2>2
  <2>3. CASE r # {}
    <3>1. Chains(G(rest(r)), rest(r), start, minted) /\ Chains(G(r), r, start, minted)
      BY <1>2, <1>4, <1>5, <2>3
    <3>2. KeysOf(u, r) /\ rest(r) \in SUBSET r /\ rest(r) \in SUBSET rest(r)
      BY <1>3, <1>4, <2>3
    <3> HIDE DEF G, rest, next
    <3>3. G(r)[rest(r)] = G(rest(r))[rest(r)]
      BY <3>1, <3>2, ChainsUnique
    <3>4. g[r] = next(r, G(rest(r))[rest(r)])
      BY <1>5
    <3> QED BY <2>1, <3>3, <3>4
  <2> QED BY <2>2, <2>3
<1>6. ASSUME NEW h, h = g PROVE Chains(h, s, start, minted)
  <2>1. h = [r \in SUBSET s |-> h[r]]
    BY <1>6
  <2>2. \A r \in SUBSET s : r # {} => G(rest(r))[rest(r)] = h[rest(r)]
    BY <1>4, <1>5, <1>6
  <2>3. \A r \in SUBSET s : h[r] = next(r, G(rest(r))[rest(r)])
    BY <1>6
  <2>4. \A r \in SUBSET s : h[r] = next(r, h[rest(r)])
    BY <2>2, <2>3
  <2> HIDE DEF g, G
  <2> QED BY <2>1, <2>4 DEF Chains
<1> QED BY <1>6

\* What Migrated computes.
LEMMA MigratedIsChain ==
    ASSUME NEW u, NEW S, KeysOf(u, S), NEW start, NEW minted
    PROVE  \E g : Chains(g, S, start, minted) /\ Migrated(S, start, minted) = g[S]
<1>1. Migrated(S, start, minted) = (CHOOSE g : Chains(g, S, start, minted))[S]
  BY DEF Migrated, Chains
<1> QED BY <1>1, ChainsExists
-----------------------------------------------------------------------------
\* What the PCL contract becomes when a lockup of m LP tokens comes to it, and
\* the pool is staked or not.
Arrived(s, t, key, m, info, stake) ==
    LET p == key[1]  u == key[2] IN
    /\ t.incentives = s.incentives /\ t.pending = s.pending /\ t.reserve = s.reserve
    /\ t.reward_balance = s.reward_balance /\ t.rewards_per_share = s.rewards_per_share
    /\ t.lockup = [k \in DOMAIN s.lockup \cup {key} |->
           IF k = key THEN from_xyk_lockup_info(UnlockTimestamp(key[3]), m) ELSE s.lockup[k]]
    /\ t.user = [v \in DOMAIN s.user \cup {u} |-> IF v = u THEN info ELSE s.user[v]]
    /\ t.amount_in_lockups = [s.amount_in_lockups EXCEPT ![p] = @ + m]
    /\ t.total_user_lockup = [s.total_user_lockup EXCEPT ![p][u] = @ + m]
    /\ t.is_staked = [s.is_staked EXCEPT ![p] = @ \/ stake]
    /\ t.lp_held = [s.lp_held EXCEPT ![p] = IF stake THEN 0 ELSE @ + m]
    /\ t.deposit = [s.deposit EXCEPT ![s.incentives][p] = IF stake THEN @ + (s.lp_held[p] + m)
                                                          ELSE @]

\* The handler and its callback do that: what was minted is the difference of
\* the balances.
LEMMA ArrivalIs ==
    ASSUME NEW s, PclTyped(s), NEW key \in Keys, NEW m \in Nat, NEW info \in PclUserInfos,
           NEW stake \in BOOLEAN, NEW t,
           t = pcl_handle_migrate_xyk_liquidity(s, key, m, info, UnlockTimestamp(key[3]), stake)
    PROVE  /\ Arrived(s, t, key, m, info, stake)
           /\ PclRecord(t)
<1> DEFINE p == key[1]
           u == key[2]
           a == s.incentives
<1>0. p \in PoolType /\ u \in Users /\ a \in IncentivesAddrs
  BY DEF Keys, PclTyped
<1>1. PICK h \in Nat : h = s.lp_held[p]
  BY <1>0 DEF PclTyped
<1>2. PICK s1 : s1 = [s EXCEPT !.lp_held[p] = @ + m]
  OBVIOUS
<1>3. /\ PclRecord(s1)
      /\ s1.lp_held = [s.lp_held EXCEPT ![p] = h + m]
      /\ s1.incentives = a /\ s1.pending = s.pending /\ s1.reserve = s.reserve
      /\ s1.reward_balance = s.reward_balance /\ s1.rewards_per_share = s.rewards_per_share
      /\ s1.lockup = s.lockup /\ s1.user = s.user /\ s1.is_staked = s.is_staked
      /\ s1.amount_in_lockups = s.amount_in_lockups
      /\ s1.total_user_lockup = s.total_user_lockup /\ s1.deposit = s.deposit
  BY <1>0, <1>1, <1>2 DEF PclTyped, PclRecord
<1>4. s1.lp_held[p] = h + m /\ LpMinted(h, h + m) = m
  BY <1>0, <1>3 DEF LpMinted, PclTyped
<1>5. t = callback_finish_lockup_migration(s1, key, h, info, UnlockTimestamp(key[3]), stake)
  BY <1>1, <1>2 DEF pcl_handle_migrate_xyk_liquidity
<1> DEFINE rec == from_xyk_lockup_info(UnlockTimestamp(key[3]), m)
<1>6. PICK arr : arr = [s1 EXCEPT
            !.lockup = [k \in DOMAIN @ \cup {key} |-> IF k = key THEN rec ELSE @[k]],
            !.user = [v \in DOMAIN @ \cup {u} |-> IF v = u THEN info ELSE @[v]],
            !.amount_in_lockups[p] = @ + m,
            !.total_user_lockup[p][u] = @ + m]
  OBVIOUS
<1>7. t = IF stake THEN [arr EXCEPT !.lp_held[p] = 0, !.deposit[a][p] = @ + (h + m),
                                    !.is_staked[p] = TRUE]
          ELSE arr
  BY <1>3, <1>4, <1>5, <1>6 DEF callback_finish_lockup_migration, StakedNow
<1> HIDE DEF rec
<1>8. /\ PclRecord(arr)
      /\ arr.lp_held = s1.lp_held
      /\ arr.incentives = a /\ arr.pending = s.pending /\ arr.reserve = s.reserve
      /\ arr.reward_balance = s.reward_balance /\ arr.rewards_per_share = s.rewards_per_share
      /\ arr.is_staked = s.is_staked /\ arr.deposit = s.deposit
  BY <1>3, <1>6 DEF PclRecord
<1>9. /\ arr.lockup = [k \in DOMAIN s.lockup \cup {key} |-> IF k = key THEN rec ELSE s.lockup[k]]
      /\ arr.user = [v \in DOMAIN s.user \cup {u} |-> IF v = u THEN info ELSE s.user[v]]
  BY <1>3, <1>6 DEF PclRecord
<1>10. /\ arr.amount_in_lockups = [s.amount_in_lockups EXCEPT ![p] = @ + m]
       /\ arr.total_user_lockup = [s.total_user_lockup EXCEPT ![p][u] = @ + m]
  BY <1>3, <1>6 DEF PclRecord
<1>11. CASE stake
  <2>1. t = [arr EXCEPT !.lp_held[p] = 0, !.deposit[a][p] = @ + (h + m), !.is_staked[p] = TRUE]
    BY <1>7, <1>11
  <2>2. /\ PclRecord(t)
        /\ t.incentives = arr.incentives /\ t.pending = arr.pending /\ t.reserve = arr.reserve
        /\ t.reward_balance = arr.reward_balance
        /\ t.rewards_per_share = arr.rewards_per_share
        /\ t.lockup = arr.lockup /\ t.user = arr.user
        /\ t.amount_in_lockups = arr.amount_in_lockups
        /\ t.total_user_lockup = arr.total_user_lockup
    <3>1. PclRecord(arr)
      BY <1>8
    <3>2. PclRecord(t)
      BY ONLY <2>1, <3>1 DEF PclRecord
    <3>3. /\ t.incentives = arr.incentives /\ t.pending = arr.pending /\ t.reserve = arr.reserve
          /\ t.reward_balance = arr.reward_balance
          /\ t.rewards_per_share = arr.rewards_per_share
          /\ t.lockup = arr.lockup /\ t.user = arr.user
          /\ t.amount_in_lockups = arr.amount_in_lockups
          /\ t.total_user_lockup = arr.total_user_lockup
      BY ONLY <2>1, <3>1 DEF PclRecord
    <3> QED BY <3>2, <3>3
  <2>3. /\ t.lp_held = [arr.lp_held EXCEPT ![p] = 0]
        /\ t.deposit = [arr.deposit EXCEPT ![a][p] = @ + (h + m)]
        /\ t.is_staked = [arr.is_staked EXCEPT ![p] = TRUE]
    BY <1>8, <2>1 DEF PclRecord
  <2>4. t.lp_held = [s.lp_held EXCEPT ![p] = IF stake THEN 0 ELSE @ + m]
    <3>1. PICK f \in [PoolType -> Nat] : f = s.lp_held
      BY DEF PclTyped
    <3>2. t.lp_held = [[f EXCEPT ![p] = h + m] EXCEPT ![p] = 0]
      BY <1>3, <1>8, <2>3, <3>1
    <3>3. t.lp_held = [f EXCEPT ![p] = 0]
      BY <1>0, <3>2
    <3> QED BY <1>11, <3>1, <3>3
  <2>5. t.deposit = [s.deposit EXCEPT ![s.incentives][p] =
                         IF stake THEN @ + (s.lp_held[p] + m) ELSE @]
    BY <1>1, <1>8, <1>11, <2>3
  <2>6. t.is_staked = [s.is_staked EXCEPT ![p] = @ \/ stake]
    BY <1>8, <1>11, <2>3
  <2> QED BY <1>8, <1>9, <1>10, <2>2, <2>4, <2>5, <2>6 DEF Arrived, rec
<1>12. CASE ~stake
  <2>1. t = arr
    BY <1>7, <1>12
  <2>2. t.lp_held = [s.lp_held EXCEPT ![p] = IF stake THEN 0 ELSE @ + m]
    BY <1>1, <1>3, <1>8, <1>12, <2>1
  <2>3. t.deposit = [s.deposit EXCEPT ![s.incentives][p] =
                         IF stake THEN @ + (s.lp_held[p] + m) ELSE @]
    BY <1>0, <1>8, <1>12, <2>1 DEF PclTyped
  <2>4. t.is_staked = [s.is_staked EXCEPT ![p] = @ \/ stake]
    BY <1>0, <1>8, <1>12, <2>1 DEF PclTyped
  <2> QED BY <1>8, <1>9, <1>10, <2>1, <2>2, <2>3, <2>4 DEF Arrived, rec
<1> QED BY <1>11, <1>12

\* UnlockTimestamp is a time.
LEMMA UnlockNat == \A k \in Keys : UnlockTimestamp(k[3]) \in Nat /\ k[3] \in Nat
<1>1. ASSUME NEW k \in Keys PROVE k[3] \in Nat
  <2>1. k[3] \in LockDurations
    BY DEF Keys
  <2> QED BY <2>1, LockdropAmountAssumption
<1> QED BY <1>1, LockdropWindowAssumption DEF UnlockTimestamp, WindowsEnd, LockCutoff

\* What a record of a lockup says, for the provers.
LEMMA PclLockupFields ==
    ASSUME NEW s, PclTyped(s), NEW k \in DOMAIN s.lockup
    PROVE  /\ s.lockup[k] \in PclLockups
           /\ s.lockup[k].lp_units_locked \in Nat /\ s.lockup[k].incentives_debt \in Nat
           /\ s.lockup[k].astroport_lp_transferred \in Nat \cup {NONE}
           /\ s.rewards_per_share[k[1]] \in Nat
           /\ k \in Keys /\ k[1] \in PoolType /\ k[2] \in Users
           /\ PclUndrawn(s, k) \in Int
<1>1. k \in Keys /\ k[1] \in PoolType /\ k[2] \in Users
  BY DEF PclTyped, Keys
<1>2. /\ s.lockup[k] \in PclLockups
      /\ s.lockup[k].lp_units_locked \in Nat /\ s.lockup[k].incentives_debt \in Nat
      /\ s.lockup[k].astroport_lp_transferred \in Nat \cup {NONE}
      /\ s.rewards_per_share[k[1]] \in Nat
  BY <1>1 DEF PclTyped, PclLockups
<1>3. PICK a \in Nat, b \in Nat, c \in Nat, d \in Nat :
          /\ a = s.lockup[k].lp_units_locked /\ b = s.rewards_per_share[k[1]]
          /\ c = s.lockup[k].incentives_debt /\ d = DECIMAL_FRACTIONAL
  BY <1>2, ScaleAssumption
<1>4. (a * b) - (d * c) \in Int
  OBVIOUS
<1> QED BY <1>1, <1>2, <1>3, <1>4 DEF PclUndrawn

\* The types, after a lockup has come.
LEMMA ArrivalTyped ==
    ASSUME NEW s, PclTyped(s), NEW key \in Keys, NEW m \in Nat, NEW info \in PclUserInfos,
           NEW stake \in BOOLEAN, NEW t, PclRecord(t), Arrived(s, t, key, m, info, stake)
    PROVE  /\ PclTyped(t)
           /\ DOMAIN t.lockup = DOMAIN s.lockup \cup {key}
           /\ t.lockup[key] = from_xyk_lockup_info(UnlockTimestamp(key[3]), m)
           /\ \A k \in DOMAIN s.lockup : k # key => t.lockup[k] = s.lockup[k]
<1> DEFINE p == key[1]
           u == key[2]
           a == s.incentives
           rec == from_xyk_lockup_info(UnlockTimestamp(key[3]), m)
<1>0. p \in PoolType /\ u \in Users /\ a \in IncentivesAddrs /\ rec \in PclLockups
  BY UnlockNat DEF Keys, PclTyped, PclLockups, from_xyk_lockup_info
<1>1. /\ t.lockup = [k \in DOMAIN s.lockup \cup {key} |-> IF k = key THEN rec ELSE s.lockup[k]]
      /\ t.user = [v \in DOMAIN s.user \cup {u} |-> IF v = u THEN info ELSE s.user[v]]
  BY DEF Arrived
<1>2. /\ DOMAIN t.lockup = DOMAIN s.lockup \cup {key} /\ t.lockup[key] = rec
      /\ \A k \in DOMAIN s.lockup : k # key => t.lockup[k] = s.lockup[k]
  BY <1>1
<1> HIDE DEF rec
<1>3. t.lockup \in [DOMAIN t.lockup -> PclLockups]
  BY <1>0, <1>1, PclLockupFields
<1>4. DOMAIN t.lockup \subseteq Keys /\ IsFiniteSet(DOMAIN t.lockup)
  <2>1. DOMAIN s.lockup \subseteq Keys /\ IsFiniteSet(DOMAIN s.lockup)
    BY DEF PclTyped
  <2>2. IsFiniteSet(DOMAIN s.lockup \cup {key})
    BY <2>1, FS_AddElement
  <2> QED BY <1>2, <2>1, <2>2
<1>5. t.user \in [DOMAIN t.user -> PclUserInfos]
  BY <1>1 DEF PclTyped
<1>6. PICK h \in Nat : h = s.lp_held[p]
  BY <1>0 DEF PclTyped
<1>7. /\ t.amount_in_lockups \in [PoolType -> Nat]
      /\ t.total_user_lockup \in [PoolType -> [Users -> Nat]]
  BY <1>0 DEF Arrived, PclTyped
<1>8. t.lp_held \in [PoolType -> Nat] /\ t.is_staked \in [PoolType -> BOOLEAN]
  BY <1>0, <1>6 DEF Arrived, PclTyped
<1>9. t.deposit \in [IncentivesAddrs -> [PoolType -> Nat]]
  BY <1>0, <1>6 DEF Arrived, PclTyped
<1> QED BY <1>2, <1>3, <1>4, <1>5, <1>7, <1>8, <1>9 DEF Arrived, PclTyped, rec

\* A lockup that comes to a pool that is not staked is worth what was minted
\* for it, and may draw nothing of what was earned before.
LEMMA ArrivalKeeps ==
    ASSUME NEW s, PclOK(s), NEW key \in Keys, key \notin DOMAIN s.lockup, ~s.is_staked[key[1]],
           NEW m \in Nat, NEW info \in PclUserInfos, NEW stake \in BOOLEAN, NEW t,
           t = pcl_handle_migrate_xyk_liquidity(s, key, m, info, UnlockTimestamp(key[3]), stake)
    PROVE  /\ PclOK(t)
           /\ DOMAIN t.lockup = DOMAIN s.lockup \cup {key}
           /\ \A k \in DOMAIN s.lockup : t.lockup[k] = s.lockup[k]
           /\ t.lockup[key].astroport_lp_transferred = NONE
           /\ t.is_staked = [s.is_staked EXCEPT ![key[1]] = stake]
<1> DEFINE p == key[1]
           u == key[2]
           a == s.incentives
           l == s.lockup
           l2 == t.lockup
<1>0. /\ PclTyped(s) /\ PclStakesOK(s) /\ PclBooksOK(s) /\ PclFractionsCovered(s)
      /\ p \in PoolType /\ u \in Users
  BY DEF PclOK, Keys
<1>1. Arrived(s, t, key, m, info, stake) /\ PclRecord(t)
  BY <1>0, ArrivalIs
<1>2. /\ PclTyped(t) /\ DOMAIN l2 = DOMAIN l \cup {key}
      /\ l2[key] = from_xyk_lockup_info(UnlockTimestamp(key[3]), m)
      /\ \A k \in DOMAIN l : l2[k] = l[k]
  BY <1>0, <1>1, ArrivalTyped
<1>3. /\ l2[key].lp_units_locked = m /\ l2[key].astroport_lp_transferred = NONE
      /\ l2[key].incentives_debt = 0 /\ l2[key].unlock_timestamp = UnlockTimestamp(key[3])
  BY <1>2 DEF from_xyk_lockup_info
<1>4. t.is_staked = [s.is_staked EXCEPT ![p] = stake]
  BY <1>0, <1>1 DEF Arrived, PclTyped
<1>5. \A k \in DOMAIN l2 : /\ k[2] \in DOMAIN t.user
                           /\ l2[k].unlock_timestamp = UnlockTimestamp(k[3])
  BY <1>1, <1>2, <1>3 DEF PclOK, Arrived
<1>6. PclStakesOK(t)
  <2>1. t.rewards_per_share = s.rewards_per_share /\ t.incentives = a
    BY <1>1 DEF Arrived
  <2>2. ASSUME NEW q \in PoolType, NEW b \in IncentivesAddrs, b # a \/ ~t.is_staked[q]
        PROVE  t.deposit[b][q] = 0
    <3>1. s.deposit[b][q] = 0
      BY <1>0, <1>4, <2>2 DEF PclStakesOK, PclTyped
    <3>2. CASE b = a /\ q = p
      <4>1. ~stake
        BY <1>0, <1>4, <2>2, <3>2 DEF PclTyped
      <4> QED BY <1>0, <1>1, <3>1, <3>2, <4>1 DEF Arrived, PclTyped
    <3>3. CASE ~(b = a /\ q = p)
      BY <1>0, <1>1, <3>1, <3>3 DEF Arrived, PclTyped
    <3> QED BY <3>2, <3>3
  <2>3. ASSUME NEW q \in PoolType, ~t.is_staked[q] PROVE t.rewards_per_share[q] = 0
    BY <1>0, <1>4, <2>1, <2>3 DEF PclStakesOK, PclTyped
  <2> QED BY <2>1, <2>2, <2>3 DEF PclStakesOK
<1>7. PclBooksOK(t)
  <2>1. Counted(l) /\ Counted(l2)
    BY <1>0, <1>2, PclLockupFields DEF Counted, PclTyped
  <2>2. UnitsMoveAt(l, l2, key, m)
    <3>1. key \in LiveIn(l2) /\ key \notin LiveIn(l)
      BY <1>2, <1>3 DEF LiveIn
    <3> QED BY <1>2, <1>3, <3>1 DEF UnitsMoveAt
  <2>3. TotalsMoveAt(s.amount_in_lockups, t.amount_in_lockups,
                     s.total_user_lockup, t.total_user_lockup, key, m)
    <3>1. /\ t.amount_in_lockups = [s.amount_in_lockups EXCEPT ![p] = @ + m]
          /\ t.total_user_lockup = [s.total_user_lockup EXCEPT ![p][u] = @ + m]
      BY <1>1 DEF Arrived
    <3> QED BY <1>0, <3>1 DEF TotalsMoveAt, PclTyped
  <2>4. UnitsAgree(s.lockup, s.amount_in_lockups, s.total_user_lockup)
    BY <1>0 DEF PclBooksOK
  <2>5. UnitsAgree(t.lockup, t.amount_in_lockups, t.total_user_lockup)
    BY <2>1, <2>2, <2>3, <2>4, UnitsAgreeMove
  <2>6. ASSUME NEW q \in PoolType PROVE t.amount_in_lockups[q] = BalanceIn(t, q)
    <3>1. s.amount_in_lockups[q] = BalanceIn(s, q)
      BY <1>0 DEF PclBooksOK
    <3>2. CASE q # p
      BY <1>0, <1>1, <3>1, <3>2 DEF Arrived, BalanceIn, PclTyped
    <3>3. CASE q = p
      <4>1. PICK h \in Nat : h = s.lp_held[p]
        BY <1>0 DEF PclTyped
      <4>2. s.amount_in_lockups[p] = h /\ s.deposit[a][p] = 0 /\ a \in IncentivesAddrs
        BY <1>0, <3>1, <3>3, <4>1 DEF BalanceIn, PclStakesOK, PclTyped
      <4>3. t.amount_in_lockups[p] = h + m /\ t.incentives = a
        BY <1>0, <1>1, <4>2 DEF Arrived, PclTyped
      <4>4. CASE stake
        <5>1. t.deposit = [s.deposit EXCEPT ![a][p] = @ + (h + m)]
          BY <1>1, <4>1, <4>4 DEF Arrived
        <5>2. t.deposit[a][p] = h + m
          BY <1>0, <4>2, <5>1 DEF PclTyped
        <5>3. t.is_staked[p]
          BY <1>0, <1>4, <4>4 DEF PclTyped
        <5> QED BY <3>3, <4>3, <5>2, <5>3 DEF BalanceIn
      <4>5. CASE ~stake
        <5>1. t.lp_held[p] = h + m /\ ~t.is_staked[p]
          BY <1>0, <1>1, <4>1, <4>5 DEF Arrived, PclTyped
        <5> QED BY <3>3, <4>3, <5>1 DEF BalanceIn
      <4> QED BY <4>4, <4>5
    <3> QED BY <3>2, <3>3
  <2> QED BY <2>5, <2>6 DEF PclBooksOK
<1>8. PclFractionsCovered(t)
  <2> DEFINE f == [k \in DOMAIN l |-> PclUndrawn(s, k)]
             g == [k \in DOMAIN l2 |-> PclUndrawn(t, k)]
  <2>0. t.rewards_per_share = s.rewards_per_share /\ t.reward_balance = s.reward_balance
    BY <1>1 DEF Arrived
  <2>1. s.rewards_per_share[p] = 0
    BY <1>0 DEF PclStakesOK
  <2>2. MulFloor(m, 0) = 0 /\ m * 0 = 0 /\ DECIMAL_FRACTIONAL * 0 = 0
    BY ScaleAssumption DEF MulFloor
  <2>3. LiveIn(l2) = LiveIn(l) \cup {key} /\ key \notin LiveIn(l) /\ LiveIn(l) \subseteq DOMAIN l
    BY <1>2, <1>3 DEF LiveIn
  <2>4. ASSUME NEW k \in LiveIn(l2)
        PROVE  l2[k].incentives_debt
                   <= MulFloor(l2[k].lp_units_locked, t.rewards_per_share[k[1]])
    <3>1. CASE k = key
      BY <1>3, <2>0, <2>1, <2>2, <3>1
    <3>2. CASE k # key
      BY <1>0, <1>2, <2>0, <2>3, <3>2 DEF PclFractionsCovered
    <3> QED BY <3>1, <3>2
  <2>5. /\ \A k \in LiveIn(l) : f[k] \in Int /\ g[k] = f[k]
        /\ \A k \in LiveIn(l2) : g[k] \in Int
        /\ g[key] = 0
    <3>1. \A k \in DOMAIN l : f[k] \in Int /\ g[k] = f[k]
      BY <1>0, <1>2, <2>0, PclLockupFields DEF PclUndrawn
    <3>2. \A k \in DOMAIN l2 : g[k] \in Int
      BY <1>2, PclLockupFields
    <3>3. g[key] = 0
      BY <1>2, <1>3, <2>0, <2>1, <2>2 DEF PclUndrawn
    <3> QED BY <2>3, <1>2, <3>1, <3>2, <3>3
  <2> HIDE DEF f, g
  <2>6. MovesAt(LiveIn(l), f, LiveIn(l2), g, key, 0)
    BY <2>3, <2>5 DEF MovesAt
  <2>7. IsFiniteSet(LiveIn(l)) /\ IsFiniteSet(LiveIn(l2))
    BY <1>0, <1>2, FS_Subset DEF PclTyped, LiveIn
  <2>8. SumOver(g, LiveIn(l2)) = SumOver(f, LiveIn(l)) + 0 /\ SumOver(f, LiveIn(l)) \in Int
    BY <2>5, <2>6, <2>7, SumMove, SumInt
  <2>9. SumOver(f, LiveIn(l)) <= DECIMAL_FRACTIONAL * s.reward_balance
    BY <1>0 DEF PclFractionsCovered, f
  <2>10. SumOver(g, LiveIn(l2)) <= DECIMAL_FRACTIONAL * t.reward_balance
    BY <2>0, <2>8, <2>9
  <2> QED BY <2>4, <2>10 DEF PclFractionsCovered, g
<1> QED BY <1>2, <1>3, <1>4, <1>5, <1>6, <1>7, <1>8 DEF PclOK
-----------------------------------------------------------------------------
(***************************************************************************)
(* A claim in the PCL contract, from s to t: the rate per share of the pool *)
(* rises by r, the contract receives rewards and pays drawn, and if the     *)
(* lockup is withdrawn its owner gets exactly its units. PclDrawn is what   *)
(* becomes of the record of the lockup.                                     *)
(***************************************************************************)
PclDrawn(rec, drawn, x) ==
    [rec EXCEPT !.incentives_debt = @ + drawn, !.astroport_lp_transferred = x]
PclClaimed(s, t, key, w, r, rewards, drawn) ==
    LET p == key[1]  u == key[2]  units == s.lockup[key].lp_units_locked IN
    /\ t.incentives = s.incentives /\ t.is_staked = s.is_staked /\ t.reserve = s.reserve
    /\ t.pending = [s.pending EXCEPT ![s.incentives][p] = IF s.is_staked[p] THEN 0 ELSE @]
    /\ t.reward_balance = s.reward_balance + rewards - drawn
    /\ t.rewards_per_share = [s.rewards_per_share EXCEPT ![p] = @ + r]
    /\ t.user = [s.user EXCEPT ![u].ntrn_transferred = TRUE]
    /\ t.lockup = [s.lockup EXCEPT ![key] = PclDrawn(@, drawn, IF w THEN units ELSE NONE)]
    /\ t.amount_in_lockups = [s.amount_in_lockups EXCEPT ![p] = IF w THEN @ - units ELSE @]
    /\ t.total_user_lockup = [s.total_user_lockup EXCEPT ![p][u] = IF w THEN @ - units ELSE @]
    /\ t.lp_held = [s.lp_held EXCEPT ![p] = IF w /\ ~s.is_staked[p] THEN @ - units ELSE @]
    /\ t.deposit = [s.deposit EXCEPT
           ![s.incentives][p] = IF w /\ s.is_staked[p] THEN @ - units ELSE @]

\* What the amounts of a claim are.
PclAmounts(s, key, w, r, rewards, drawn) ==
    LET p == key[1]  units == s.lockup[key].lp_units_locked IN
    /\ key \in LiveIn(s.lockup) /\ key[2] \in DOMAIN s.user
    /\ s.amount_in_lockups[p] # 0
    /\ ~s.is_staked[p] => r = 0 /\ rewards = 0 /\ drawn = 0
    /\ r * s.amount_in_lockups[p] <= DECIMAL_FRACTIONAL * rewards
    /\ s.lockup[key].incentives_debt + drawn
           <= MulFloor(units, s.rewards_per_share[p] + r)
    /\ drawn <= s.reward_balance + rewards
    /\ w => units <= s.amount_in_lockups[p] /\ units <= s.total_user_lockup[p][key[2]]

\* The rate and the payment of a claim: the LP tokens of the pool are its
\* amount in lockups, so a lockup's share of them is its units.
LEMMA PclClaimAmounts ==
    ASSUME PclOK(pcl), NEW u \in Users, NEW p \in PoolType, NEW d \in PclDurations,
           NEW w \in BOOLEAN, pcl_handle_claim_rewards_and_unlock_for_lockup(u, p, d, w)
    PROVE  \E r \in Nat, rewards \in Nat, drawn \in Nat :
               /\ PclAmounts(pcl, <<p, u, d>>, w, r, rewards, drawn)
               /\ PclPending(p) = rewards /\ PclPerShare(p) = pcl.rewards_per_share[p] + r
               /\ PclLpAmount(<<p, u, d>>) = pcl.lockup[<<p, u, d>>].lp_units_locked
               /\ drawn = IF pcl.is_staked[p]
                          THEN MulFloor(PclLpAmount(<<p, u, d>>), PclPerShare(p))
                                   - pcl.lockup[<<p, u, d>>].incentives_debt
                          ELSE 0
<1> DEFINE key == <<p, u, d>>
<1>0. /\ PclTyped(pcl) /\ PclStakesOK(pcl) /\ PclBooksOK(pcl) /\ PclFractionsCovered(pcl)
      /\ key \in DOMAIN pcl.lockup /\ key \in LiveIn(pcl.lockup) /\ u \in DOMAIN pcl.user
      /\ key[1] = p /\ key[2] = u
  BY DEF PclOK, LiveIn, pcl_handle_claim_rewards_and_unlock_for_lockup
<1>1. PICK A \in Nat \ {0}, units \in Nat, debt \in Nat, n \in Nat, b \in Nat :
          /\ A = pcl.amount_in_lockups[p] /\ units = pcl.lockup[key].lp_units_locked
          /\ debt = pcl.lockup[key].incentives_debt /\ n = pcl.rewards_per_share[p]
          /\ b = pcl.reward_balance
  <2>1. pcl.amount_in_lockups[p] # 0 /\ pcl.amount_in_lockups[p] \in Nat
        /\ pcl.reward_balance \in Nat
    BY <1>0 DEF PclTyped, pcl_handle_claim_rewards_and_unlock_for_lockup
  <2> QED BY <1>0, <2>1, PclLockupFields
<1>2. PclLpBalance(p) = A
  BY <1>0, <1>1 DEF PclBooksOK, PclLpBalance, BalanceIn
<1>3. PclLpAmount(key) = units
  <2>1. (units * A) \div A = units
    OBVIOUS
  <2> QED BY <1>0, <1>1, <1>2, <2>1 DEF PclLpAmount
<1>4. w => units <= A /\ units <= pcl.total_user_lockup[p][u]
  BY <1>1 DEF pcl_handle_claim_rewards_and_unlock_for_lockup
<1>5. CASE pcl.is_staked[p]
  <2>1. PICK rewards \in Nat : rewards = PclPending(p)
    BY <1>0, <1>5 DEF PclPending, PclTyped
  <2>2. PICK r \in Nat : PclPerShare(p) = n + r /\ r * A <= DECIMAL_FRACTIONAL * rewards
    <3>1. CASE rewards = 0
      <4>1. PclPerShare(p) = n + 0 /\ 0 * A <= DECIMAL_FRACTIONAL * rewards
        BY <1>1, <2>1, <3>1, ScaleAssumption DEF PclPerShare
      <4> QED BY <4>1
    <3>2. CASE rewards # 0
      <4>1. PICK m \in Nat : m = rewards * DECIMAL_FRACTIONAL
        BY ScaleAssumption
      <4>2. A * (m \div A) <= m /\ m \div A \in Nat
        BY QuotientBelow
      <4>3. PICK r \in Nat : r = m \div A
        BY <4>2
      <4>4. r * A <= DECIMAL_FRACTIONAL * rewards
        BY <4>1, <4>2, <4>3, ScaleAssumption
      <4>5. PclPerShare(p) = n + r
        BY <1>1, <1>2, <2>1, <3>2, <4>1, <4>3 DEF PclPerShare, FromRatio
      <4> QED BY <4>4, <4>5
    <3> QED BY <3>1, <3>2
  <2>3. PICK c \in Nat : c = MulFloor(units, n + r)
    <3>1. n + r \in Nat
      OBVIOUS
    <3> QED BY <3>1, MulFloorNat
  <2>4. c - debt >= 0 /\ c - debt <= b + rewards
    BY <1>1, <1>3, <1>5, <2>1, <2>2, <2>3
       DEF pcl_handle_claim_rewards_and_unlock_for_lockup
  <2>5. PICK drawn \in Nat : drawn = c - debt /\ debt + drawn = c /\ drawn <= b + rewards
    BY <2>4
  <2>6. PclAmounts(pcl, key, w, r, rewards, drawn)
    BY <1>0, <1>1, <1>4, <1>5, <2>2, <2>3, <2>5 DEF PclAmounts
  <2>7. drawn = MulFloor(PclLpAmount(key), PclPerShare(p)) - pcl.lockup[key].incentives_debt
    BY <1>1, <1>3, <2>2, <2>3, <2>5
  <2> QED BY <1>1, <1>3, <1>5, <2>1, <2>2, <2>6, <2>7
<1>6. CASE ~pcl.is_staked[p]
  <2>1. PclPending(p) = 0 /\ PclPerShare(p) = n + 0 /\ n = 0
    BY <1>0, <1>1, <1>6 DEF PclPending, PclPerShare, PclStakesOK
  <2>2. debt + 0 <= MulFloor(units, n + 0)
    BY <1>0, <1>1 DEF PclFractionsCovered
  <2>3. 0 * A <= DECIMAL_FRACTIONAL * 0 /\ 0 <= b + 0
    BY ScaleAssumption
  <2>4. PclAmounts(pcl, key, w, 0, 0, 0)
    BY <1>0, <1>1, <1>4, <1>6, <2>2, <2>3 DEF PclAmounts
  <2> QED BY <1>1, <1>3, <1>6, <2>1, <2>4
<1> QED BY <1>5, <1>6

\* What the handler with its callbacks makes of the contract's record.
LEMMA PclClaimIs ==
    ASSUME PclOK(pcl), NEW u \in Users, NEW p \in PoolType, NEW d \in PclDurations,
           NEW w \in BOOLEAN, pcl_handle_claim_rewards_and_unlock_for_lockup(u, p, d, w)
    PROVE  /\ PclRecord(pcl')
           /\ \E r \in Nat, rewards \in Nat, drawn \in Nat :
                  /\ PclAmounts(pcl, <<p, u, d>>, w, r, rewards, drawn)
                  /\ PclClaimed(pcl, pcl', <<p, u, d>>, w, r, rewards, drawn)
<1> DEFINE key == <<p, u, d>>
<1>1. PICK r \in Nat, rewards \in Nat, drawn \in Nat :
          /\ PclAmounts(pcl, key, w, r, rewards, drawn)
          /\ PclPending(p) = rewards /\ PclPerShare(p) = pcl.rewards_per_share[p] + r
          /\ PclLpAmount(key) = pcl.lockup[key].lp_units_locked
          /\ drawn = IF pcl.is_staked[p]
                     THEN MulFloor(PclLpAmount(key), PclPerShare(p))
                              - pcl.lockup[key].incentives_debt
                     ELSE 0
  BY PclClaimAmounts
<1>2. PICK s, t : s = pcl /\ t = pcl'
  OBVIOUS
<1>3. /\ PclTyped(s) /\ key \in DOMAIN s.lockup /\ key[1] = p /\ key[2] = u
      /\ u \in DOMAIN s.user /\ s.lockup[key].astroport_lp_transferred = NONE
      /\ s.incentives \in IncentivesAddrs
  BY <1>2 DEF PclOK, PclTyped, pcl_handle_claim_rewards_and_unlock_for_lockup
<1>4. PICK units \in Nat, debt \in Nat, n \in Nat, b \in Nat :
          /\ units = s.lockup[key].lp_units_locked /\ debt = s.lockup[key].incentives_debt
          /\ n = s.rewards_per_share[p] /\ b = s.reward_balance
  BY <1>3, PclLockupFields DEF PclTyped
<1>5. PICK c : c = [s EXCEPT
            !.rewards_per_share[p] = n + r,
            !.pending[s.incentives][p] = IF s.is_staked[p] THEN 0 ELSE @,
            !.reward_balance = @ + rewards - drawn,
            !.lockup[key].incentives_debt = @ + drawn,
            !.user[u].ntrn_transferred = TRUE]
  OBVIOUS
<1>6. IF w THEN t = PclReturned(c, key, units) ELSE t = c
  BY <1>1, <1>2, <1>4, <1>5 DEF pcl_handle_claim_rewards_and_unlock_for_lockup, Paid
<1>7. /\ PclRecord(c)
      /\ c.incentives = s.incentives /\ c.is_staked = s.is_staked /\ c.reserve = s.reserve
      /\ c.amount_in_lockups = s.amount_in_lockups
      /\ c.total_user_lockup = s.total_user_lockup
      /\ c.lp_held = s.lp_held /\ c.deposit = s.deposit
  BY <1>3, <1>5 DEF PclTyped, PclRecord
<1>8. /\ c.rewards_per_share = [s.rewards_per_share EXCEPT ![p] = @ + r]
      /\ c.pending = [s.pending EXCEPT ![s.incentives][p] = IF s.is_staked[p] THEN 0 ELSE @]
      /\ c.reward_balance = s.reward_balance + rewards - drawn
  BY <1>3, <1>4, <1>5 DEF PclTyped, PclRecord
<1>9. /\ c.user = [s.user EXCEPT ![u].ntrn_transferred = TRUE]
      /\ c.lockup = [s.lockup EXCEPT ![key].incentives_debt = @ + drawn]
  BY <1>3, <1>4, <1>5 DEF PclTyped, PclRecord
<1>10. PICK old \in PclLockups : old = s.lockup[key]
  BY <1>3, PclLockupFields
<1>11. c.lockup[key] = [old EXCEPT !.incentives_debt = debt + drawn]
       /\ DOMAIN c.lockup = DOMAIN s.lockup
  BY <1>3, <1>4, <1>9, <1>10 DEF PclTyped
<1>12. CASE ~w
  <2>1. t = c
    BY <1>6, <1>12
  <2>2. t.lockup = [s.lockup EXCEPT ![key] = PclDrawn(@, drawn, IF w THEN units ELSE NONE)]
    <3>1. PclDrawn(old, drawn, NONE) = [old EXCEPT !.incentives_debt = @ + drawn]
      BY <1>3, <1>10 DEF PclLockups, PclDrawn
    <3>2. t.lockup = [s.lockup EXCEPT ![key] = [old EXCEPT !.incentives_debt = @ + drawn]]
      BY <1>9, <1>10, <2>1
    <3> QED BY <1>10, <1>12, <3>1, <3>2
  <2>3. /\ t.amount_in_lockups = [s.amount_in_lockups EXCEPT ![p] = IF w THEN @ - units ELSE @]
        /\ t.total_user_lockup = [s.total_user_lockup EXCEPT ![p][u] = IF w THEN @ - units ELSE @]
        /\ t.lp_held = [s.lp_held EXCEPT ![p] = IF w /\ ~s.is_staked[p] THEN @ - units ELSE @]
        /\ t.deposit = [s.deposit EXCEPT
               ![s.incentives][p] = IF w /\ s.is_staked[p] THEN @ - units ELSE @]
    BY <1>3, <1>7, <1>12, <2>1 DEF PclTyped
  <2>4. PclClaimed(s, t, key, w, r, rewards, drawn)
    BY <1>3, <1>4, <1>7, <1>8, <1>9, <2>1, <2>2, <2>3 DEF PclClaimed
  <2> QED BY <1>1, <1>2, <1>7, <2>1, <2>4
<1>13. CASE w
  <2>1. PICK e : e = [c EXCEPT !.lockup[key].astroport_lp_transferred = units,
                               !.amount_in_lockups[p] = @ - units,
                               !.total_user_lockup[p][u] = @ - units]
    OBVIOUS
  <2>2. t = IF s.is_staked[p] THEN [e EXCEPT !.deposit[s.incentives][p] = @ - units]
            ELSE [e EXCEPT !.lp_held[p] = @ - units]
    <3>1. c.lockup[key].lp_units_locked = units
      BY <1>4, <1>10, <1>11 DEF PclLockups
    <3> QED BY <1>3, <1>6, <1>7, <1>13, <2>1, <3>1 DEF PclReturned
  <2>3. /\ PclRecord(e)
        /\ e.incentives = s.incentives /\ e.is_staked = s.is_staked /\ e.reserve = s.reserve
        /\ e.rewards_per_share = c.rewards_per_share /\ e.pending = c.pending
        /\ e.reward_balance = c.reward_balance /\ e.user = c.user
        /\ e.lp_held = s.lp_held /\ e.deposit = s.deposit
    BY <1>7, <2>1 DEF PclRecord
  <2>4. /\ e.lockup = [c.lockup EXCEPT ![key].astroport_lp_transferred = units]
        /\ e.amount_in_lockups = [s.amount_in_lockups EXCEPT ![p] = @ - units]
        /\ e.total_user_lockup = [s.total_user_lockup EXCEPT ![p][u] = @ - units]
    BY <1>7, <2>1 DEF PclRecord
  <2>5. e.lockup = [s.lockup EXCEPT ![key] = PclDrawn(@, drawn, IF w THEN units ELSE NONE)]
    <3>1. PICK f : f = s.lockup /\ f \in [DOMAIN f -> PclLockups] /\ key \in DOMAIN f
      BY <1>3 DEF PclTyped
    <3>2. e.lockup = [f EXCEPT ![key] = [[old EXCEPT !.incentives_debt = @ + drawn]
                                            EXCEPT !.astroport_lp_transferred = units]]
      BY <1>9, <1>10, <2>4, <3>1
    <3>3. [[old EXCEPT !.incentives_debt = @ + drawn] EXCEPT !.astroport_lp_transferred = units]
              = PclDrawn(old, drawn, units)
      BY <1>10 DEF PclLockups, PclDrawn
    <3> QED BY <1>10, <1>13, <3>1, <3>2, <3>3
  <2>6. CASE s.is_staked[p]
    <3>1. t = [e EXCEPT !.deposit[s.incentives][p] = @ - units]
      BY <2>2, <2>6
    <3>2. /\ PclRecord(t)
          /\ t.incentives = e.incentives /\ t.is_staked = e.is_staked /\ t.reserve = e.reserve
          /\ t.rewards_per_share = e.rewards_per_share /\ t.pending = e.pending
          /\ t.reward_balance = e.reward_balance /\ t.user = e.user
          /\ t.lp_held = e.lp_held /\ t.lockup = e.lockup
          /\ t.amount_in_lockups = e.amount_in_lockups
          /\ t.total_user_lockup = e.total_user_lockup
          /\ t.deposit = [e.deposit EXCEPT ![s.incentives][p] = @ - units]
      BY <2>3, <3>1 DEF PclRecord
    <3>3. /\ t.lp_held = [s.lp_held EXCEPT ![p] = IF w /\ ~s.is_staked[p] THEN @ - units ELSE @]
          /\ t.deposit = [s.deposit EXCEPT
                 ![s.incentives][p] = IF w /\ s.is_staked[p] THEN @ - units ELSE @]
      BY <1>3, <1>13, <2>3, <2>6, <3>2 DEF PclTyped
    <3>4. PclClaimed(s, t, key, w, r, rewards, drawn)
      BY <1>3, <1>4, <1>8, <1>9, <1>13, <2>3, <2>4, <2>5, <3>2, <3>3 DEF PclClaimed
    <3> QED BY <1>1, <1>2, <3>2, <3>4
  <2>7. CASE ~s.is_staked[p]
    <3>1. t = [e EXCEPT !.lp_held[p] = @ - units]
      BY <2>2, <2>7
    <3>2. /\ PclRecord(t)
          /\ t.incentives = e.incentives /\ t.is_staked = e.is_staked /\ t.reserve = e.reserve
          /\ t.rewards_per_share = e.rewards_per_share /\ t.pending = e.pending
          /\ t.reward_balance = e.reward_balance /\ t.user = e.user
          /\ t.deposit = e.deposit /\ t.lockup = e.lockup
          /\ t.amount_in_lockups = e.amount_in_lockups
          /\ t.total_user_lockup = e.total_user_lockup
          /\ t.lp_held = [e.lp_held EXCEPT ![p] = @ - units]
      BY <2>3, <3>1 DEF PclRecord
    <3>3. /\ t.lp_held = [s.lp_held EXCEPT ![p] = IF w /\ ~s.is_staked[p] THEN @ - units ELSE @]
          /\ t.deposit = [s.deposit EXCEPT
                 ![s.incentives][p] = IF w /\ s.is_staked[p] THEN @ - units ELSE @]
      <4>1. t.lp_held = [s.lp_held EXCEPT ![p] = @ - units]
        BY <2>3, <3>2
      <4>2. PICK f, i : f = s.deposit /\ i = s.incentives /\ t.deposit = f
        BY <2>3, <3>2
      <4>3. f \in [IncentivesAddrs -> [PoolType -> Nat]]
        BY <1>3, <4>2 DEF PclTyped
      <4>4. f = [f EXCEPT ![i][p] = @]
        BY ONLY <4>3
      <4> QED BY <1>13, <2>7, <4>1, <4>2, <4>4
    <3>4. PclClaimed(s, t, key, w, r, rewards, drawn)
      BY <1>3, <1>4, <1>8, <1>9, <1>13, <2>3, <2>4, <2>5, <3>2, <3>3 DEF PclClaimed
    <3> QED BY <1>1, <1>2, <3>2, <3>4
  <2> QED BY <2>6, <2>7
<1> QED BY <1>12, <1>13

\* The records and the types after a claim.
LEMMA PclClaimTyped ==
    ASSUME NEW s, PclTyped(s), NEW t, PclRecord(t), NEW key, NEW w \in BOOLEAN,
           NEW r \in Nat, NEW rewards \in Nat, NEW drawn \in Nat,
           PclAmounts(s, key, w, r, rewards, drawn),
           PclClaimed(s, t, key, w, r, rewards, drawn), s.amount_in_lockups[key[1]] = BalanceIn(s, key[1])
    PROVE  /\ PclTyped(t) /\ DOMAIN t.lockup = DOMAIN s.lockup /\ DOMAIN t.user = DOMAIN s.user
           /\ \A k \in DOMAIN s.lockup :
                  /\ k # key => t.lockup[k] = s.lockup[k]
                  /\ t.lockup[k].lp_units_locked = s.lockup[k].lp_units_locked
                  /\ t.lockup[k].unlock_timestamp = s.lockup[k].unlock_timestamp
           /\ t.lockup[key].incentives_debt = s.lockup[key].incentives_debt + drawn
           /\ t.lockup[key].astroport_lp_transferred =
                  IF w THEN s.lockup[key].lp_units_locked ELSE NONE
<1> DEFINE p == key[1]
           u == key[2]
           a == s.incentives
<1>0. key \in DOMAIN s.lockup /\ u \in DOMAIN s.user /\ a \in IncentivesAddrs
  BY DEF PclAmounts, LiveIn, PclTyped
<1>1. /\ s.lockup[key] \in PclLockups /\ key \in Keys /\ p \in PoolType /\ u \in Users
  BY <1>0, PclLockupFields
<1>2. PICK units \in Nat, n \in Nat, b \in Nat, A \in Nat, U \in Nat, x \in Nat \cup {NONE} :
          /\ units = s.lockup[key].lp_units_locked /\ n = s.rewards_per_share[p]
          /\ b = s.reward_balance /\ A = s.amount_in_lockups[p]
          /\ U = s.total_user_lockup[p][u] /\ x = IF w THEN units ELSE NONE
  <2>1. /\ s.lockup[key].lp_units_locked \in Nat /\ s.rewards_per_share[p] \in Nat
        /\ s.reward_balance \in Nat /\ s.amount_in_lockups[p] \in Nat
        /\ s.total_user_lockup[p][u] \in Nat
    BY <1>0, <1>1, PclLockupFields DEF PclTyped
  <2>2. (IF w THEN s.lockup[key].lp_units_locked ELSE NONE) \in Nat \cup {NONE}
    BY <2>1
  <2> QED BY <2>1, <2>2
<1>3. PICK rec : rec = PclDrawn(s.lockup[key], drawn, x)
  OBVIOUS
<1>4. /\ rec \in PclLockups /\ rec.lp_units_locked = units
      /\ rec.unlock_timestamp = s.lockup[key].unlock_timestamp
      /\ rec.incentives_debt = s.lockup[key].incentives_debt + drawn
      /\ rec.astroport_lp_transferred = x
  <2>1. PICK old \in PclLockups, debt \in Nat : old = s.lockup[key] /\ debt = old.incentives_debt
    BY <1>1 DEF PclLockups
  <2>2. rec = [old EXCEPT !.incentives_debt = debt + drawn, !.astroport_lp_transferred = x]
    BY <1>3, <2>1 DEF PclDrawn
  <2>3. debt + drawn \in Nat
    OBVIOUS
  <2>4. /\ rec \in PclLockups /\ rec.lp_units_locked = old.lp_units_locked
        /\ rec.unlock_timestamp = old.unlock_timestamp
        /\ rec.incentives_debt = debt + drawn /\ rec.astroport_lp_transferred = x
    BY <2>2, <2>3 DEF PclLockups
  <2> QED BY <1>2, <2>1, <2>4
<1>5. t.lockup = [s.lockup EXCEPT ![key] = rec]
  BY <1>2, <1>3 DEF PclClaimed
<1>6. /\ t.lockup \in [DOMAIN s.lockup -> PclLockups] /\ DOMAIN t.lockup = DOMAIN s.lockup
      /\ t.lockup[key] = rec /\ \A k \in DOMAIN s.lockup : k # key => t.lockup[k] = s.lockup[k]
  BY <1>0, <1>4, <1>5 DEF PclTyped
<1>7. t.user \in [DOMAIN s.user -> PclUserInfos] /\ DOMAIN t.user = DOMAIN s.user
  <2>1. t.user = [s.user EXCEPT ![u].ntrn_transferred = TRUE]
    BY DEF PclClaimed
  <2>2. PICK f, info : f = s.user /\ info = [f[u] EXCEPT !.ntrn_transferred = TRUE]
    OBVIOUS
  <2>3. f \in [DOMAIN f -> PclUserInfos] /\ u \in DOMAIN f /\ info \in PclUserInfos
    <3>1. f \in [DOMAIN f -> PclUserInfos] /\ u \in DOMAIN f
      BY <1>0, <2>2 DEF PclTyped
    <3>2. f[u] \in PclUserInfos
      BY <3>1
    <3>3. info \in PclUserInfos
      BY ONLY <2>2, <3>2 DEF PclUserInfos
    <3> QED BY <3>1, <3>3
  <2>4. t.user = [f EXCEPT ![u] = info]
    BY <2>1, <2>2
  <2> QED BY <2>2, <2>3, <2>4
<1>8. w => units <= A /\ units <= U
  BY <1>2 DEF PclAmounts
<1>9. /\ t.amount_in_lockups \in [PoolType -> Nat]
      /\ t.total_user_lockup \in [PoolType -> [Users -> Nat]]
  <2>1. /\ t.amount_in_lockups = [s.amount_in_lockups EXCEPT ![p] = IF w THEN A - units ELSE A]
        /\ t.total_user_lockup = [s.total_user_lockup EXCEPT ![p][u] = IF w THEN U - units ELSE U]
    BY <1>2 DEF PclClaimed
  <2>2. PICK A2 \in Nat, U2 \in Nat :
            A2 = (IF w THEN A - units ELSE A) /\ U2 = (IF w THEN U - units ELSE U)
    <3>1. CASE w
      <4>1. PICK A2 \in Nat, U2 \in Nat : A2 = A - units /\ U2 = U - units
        BY ONLY <1>8, <3>1, A \in Nat, U \in Nat, units \in Nat
      <4> QED BY ONLY <3>1, <4>1
    <3>2. CASE ~w
      BY ONLY <3>2, A \in Nat, U \in Nat
    <3> QED BY <3>1, <3>2
  <2> QED BY <1>1, <2>1, <2>2 DEF PclTyped
<1>10. t.lp_held \in [PoolType -> Nat] /\ t.deposit \in [IncentivesAddrs -> [PoolType -> Nat]]
  <2>1. PICK h \in Nat, g \in Nat : h = s.lp_held[p] /\ g = s.deposit[a][p]
    BY <1>0, <1>1 DEF PclTyped
  <2>2. /\ w /\ ~s.is_staked[p] => h = A
        /\ w /\ s.is_staked[p] => g = A
    BY <1>2, <2>1 DEF BalanceIn
  <2>3. PICK h2 \in Nat, g2 \in Nat :
            /\ h2 = (IF w /\ ~s.is_staked[p] THEN h - units ELSE h)
            /\ g2 = (IF w /\ s.is_staked[p] THEN g - units ELSE g)
    <3>1. (IF w /\ ~s.is_staked[p] THEN h - units ELSE h) \in Nat
      BY <1>8, <2>2
    <3>2. (IF w /\ s.is_staked[p] THEN g - units ELSE g) \in Nat
      BY <1>8, <2>2
    <3> QED BY <3>1, <3>2
  <2>4. t.lp_held = [s.lp_held EXCEPT ![p] = h2] /\ t.deposit = [s.deposit EXCEPT ![a][p] = g2]
    BY <1>2, <2>1, <2>3 DEF PclClaimed
  <2> QED BY <1>0, <1>1, <2>4 DEF PclTyped
<1>11. /\ t.pending \in [IncentivesAddrs -> [PoolType -> Nat]]
       /\ t.rewards_per_share \in [PoolType -> Nat]
  BY <1>0, <1>1 DEF PclClaimed, PclTyped
<1>12. t.reward_balance \in Nat
  BY <1>2 DEF PclClaimed, PclAmounts
<1>13. t.incentives = a /\ t.is_staked = s.is_staked /\ t.reserve = s.reserve
  BY DEF PclClaimed
<1>14. PclTyped(t)
  BY <1>6, <1>7, <1>9, <1>10, <1>11, <1>12, <1>13 DEF PclTyped
<1> QED BY <1>2, <1>4, <1>6, <1>7, <1>14

\* A claim after which the lockups in left have left.
PclClaim(s, t, key, left) ==
    \E w \in BOOLEAN, r \in Nat, rewards \in Nat, drawn \in Nat :
        /\ PclAmounts(s, key, w, r, rewards, drawn)
        /\ PclClaimed(s, t, key, w, r, rewards, drawn)
        /\ left = IF w THEN {key} ELSE {}

\* A lockup leaves when it is withdrawn.
LEMMA PclClaimLive ==
    ASSUME NEW s, PclOK(s), NEW t, PclRecord(t), NEW key, NEW left, PclClaim(s, t, key, left)
    PROVE  LiveIn(t.lockup) = LiveIn(s.lockup) \ left
<1>a. PICK w \in BOOLEAN, r \in Nat, rewards \in Nat, drawn \in Nat :
          /\ PclAmounts(s, key, w, r, rewards, drawn)
          /\ PclClaimed(s, t, key, w, r, rewards, drawn)
          /\ left = IF w THEN {key} ELSE {}
  BY DEF PclClaim
<1> DEFINE l == s.lockup
           l2 == t.lockup
<1>0. PclTyped(s) /\ PclBooksOK(s) /\ key \in DOMAIN l /\ key \in LiveIn(l)
  BY <1>a DEF PclOK, PclAmounts, LiveIn
<1>1. key[1] \in PoolType /\ l[key].astroport_lp_transferred = NONE
  BY <1>0, PclLockupFields DEF LiveIn
<1>2. /\ DOMAIN l2 = DOMAIN l
      /\ \A k \in DOMAIN l : k # key => l2[k] = l[k]
      /\ l2[key].astroport_lp_transferred = IF w THEN l[key].lp_units_locked ELSE NONE
  <2>2. PclClaimed(s, t, key, w, r, rewards, drawn)
    BY <1>a
  <2>4. PICK x, rec : /\ x = IF w THEN l[key].lp_units_locked ELSE NONE
                      /\ rec = PclDrawn(l[key], drawn, x)
    OBVIOUS
  <2>5. l2 = [l EXCEPT ![key] = rec]
    BY <2>2, <2>4 DEF PclClaimed
  <2>6. rec.astroport_lp_transferred = x
    BY <1>0, <2>4, PclLockupFields DEF PclDrawn, PclLockups
  <2>7. l \in [DOMAIN l -> PclLockups]
    BY <1>0 DEF PclTyped
  <2> HIDE DEF l, l2
  <2> QED BY <1>0, <2>4, <2>5, <2>6, <2>7
<1>3. PICK units \in Nat : units = l[key].lp_units_locked /\ units # NONE
  BY <1>0, PclLockupFields, NoneAssumption
<1> QED BY <1>a, <1>0, <1>1, <1>2, <1>3 DEF LiveIn

\* A claim keeps the totals those of the lockups and of the LP tokens.
LEMMA PclClaimBooks ==
    ASSUME NEW s, PclOK(s), NEW t, PclRecord(t), NEW key, NEW w \in BOOLEAN,
           NEW r \in Nat, NEW rewards \in Nat, NEW drawn \in Nat,
           PclAmounts(s, key, w, r, rewards, drawn), PclClaimed(s, t, key, w, r, rewards, drawn)
    PROVE  PclTyped(t) /\ PclStakesOK(t) /\ PclBooksOK(t)
<1> DEFINE p == key[1]
           u == key[2]
           a == s.incentives
           l == s.lockup
           l2 == t.lockup
<1>0. /\ PclTyped(s) /\ PclStakesOK(s) /\ PclBooksOK(s) /\ key \in DOMAIN l
      /\ key \in LiveIn(l) /\ a \in IncentivesAddrs
  BY DEF PclOK, PclAmounts, LiveIn, PclTyped
<1>1. /\ p \in PoolType /\ u \in Users
      /\ l[key].astroport_lp_transferred = NONE
  BY <1>0, PclLockupFields DEF LiveIn
<1>2. /\ PclTyped(t) /\ DOMAIN l2 = DOMAIN l
      /\ \A k \in DOMAIN l : /\ k # key => l2[k] = l[k]
                             /\ l2[k].lp_units_locked = l[k].lp_units_locked
      /\ l2[key].astroport_lp_transferred = IF w THEN l[key].lp_units_locked ELSE NONE
  BY <1>0, <1>1, PclClaimTyped DEF PclBooksOK
<1>3. PICK units \in Nat : units = l[key].lp_units_locked /\ units # NONE
  BY <1>0, PclLockupFields, NoneAssumption
<1>4. LiveIn(l2) = IF w THEN LiveIn(l) \ {key} ELSE LiveIn(l)
  BY <1>0, <1>1, <1>2, <1>3 DEF LiveIn
<1>5. PICK A \in Nat, U \in Nat, d \in Int :
          /\ A = s.amount_in_lockups[p] /\ U = s.total_user_lockup[p][u]
          /\ d = IF w THEN -units ELSE 0
  BY <1>0, <1>1 DEF PclTyped
<1>6. /\ t.amount_in_lockups = [s.amount_in_lockups EXCEPT ![p] = A + d]
      /\ t.total_user_lockup = [s.total_user_lockup EXCEPT ![p][u] = U + d]
  <2>1. (IF w THEN A - units ELSE A) = A + d /\ (IF w THEN U - units ELSE U) = U + d
    BY <1>5
  <2> QED BY <1>3, <1>5, <2>1 DEF PclClaimed
<1>7. UnitsAgree(l2, t.amount_in_lockups, t.total_user_lockup)
  <2>1. Counted(l) /\ Counted(l2)
    BY <1>0, <1>2, PclLockupFields DEF Counted, PclTyped
  <2>2. UnitsMoveAt(l, l2, key, d)
    <3>1. (IF key \in LiveIn(l2) THEN l2[key].lp_units_locked ELSE 0)
              = (IF key \in LiveIn(l) THEN l[key].lp_units_locked ELSE 0) + d
      BY <1>0, <1>2, <1>3, <1>4, <1>5
    <3> QED BY <1>2, <1>5, <3>1 DEF UnitsMoveAt
  <2>3. TotalsMoveAt(s.amount_in_lockups, t.amount_in_lockups,
                     s.total_user_lockup, t.total_user_lockup, key, d)
    BY <1>0, <1>1, <1>5, <1>6 DEF TotalsMoveAt, PclTyped
  <2>4. UnitsAgree(l, s.amount_in_lockups, s.total_user_lockup)
    BY <1>0 DEF PclBooksOK
  <2> QED BY <2>1, <2>2, <2>3, <2>4, UnitsAgreeMove
<1>8. /\ t.incentives = a /\ t.is_staked = s.is_staked
      /\ t.lp_held = [s.lp_held EXCEPT ![p] = IF w /\ ~s.is_staked[p] THEN @ - units ELSE @]
      /\ t.deposit = [s.deposit EXCEPT
             ![a][p] = IF w /\ s.is_staked[p] THEN @ - units ELSE @]
      /\ t.rewards_per_share = [s.rewards_per_share EXCEPT ![p] = @ + r]
  BY <1>3 DEF PclClaimed
<1>9. ASSUME NEW q \in PoolType PROVE t.amount_in_lockups[q] = BalanceIn(t, q)
  <2>1. s.amount_in_lockups[q] = BalanceIn(s, q)
    BY <1>0 DEF PclBooksOK
  <2>2. CASE q # p
    <3>1. t.amount_in_lockups[q] = s.amount_in_lockups[q] /\ t.lp_held[q] = s.lp_held[q]
          /\ t.deposit[a][q] = s.deposit[a][q]
      BY <1>0, <1>1, <1>6, <1>8, <2>2 DEF PclTyped
    <3> QED BY <1>8, <2>1, <3>1 DEF BalanceIn
  <2>3. CASE q = p
    <3>1. t.amount_in_lockups[p] = A + d
      BY <1>0, <1>1, <1>6 DEF PclTyped
    <3>2. CASE s.is_staked[p]
      <4>1. s.deposit[a][p] = A
        BY <1>5, <2>1, <2>3, <3>2 DEF BalanceIn
      <4>2. t.deposit[a][p] = IF w THEN A - units ELSE A
        BY <1>0, <1>1, <1>8, <3>2, <4>1 DEF PclTyped
      <4> QED BY <1>5, <1>8, <2>3, <3>1, <3>2, <4>2 DEF BalanceIn
    <3>3. CASE ~s.is_staked[p]
      <4>1. s.lp_held[p] = A
        BY <1>5, <2>1, <2>3, <3>3 DEF BalanceIn
      <4>2. t.lp_held[p] = IF w THEN A - units ELSE A
        BY <1>0, <1>1, <1>8, <3>3, <4>1 DEF PclTyped
      <4> QED BY <1>5, <1>8, <2>3, <3>1, <3>3, <4>2 DEF BalanceIn
    <3> QED BY <3>2, <3>3
  <2> QED BY <2>2, <2>3
<1>10. PclStakesOK(t)
  <2>1. ASSUME NEW q \in PoolType, NEW b \in IncentivesAddrs, b # a \/ ~s.is_staked[q]
        PROVE  t.deposit[b][q] = 0
    <3>1. s.deposit[b][q] = 0
      BY <1>0, <2>1 DEF PclStakesOK
    <3>2. t.deposit[b][q] = s.deposit[b][q]
      <4>1. CASE b = a /\ q = p
        BY <1>0, <1>1, <1>8, <2>1, <4>1 DEF PclTyped
      <4>2. CASE ~(b = a /\ q = p)
        BY <1>0, <1>1, <1>8, <4>2 DEF PclTyped
      <4> QED BY <4>1, <4>2
    <3> QED BY <3>1, <3>2
  <2>2. ASSUME NEW q \in PoolType, ~s.is_staked[q] PROVE t.rewards_per_share[q] = 0
    <3>1. s.rewards_per_share[q] = 0
      BY <1>0, <2>2 DEF PclStakesOK
    <3>2. CASE q = p
      <4>1. r = 0
        BY <2>2, <3>2 DEF PclAmounts
      <4> QED BY <1>0, <1>1, <1>8, <3>1, <3>2, <4>1 DEF PclTyped
    <3>3. CASE q # p
      BY <1>0, <1>1, <1>8, <3>1, <3>3 DEF PclTyped
    <3> QED BY <3>2, <3>3
  <2> QED BY <1>8, <2>1, <2>2 DEF PclStakesOK
<1> QED BY <1>2, <1>4, <1>7, <1>9, <1>10 DEF PclBooksOK

\* A claim keeps what the lockups may draw covered.
LEMMA PclClaimFractions ==
    ASSUME NEW s, PclOK(s), NEW t, PclRecord(t), NEW key, NEW w \in BOOLEAN,
           NEW r \in Nat, NEW rewards \in Nat, NEW drawn \in Nat,
           PclAmounts(s, key, w, r, rewards, drawn), PclClaimed(s, t, key, w, r, rewards, drawn)
    PROVE  PclFractionsCovered(t)
<1>a. LiveIn(t.lockup) = LiveIn(s.lockup) \/ LiveIn(t.lockup) = LiveIn(s.lockup) \ {key}
  <2>1. PICK left : left = IF w THEN {key} ELSE {}
    OBVIOUS
  <2>2. PclClaim(s, t, key, left)
    BY <2>1 DEF PclClaim
  <2>3. LiveIn(t.lockup) = LiveIn(s.lockup) \ left
    BY <2>2, PclClaimLive
  <2> QED BY <2>1, <2>3
<1> DEFINE p == key[1]
           D == DOMAIN s.lockup
           L == LiveIn(s.lockup)
           L2 == LiveIn(t.lockup)
           P == {k \in L : k[1] = p}
           f == [k \in D |-> PclUndrawn(s, k)]
           f2 == [k \in D |-> PclUndrawn(t, k)]
           units == [k \in D |-> s.lockup[k].lp_units_locked]
           debt == [k \in D |-> s.lockup[k].incentives_debt]
           F == DECIMAL_FRACTIONAL
<1>0. /\ PclTyped(s) /\ PclBooksOK(s) /\ PclFractionsCovered(s) /\ key \in D /\ key \in L
      /\ s.amount_in_lockups[p] = BalanceIn(s, p) /\ p \in PoolType
  <2>1. PclTyped(s) /\ PclBooksOK(s) /\ PclFractionsCovered(s) /\ key \in L /\ key \in D
    BY DEF PclOK, PclAmounts, LiveIn
  <2>2. p \in PoolType
    BY <2>1, PclLockupFields
  <2> QED BY <2>1, <2>2 DEF PclBooksOK
<1>1. /\ PclTyped(t) /\ DOMAIN t.lockup = D
      /\ \A k \in D : /\ k # key => t.lockup[k] = s.lockup[k]
                      /\ t.lockup[k].lp_units_locked = s.lockup[k].lp_units_locked
      /\ t.lockup[key].incentives_debt = s.lockup[key].incentives_debt + drawn
  BY <1>0, PclClaimTyped
<1>2. L2 = L \/ L2 = L \ {key}
  BY <1>a
<1>3. /\ \A k \in D : /\ units[k] \in Nat /\ debt[k] \in Nat /\ k[1] \in PoolType
                      /\ t.lockup[k].lp_units_locked = units[k]
      /\ \A k \in D \ {key} : t.lockup[k].incentives_debt = debt[k]
      /\ t.lockup[key].incentives_debt = debt[key] + drawn
  <2>1. \A k \in D : /\ s.lockup[k].lp_units_locked \in Nat /\ s.lockup[k].incentives_debt \in Nat
                     /\ k[1] \in PoolType
    BY <1>0, PclLockupFields
  <2> QED BY <1>0, <1>1, <2>1
<1>4. PICK n \in Nat, A \in Nat : n = s.rewards_per_share[p] /\ A = s.amount_in_lockups[p]
  BY <1>0 DEF PclTyped
<1>5. /\ t.rewards_per_share[p] = n + r
      /\ \A q \in PoolType \ {p} : t.rewards_per_share[q] = s.rewards_per_share[q]
      /\ \A q \in PoolType : s.rewards_per_share[q] \in Nat
  <2>1. t.rewards_per_share = [s.rewards_per_share EXCEPT ![p] = n + r]
    BY <1>4 DEF PclClaimed
  <2> QED BY <1>0, <2>1 DEF PclTyped
<1>6. debt[key] + drawn <= MulFloor(units[key], n + r) /\ r * A <= F * rewards
  BY <1>0, <1>4 DEF PclAmounts
<1>7. L \subseteq D /\ P \subseteq L /\ key \in P /\ IsFiniteSet(L)
  BY <1>0, FS_Subset DEF LiveIn, PclTyped
<1>8. ASSUME NEW k \in D
      PROVE  /\ f[k] = (units[k] * s.rewards_per_share[k[1]]) - (F * debt[k])
             /\ f2[k] = (units[k] * t.rewards_per_share[k[1]]) - (F * t.lockup[k].incentives_debt)
  BY <1>3 DEF PclUndrawn
<1>9. A = SumOver(units, P)
  BY <1>0, <1>4 DEF PclBooksOK, UnitsAgree, UnitsIn
<1>10. SumOver(f, L) <= F * s.reward_balance
  BY <1>0 DEF PclFractionsCovered
<1>11. \A k \in L : k[1] = p => k \in P
  OBVIOUS
<1>12. \A k \in P : k[1] = p
  OBVIOUS
<1>13. \A k \in L : debt[k] <= MulFloor(units[k], s.rewards_per_share[k[1]])
  BY <1>0, <1>7 DEF PclFractionsCovered
<1> HIDE DEF f, f2, units, debt, D, P, L, L2
<1>14. ASSUME NEW k \in D
       PROVE  /\ f[k] \in Int /\ f2[k] \in Int
              /\ k[1] # p => f2[k] = f[k]
              /\ k[1] = p /\ k # key => f2[k] = f[k] + (r * units[k])
  <2>1. PICK x \in Nat, y \in Nat, m \in Nat, y2 \in Nat, m2 \in Nat :
            /\ x = units[k] /\ y = debt[k] /\ m = s.rewards_per_share[k[1]]
            /\ m2 = t.rewards_per_share[k[1]] /\ y2 = t.lockup[k].incentives_debt
    <3>1. /\ s.rewards_per_share[k[1]] \in Nat /\ t.rewards_per_share[k[1]] \in Nat
      BY <1>3, <1>5
    <3>2. t.lockup[k].incentives_debt \in Nat
      BY <1>3
    <3> QED BY <1>3, <3>1, <3>2
  <2>2. f[k] = (x * m) - (F * y) /\ f2[k] = (x * m2) - (F * y2)
    BY <1>8, <2>1
  <2>3. x * m \in Nat /\ F * y \in Nat /\ x * m2 \in Nat /\ F * y2 \in Nat /\ r * x \in Nat
    BY ScaleAssumption
  <2>4. f[k] \in Int /\ f2[k] \in Int
    BY <2>2, <2>3
  <2>5. CASE k[1] # p
    <3>1. m2 = m /\ y2 = y
      BY <1>0, <1>3, <1>5, <2>1, <2>5
    <3> QED BY <2>2, <2>4, <2>5, <3>1
  <2>6. CASE k[1] = p /\ k # key
    <3>1. m2 = m + r /\ y2 = y
      BY <1>3, <1>4, <1>5, <2>1, <2>6
    <3>2. x * (m + r) = (x * m) + (r * x)
      OBVIOUS
    <3>3. f2[k] = f[k] + (r * x)
      BY <2>2, <2>3, <3>1, <3>2
    <3> QED BY <2>1, <2>4, <2>6, <3>3
  <2>7. CASE k = key
    BY <1>0, <2>4, <2>7
  <2> QED BY <2>5, <2>6, <2>7
<1>15. /\ f2[key] = f[key] + (r * units[key]) - (F * drawn)
       /\ f2[key] >= 0
  <2>1. PICK x \in Nat, y \in Nat, c \in Nat, m \in Nat :
            /\ x = units[key] /\ y = debt[key] /\ m = n + r /\ c = MulFloor(x, m)
    <3>1. PICK x \in Nat, y \in Nat, m \in Nat :
              x = units[key] /\ y = debt[key] /\ m = n + r
      BY <1>0, <1>3
    <3>2. MulFloor(x, m) \in Nat
      BY MulFloorNat
    <3> QED BY <3>1, <3>2
  <2>2. /\ f[key] = (x * n) - (F * y)
        /\ f2[key] = (x * m) - (F * (y + drawn))
    BY <1>0, <1>3, <1>4, <1>5, <1>8, <2>1
  <2>3. x * m = (x * n) + (r * x)
    BY <2>1
  <2>4. F * (y + drawn) = (F * y) + (F * drawn)
    BY ScaleAssumption
  <2>5. PICK xn \in Nat, rx \in Nat, fy \in Nat, fp \in Nat :
            xn = x * n /\ rx = r * x /\ fy = F * y /\ fp = F * drawn
    BY ScaleAssumption
  <2>6. f[key] = xn - fy /\ f2[key] = (xn + rx) - (fy + fp)
    BY <2>2, <2>3, <2>4, <2>5
  <2>7. F * (y + drawn) <= F * c /\ F * c \in Nat
    <3>1. PICK z \in Nat, ff \in Nat : z = y + drawn /\ ff = F
      BY ScaleAssumption
    <3>2. z <= c
      BY <1>6, <2>1, <3>1
    <3>3. ff * z <= ff * c /\ ff * c \in Nat
      BY <3>2, Grows
    <3> QED BY <3>1, <3>3
  <2>8. F * c <= x * m
    BY <2>1, MulFloorBelow
  <2>9. fy + fp <= xn + rx
    BY <2>3, <2>4, <2>5, <2>7, <2>8
  <2>10. f2[key] = f[key] + rx - fp /\ f2[key] >= 0
    BY <2>6, <2>9
  <2> QED BY <2>1, <2>5, <2>10
<1>16. Draws(L, P, L2, f, f2, units, A, r, rewards, drawn, key)
  <2>1. L2 = L \/ L2 = L \ {key}
    BY <1>2
  <2>2. \A k \in L : f[k] \in Int /\ f2[k] \in Int /\ units[k] \in Nat
    BY <1>3, <1>7, <1>14
  <2>3. \A k \in L \ P : f2[k] = f[k]
    BY <1>7, <1>11, <1>14
  <2>4. \A k \in P \ {key} : f2[k] = f[k] + (r * units[k])
    BY <1>7, <1>12, <1>14
  <2> QED BY <1>6, <1>7, <1>9, <1>15, <2>1, <2>2, <2>3, <2>4 DEF Draws
<1>17. SumOver(f2, L2) <= SumOver(f, L) + (F * rewards) - (F * drawn)
  BY <1>16, DrawsCovered
<1>18. SumOver(f2, L2) <= F * t.reward_balance
  <2>1. PICK b \in Nat, b2 \in Nat : b = s.reward_balance /\ b2 = t.reward_balance
    BY <1>0, <1>1 DEF PclTyped
  <2>2. b2 = b + rewards - drawn
    BY <2>1 DEF PclClaimed
  <2>3. F * b2 = (F * b) + (F * rewards) - (F * drawn)
    BY <2>2, ScaleAssumption
  <2>4. PICK sf \in Int, sf2 \in Int : sf = SumOver(f, L) /\ sf2 = SumOver(f2, L2)
    <3>1. \A k \in L : f[k] \in Int
      BY <1>7, <1>14
    <3>2. IsFiniteSet(L2) /\ \A k \in L2 : f2[k] \in Int
      BY <1>2, <1>7, <1>14, FS_RemoveElement
    <3> QED BY <1>7, <3>1, <3>2, SumInt
  <2>5. PICK fb \in Nat, fr \in Nat, fd \in Nat :
            fb = F * b /\ fr = F * rewards /\ fd = F * drawn
    BY ScaleAssumption
  <2>6. sf <= fb
    BY <1>10, <2>1, <2>4, <2>5
  <2>7. sf2 <= sf + fr - fd
    BY <1>17, <2>4, <2>5
  <2>8. sf2 <= F * b2
    BY <2>3, <2>5, <2>6, <2>7
  <2> QED BY <2>1, <2>4, <2>8
<1>19. ASSUME NEW k \in L2
       PROVE  t.lockup[k].incentives_debt
                  <= MulFloor(t.lockup[k].lp_units_locked, t.rewards_per_share[k[1]])
  <2>0. k \in L /\ k \in D
    BY <1>2, <1>7
  <2>1. CASE k = key
    BY <1>0, <1>3, <1>5, <1>6, <2>1
  <2>2. CASE k # key
    <3>1. PICK m \in Nat, m2 \in Nat, x \in Nat, y \in Nat :
              /\ m = s.rewards_per_share[k[1]] /\ m2 = t.rewards_per_share[k[1]]
              /\ x = units[k] /\ y = debt[k]
      <4>1. s.rewards_per_share[k[1]] \in Nat /\ t.rewards_per_share[k[1]] \in Nat
        BY <1>3, <1>5, <2>0
      <4> QED BY <1>3, <2>0, <4>1
    <3>2. m <= m2
      BY <1>3, <1>4, <1>5, <2>0, <3>1
    <3>3. y <= MulFloor(x, m)
      BY <1>13, <2>0, <3>1
    <3>4. MulFloor(x, m) <= MulFloor(x, m2) /\ MulFloor(x, m) \in Nat /\ MulFloor(x, m2) \in Nat
      BY <3>2, MulFloorGrows, MulFloorNat
    <3>5. y <= MulFloor(x, m2)
      BY <3>3, <3>4
    <3> QED BY <1>3, <2>0, <2>2, <3>1, <3>5
  <2> QED BY <2>1, <2>2
<1>20. f2 = [k \in DOMAIN t.lockup |-> PclUndrawn(t, k)]
  BY <1>1 DEF f2
<1> QED BY <1>18, <1>19, <1>20 DEF PclFractionsCovered, L2

\* All of it together.
LEMMA PclClaimedOK ==
    ASSUME NEW s, PclOK(s), NEW t, PclRecord(t), NEW key, NEW w \in BOOLEAN,
           NEW r \in Nat, NEW rewards \in Nat, NEW drawn \in Nat,
           PclAmounts(s, key, w, r, rewards, drawn), PclClaimed(s, t, key, w, r, rewards, drawn)
    PROVE  PclOK(t) /\ DOMAIN t.lockup = DOMAIN s.lockup /\ t.is_staked = s.is_staked
<1>1. PclTyped(t) /\ PclStakesOK(t) /\ PclBooksOK(t)
  BY PclClaimBooks
<1>2. PclFractionsCovered(t)
  BY PclClaimFractions
<1>3. PclTyped(s) /\ PclBooksOK(s) /\ key \in DOMAIN s.lockup
  BY DEF PclOK, PclAmounts, LiveIn
<1>4. s.amount_in_lockups[key[1]] = BalanceIn(s, key[1])
  BY <1>3, PclLockupFields DEF PclBooksOK
<1>5. /\ DOMAIN t.lockup = DOMAIN s.lockup /\ DOMAIN t.user = DOMAIN s.user
      /\ \A k \in DOMAIN s.lockup :
             t.lockup[k].unlock_timestamp = s.lockup[k].unlock_timestamp
  BY <1>3, <1>4, PclClaimTyped
<1>6. t.is_staked = s.is_staked
  BY DEF PclClaimed
<1>7. PclOK(t)
  BY <1>1, <1>2, <1>5 DEF PclOK
<1> QED BY <1>5, <1>6, <1>7

\* A claim keeps the PCL contract in order.
LEMMA PclClaimKeeps ==
    ASSUME PclOK(pcl), NEW u \in Users, NEW p \in PoolType, NEW d \in PclDurations,
           NEW w \in BOOLEAN, pcl_handle_claim_rewards_and_unlock_for_lockup(u, p, d, w)
    PROVE  /\ PclOK(pcl') /\ DOMAIN pcl'.lockup = DOMAIN pcl.lockup
           /\ pcl'.is_staked = pcl.is_staked
           /\ LiveIn(pcl'.lockup) \subseteq LiveIn(pcl.lockup)
           /\ LiveIn(pcl.lockup) \ LiveIn(pcl'.lockup) \subseteq {<<p, u, d>>}
           /\ LiveIn(pcl'.lockup) # LiveIn(pcl.lockup) => now >= UnlockTimestamp(d)
<1>1. PICK key, s, t : key = <<p, u, d>> /\ s = pcl /\ t = pcl'
  OBVIOUS
<1>2. PICK r \in Nat, rewards \in Nat, drawn \in Nat :
          PclAmounts(s, key, w, r, rewards, drawn) /\ PclClaimed(s, t, key, w, r, rewards, drawn)
  BY <1>1, PclClaimIs
<1>3. PclOK(s) /\ PclRecord(t) /\ key \in DOMAIN s.lockup
  BY <1>1, <1>2, PclClaimIs DEF PclAmounts, LiveIn
<1>4. PclOK(t) /\ DOMAIN t.lockup = DOMAIN s.lockup /\ t.is_staked = s.is_staked
  BY <1>2, <1>3, PclClaimedOK
<1>6. /\ LiveIn(t.lockup) = LiveIn(s.lockup) \/ LiveIn(t.lockup) = LiveIn(s.lockup) \ {key}
      /\ LiveIn(t.lockup) # LiveIn(s.lockup) => w
  <2>1. PICK left : left = IF w THEN {key} ELSE {}
    OBVIOUS
  <2>2. PclClaim(s, t, key, left)
    BY <1>2, <2>1 DEF PclClaim
  <2>3. LiveIn(t.lockup) = LiveIn(s.lockup) \ left
    BY <1>3, <2>2, PclClaimLive
  <2> QED BY <2>1, <2>3
<1>5. w => now >= UnlockTimestamp(d)
  <2>1. w => now >= s.lockup[key].unlock_timestamp
    BY <1>1 DEF pcl_handle_claim_rewards_and_unlock_for_lockup
  <2>2. s.lockup[key].unlock_timestamp = UnlockTimestamp(d)
    BY <1>1, <1>3 DEF PclOK
  <2> QED BY <2>1, <2>2
<1> QED BY <1>1, <1>4, <1>5, <1>6

\* A change of nothing but the incentives contract and what it owes.
LEMMA PclElsewhere ==
    ASSUME NEW s, PclOK(s), NEW t, PclTyped(t), PclStakesOK(t),
           t.lockup = s.lockup, t.user = s.user, t.amount_in_lockups = s.amount_in_lockups,
           t.total_user_lockup = s.total_user_lockup, t.reward_balance = s.reward_balance,
           t.rewards_per_share = s.rewards_per_share,
           \A p \in PoolType : BalanceIn(t, p) = BalanceIn(s, p)
    PROVE  PclOK(t)
<1>1. \A k : PclUndrawn(t, k) = PclUndrawn(s, k)
  BY DEF PclUndrawn
<1>2. PclFractionsCovered(t)
  <2>1. PICK l : l = s.lockup /\ l = t.lockup
    OBVIOUS
  <2>2. [k \in DOMAIN l |-> PclUndrawn(t, k)] = [k \in DOMAIN l |-> PclUndrawn(s, k)]
    BY <1>1
  <2> QED BY <2>1, <2>2 DEF PclOK, PclFractionsCovered
<1>3. PclBooksOK(t)
  BY DEF PclOK, PclBooksOK
<1> QED BY <1>2, <1>3 DEF PclOK

\* Every step of the PCL contract keeps it in order. No lockup comes, and none
\* leaves before its term.
LEMMA PclStepKeeps ==
    ASSUME PclOK(pcl), PclStep
    PROVE  /\ PclOK(pcl') /\ DOMAIN pcl'.lockup = DOMAIN pcl.lockup
           /\ pcl'.is_staked = pcl.is_staked
           /\ LiveIn(pcl'.lockup) \subseteq LiveIn(pcl.lockup)
           /\ \A k \in LiveIn(pcl.lockup) \ LiveIn(pcl'.lockup) : now >= UnlockTimestamp(k[3])
           /\ \A k, l \in LiveIn(pcl.lockup) \ LiveIn(pcl'.lockup) : k = l
<1>0. PclTyped(pcl) /\ PclRecord(pcl) /\ PclStakesOK(pcl)
  BY DEF PclOK, PclTyped
<1>1. PICK s, t : s = pcl /\ t = pcl'
  OBVIOUS
<1>2. ASSUME NEW a \in IncentivesAddrs, NEW p \in PoolType, NEW amount \in PclAccruals,
             IncentivesAccrue(a, p, amount)
      PROVE  PclOK(t) /\ t.lockup = s.lockup /\ t.is_staked = s.is_staked
  <2>1. /\ t = [s EXCEPT !.pending[a][p] = @ + amount, !.reserve = @ - amount]
        /\ amount <= s.reserve /\ amount \in Nat
    BY <1>1, <1>2, PclAssumption DEF IncentivesAccrue
  <2>2. /\ PclRecord(t) /\ t.pending = [s.pending EXCEPT ![a][p] = @ + amount]
        /\ t.reserve = s.reserve - amount /\ t.incentives = s.incentives
        /\ t.lockup = s.lockup /\ t.user = s.user
        /\ t.amount_in_lockups = s.amount_in_lockups /\ t.lp_held = s.lp_held
        /\ t.total_user_lockup = s.total_user_lockup /\ t.reward_balance = s.reward_balance
        /\ t.rewards_per_share = s.rewards_per_share /\ t.is_staked = s.is_staked
        /\ t.deposit = s.deposit
    BY <1>0, <1>1, <2>1 DEF PclRecord
  <2>3. t.pending \in [IncentivesAddrs -> [PoolType -> Nat]] /\ t.reserve \in Nat
    BY <1>0, <1>1, <2>1, <2>2 DEF PclTyped
  <2>4. PclTyped(t)
    BY <1>0, <1>1, <2>2, <2>3 DEF PclTyped
  <2>5. PclStakesOK(t) /\ \A q \in PoolType : BalanceIn(t, q) = BalanceIn(s, q)
    BY <1>0, <1>1, <2>2 DEF PclStakesOK, BalanceIn
  <2> QED BY <1>1, <2>2, <2>4, <2>5, PclElsewhere
<1>3. ASSUME NEW a \in IncentivesAddrs, NEW sender, pcl_handle_update_config(sender, a)
      PROVE  PclOK(t) /\ t.lockup = s.lockup /\ t.is_staked = s.is_staked
  <2>1. /\ t = [s EXCEPT !.incentives = a]
        /\ \A p \in PoolType : s.deposit[s.incentives][p] = 0
    BY <1>1, <1>3 DEF pcl_handle_update_config
  <2>2. /\ PclRecord(t) /\ t.pending = s.pending /\ t.reserve = s.reserve /\ t.incentives = a
        /\ t.lockup = s.lockup /\ t.user = s.user
        /\ t.amount_in_lockups = s.amount_in_lockups /\ t.lp_held = s.lp_held
        /\ t.total_user_lockup = s.total_user_lockup /\ t.reward_balance = s.reward_balance
        /\ t.rewards_per_share = s.rewards_per_share /\ t.is_staked = s.is_staked
        /\ t.deposit = s.deposit
    BY <1>0, <1>1, <2>1 DEF PclRecord
  <2>3. PclTyped(t)
    BY <1>0, <1>1, <2>2 DEF PclTyped
  <2>4. \A b \in IncentivesAddrs, p \in PoolType : s.deposit[b][p] = 0
    BY <1>0, <1>1, <2>1 DEF PclStakesOK
  <2>5. s.incentives \in IncentivesAddrs
    BY <1>0, <1>1 DEF PclTyped
  <2>6. PclStakesOK(t) /\ \A q \in PoolType : BalanceIn(t, q) = BalanceIn(s, q)
    BY <1>0, <1>1, <2>2, <2>4, <2>5 DEF PclStakesOK, BalanceIn
  <2> QED BY <1>1, <2>2, <2>3, <2>6, PclElsewhere
<1>4. ASSUME NEW u \in Users, NEW p \in PoolType, NEW d \in PclDurations, NEW w \in BOOLEAN,
             pcl_handle_claim_rewards_and_unlock_for_lockup(u, p, d, w)
      PROVE  /\ PclOK(t) /\ DOMAIN t.lockup = DOMAIN s.lockup /\ t.is_staked = s.is_staked
             /\ LiveIn(t.lockup) \subseteq LiveIn(s.lockup)
             /\ \A k \in LiveIn(s.lockup) \ LiveIn(t.lockup) : now >= UnlockTimestamp(k[3])
             /\ \A k, l \in LiveIn(s.lockup) \ LiveIn(t.lockup) : k = l
  <2>1. /\ PclOK(t) /\ DOMAIN t.lockup = DOMAIN s.lockup /\ t.is_staked = s.is_staked
        /\ LiveIn(t.lockup) \subseteq LiveIn(s.lockup)
        /\ LiveIn(s.lockup) \ LiveIn(t.lockup) \subseteq {<<p, u, d>>}
        /\ LiveIn(t.lockup) # LiveIn(s.lockup) => now >= UnlockTimestamp(d)
    BY <1>1, <1>4, PclClaimKeeps
  <2>2. <<p, u, d>>[3] = d
    OBVIOUS
  <2> QED BY <2>1, <2>2
<1> QED BY <1>1, <1>2, <1>3, <1>4 DEF PclStep
-----------------------------------------------------------------------------
\* t2 is t with the rate raised by r for the lockups in P.
Rises(L, P, t, t2, units, A, r, rewards) ==
    /\ IsFiniteSet(L) /\ P \in SUBSET L /\ A \in Nat /\ r \in Nat /\ rewards \in Nat
    /\ A = SumOver(units, P) /\ r * A <= DECIMAL_FRACTIONAL * rewards
    /\ \A k \in L : t[k] \in Int /\ units[k] \in Nat
    /\ \A k \in P : t2[k] = t[k] + (r * units[k])
    /\ \A k \in L \ P : t2[k] = t[k]

\* What the update of a pool's rate per share does to a sum over the lockups:
\* it grows by no more than the rewards that came in.
LEMMA RateRises ==
    ASSUME NEW L, NEW P, NEW t, NEW t2, NEW units, NEW A, NEW r, NEW rewards,
           Rises(L, P, t, t2, units, A, r, rewards)
    PROVE  /\ SumOver(t2, L) <= SumOver(t, L) + (DECIMAL_FRACTIONAL * rewards)
           /\ \A k \in L : t2[k] \in Int
<1> USE DEF Rises
<1> DEFINE e == [k \in L |-> IF k \in P THEN r * units[k] ELSE 0]
           ep == [k \in P |-> r * units[k]]
<1>1. ASSUME NEW k \in P
      PROVE  /\ ep[k] = r * units[k] /\ e[k] = r * units[k]
             /\ ep[k] \in Nat /\ units[k] \in Nat /\ 1 * ep[k] <= r * units[k]
  <2>1. PICK n \in Nat : n = units[k] /\ k \in L
    OBVIOUS
  <2>2. r * n \in Nat /\ 1 * (r * n) <= r * n
    OBVIOUS
  <2> QED BY <2>1, <2>2
<1>2. \A k \in L \ P : e[k] = 0
  OBVIOUS
<1> HIDE DEF e, ep
<1>3. ASSUME NEW k \in L PROVE e[k] \in Int /\ t[k] \in Int /\ t2[k] = t[k] + e[k]
  <2>1. CASE k \in P
    BY <1>1, <2>1
  <2>2. CASE k \notin P
    BY <1>2, <2>2
  <2> QED BY <2>1, <2>2
<1>4. SumOver(t2, L) = SumOver(t, L) + SumOver(e, L)
  BY <1>3, SumAdd
<1>5. IsFiniteSet(P)
  BY FS_Subset
<1>6. SumOver(e, L) = SumOver(ep, P)
  <2>1. \A k \in P : ep[k] \in Int /\ e[k] = ep[k]
    BY <1>1
  <2>2. IsFiniteSet(L) /\ P \in SUBSET L /\ \A k \in L \ P : e[k] = 0
    BY <1>2
  <2> QED BY ONLY <2>1, <2>2, SumExtend
<1>7. 1 * SumOver(ep, P) <= r * SumOver(units, P)
  <2>1. 1 \in Nat /\ \A k \in P : units[k] \in Nat /\ ep[k] \in Nat /\ 1 * ep[k] <= r * units[k]
    BY <1>1
  <2> QED BY <1>5, <2>1, SumOfParts
<1>8. PICK st \in Int, sp \in Int, n \in Nat, b \in Nat :
          /\ st = SumOver(t, L) /\ sp = SumOver(ep, P)
          /\ n = r * A /\ b = DECIMAL_FRACTIONAL * rewards /\ n <= b
  <2>1. SumOver(t, L) \in Int
    BY SumInt
  <2>2. SumOver(ep, P) \in Int
    BY <1>1, <1>5, SumInt
  <2>3. r * A \in Nat /\ DECIMAL_FRACTIONAL * rewards \in Nat
    BY ScaleAssumption
  <2> QED BY <2>1, <2>2, <2>3
<1>9. sp <= n
  BY <1>7, <1>8
<1>10. SumOver(t2, L) = st + sp
  BY <1>4, <1>6, <1>8
<1>11. st + sp <= st + b
  BY <1>8, <1>9
<1>12. \A k \in L : t2[k] \in Int
  BY <1>3
<1> QED BY <1>8, <1>10, <1>11, <1>12

\* A sum over some of the two pools.
LEMMA PoolsSum ==
    ASSUME NEW f, NEW S \in SUBSET PoolType, \A p \in PoolType : f[p] \in Nat
    PROVE  /\ SumOver(f, S) = (IF "ATOM" \in S THEN f["ATOM"] ELSE 0)
                                  + (IF "USDC" \in S THEN f["USDC"] ELSE 0)
           /\ SumOver(f, S) \in Nat
<1> DEFINE g == [p \in PoolType |-> IF p \in S THEN f[p] ELSE 0]
<1>1. PoolType = {"ATOM", "USDC"} /\ IsFiniteSet({"USDC"}) /\ IsFiniteSet({"ATOM", "USDC"})
  BY FS_Singleton, FS_AddElement, FS_EmptySet DEF PoolType
<1>2. \A p \in PoolType : g[p] \in Int /\ g[p] \in Nat /\ g[p] = IF p \in S THEN f[p] ELSE 0
  OBVIOUS
<1> HIDE DEF g
<1>3. SumOver(g, PoolType) = SumOver(f, S)
  <2>1. /\ \A p \in S : f[p] \in Int /\ g[p] = f[p]
        /\ \A p \in PoolType \ S : g[p] = 0
        /\ IsFiniteSet(PoolType)
    BY <1>1, <1>2
  <2> QED BY <2>1, SumExtend
<1>4. SumOver(g, PoolType) = g["ATOM"] + SumOver(g, {"USDC"})
  <2>1. PoolType \ {"ATOM"} = {"USDC"} /\ "ATOM" \in PoolType
    BY <1>1
  <2> QED BY <1>1, <1>2, <2>1, SumRemove
<1>5. SumOver(g, {"USDC"}) = g["USDC"]
  <2>1. {"USDC"} \ {"USDC"} = {} /\ SumOver(g, {}) = 0 /\ g["USDC"] \in Int
    BY <1>1, <1>2, SumEmpty
  <2>2. SumOver(g, {"USDC"}) = g["USDC"] + SumOver(g, {"USDC"} \ {"USDC"})
    BY <1>1, <1>2, SumRemove
  <2> QED BY <2>1, <2>2
<1>6. PICK x \in Nat, y \in Nat : x = g["ATOM"] /\ y = g["USDC"]
  BY <1>1, <1>2
<1>7. SumOver(f, S) = x + y
  BY <1>3, <1>4, <1>5, <1>6
<1>8. /\ x = IF "ATOM" \in S THEN f["ATOM"] ELSE 0
      /\ y = IF "USDC" \in S THEN f["USDC"] ELSE 0
  BY <1>1, <1>2, <1>6
<1> QED BY <1>7, <1>8
-----------------------------------------------------------------------------
(***************************************************************************)
(* The chain: what holds of x, the books after the lockups in S of user u   *)
(* have left for the other contract and those in pools have had their rate  *)
(* per share updated.                                                       *)
(***************************************************************************)
MineOf(u) == {k \in LiveLockups : k[2] = u}

\* The pools they are in.
PoolsOf(u) == {k[1] : k \in MineOf(u)}

\* The lockup records when those in S have left.
Left(l, u, S) ==
    /\ DOMAIN l = DOMAIN lockup
    /\ \A k \in DOMAIN lockup :
           /\ l[k] \in LockupRecords
           /\ l[k].lp_units_locked = lockup[k].lp_units_locked
           /\ l[k].generator_ntrn_debt = lockup[k].generator_ntrn_debt
           /\ l[k].ntrn_rewards =
                  IF total_ntrn_rewards[u] = 0 /\ k[2] = u THEN LockupReward(k)
                  ELSE lockup[k].ntrn_rewards
           /\ l[k].astroport_lp_transferred =
                  IF k \in S THEN lockup[k].lp_units_locked
                  ELSE lockup[k].astroport_lp_transferred

\* The rate per share of a pool, and what a lockup may draw at that rate.
RateOf(pools, p) == IF p \in pools THEN UpdatedPerShare(p) ELSE ntrn_per_share[p]
UndrawnAt(pools, k) ==
    (lockup[k].lp_units_locked * RateOf(pools, k[1]))
        - (DECIMAL_FRACTIONAL * lockup[k].generator_ntrn_debt)

\* What the lockups in T may draw together.
Drawable(pools, T) == SumOver([k \in DOMAIN lockup |-> UndrawnAt(pools, k)], T)

\* The rewards the contract has once those of the pools are claimed.
Available(pools) == reward_balance + SumOver([p \in PoolType |-> PendingRewards(p)], pools)

\* The users' totals with those of u replaced.
UserTotals(u, total) ==
    [p \in PoolType |-> [total_user_lockup[p] EXCEPT ![u] = total[p]]]

\* x is a record of the chain.
ChainRecord(x) ==
    x \in [ok : {x.ok}, amount : {x.amount}, deposit : {x.deposit},
           user_total : {x.user_total}, rewards : {x.rewards}, lockup : {x.lockup},
           pcl : {x.pcl}]

\* The types of its amounts.
ChainTyped(x) ==
    /\ ChainRecord(x)
    /\ x.amount \in [PoolType -> Nat] /\ x.deposit \in [PoolType -> Nat]
    /\ x.user_total \in [PoolType -> Nat] /\ x.rewards \in Nat

\* The lockups in S have come to the other contract, and nothing else has.
Handed(s, S) ==
    /\ PclOK(s) /\ DOMAIN s.lockup = DOMAIN pcl.lockup \cup S
    /\ \A k \in DOMAIN pcl.lockup : s.lockup[k] = pcl.lockup[k]
    /\ \A k \in S : s.lockup[k].astroport_lp_transferred = NONE

\* The induction hypothesis.
ChainOK(u, pools, S, x) ==
    /\ ChainTyped(x) /\ Left(x.lockup, u, S)
    /\ UnitsAgree(x.lockup, x.amount, UserTotals(u, x.user_total))
    /\ \A p \in PoolType : x.deposit[p] =
           IF is_staked[p] THEN x.amount[p] ELSE gen_deposit[lockdrop_config.generator][p]
    /\ Drawable(pools, LiveLockups \ S)
           + (DECIMAL_FRACTIONAL * x.rewards) <= DECIMAL_FRACTIONAL * Available(pools)
    /\ Handed(x.pcl, S)
    /\ \A p \in PoolType : x.pcl.is_staked[p] => x.amount[p] = 0

\* What the callbacks for one lockup make of x, when they do not fail.
ChainMoves(x, y, key, minted, lp, reward, units) ==
    /\ x.ok /\ x.amount[key[1]] # 0 /\ reward >= 0 /\ lp # 0
    /\ units <= x.amount[key[1]] /\ units <= x.user_total[key[1]]
    /\ ChainRecord(y)
    /\ y.amount = [x.amount EXCEPT ![key[1]] = @ - units]
    /\ y.deposit = [x.deposit EXCEPT ![key[1]] = @ - lp]
    /\ y.user_total = [x.user_total EXCEPT ![key[1]] = @ - units]
    /\ y.rewards = x.rewards + reward
    /\ y.lockup = [x.lockup EXCEPT ![key].astroport_lp_transferred = lp]
    /\ y.pcl = pcl_handle_migrate_xyk_liquidity(x.pcl, key, minted[key],
                   SentUserInfo(key[2]), UnlockTimestamp(key[3]), y.deposit[key[1]] = 0)

\* They do this.
LEMMA ChainStepIs ==
    ASSUME NEW x, ChainTyped(x), NEW key, key[1] \in PoolType, NEW minted, NEW lp \in Nat,
           lp = (lockup[key].lp_units_locked * x.deposit[key[1]]) \div x.amount[key[1]],
           NEW reward \in Int, reward = RewardAtMigration(key, lp),
           NEW y, y = MigrateLockup(x, key, minted), y.ok,
           NEW units \in Nat, units = lockup[key].lp_units_locked
    PROVE  ChainMoves(x, y, key, minted, lp, reward, units)
<1> DEFINE p == key[1]
<1>0. ChainRecord(x)
  BY DEF ChainTyped
<1>1. PICK paid : paid = [x EXCEPT !.ok = reward >= 0, !.rewards = @ + reward]
  OBVIOUS
<1>2. PICK wd : wd = WithdrawnLockup(paid, key, lp)
  OBVIOUS
<1>3. y = IF ~x.ok \/ x.amount[p] = 0 \/ x.deposit[p] = 0 THEN [x EXCEPT !.ok = FALSE]
          ELSE HandedOver(wd, key, minted)
  BY <1>1, <1>2 DEF MigrateLockup
<1>4. x.ok /\ x.amount[p] # 0 /\ y = HandedOver(wd, key, minted)
  <2>1. [x EXCEPT !.ok = FALSE].ok = FALSE
    BY <1>0 DEF ChainRecord
  <2> QED BY <1>3, <2>1
<1>5. /\ ChainRecord(paid) /\ paid.ok = (reward >= 0) /\ paid.rewards = x.rewards + reward
      /\ paid.amount = x.amount /\ paid.deposit = x.deposit /\ paid.user_total = x.user_total
      /\ paid.lockup = x.lockup /\ paid.pcl = x.pcl
  BY <1>0, <1>1 DEF ChainRecord
<1>6. wd = [paid EXCEPT
            !.ok = @ /\ lp # 0 /\ units <= paid.amount[p] /\ units <= paid.user_total[p],
            !.amount[p] = @ - units,
            !.deposit[p] = @ - lp,
            !.user_total[p] = @ - units,
            !.lockup[key].astroport_lp_transferred = lp]
  BY <1>2 DEF WithdrawnLockup
<1>7. /\ ChainRecord(wd) /\ wd.rewards = paid.rewards /\ wd.pcl = paid.pcl
      /\ wd.ok = (paid.ok /\ lp # 0 /\ units <= paid.amount[p] /\ units <= paid.user_total[p])
  BY <1>5, <1>6 DEF ChainRecord
<1>8. /\ wd.amount = [paid.amount EXCEPT ![p] = @ - units]
      /\ wd.deposit = [paid.deposit EXCEPT ![p] = @ - lp]
      /\ wd.user_total = [paid.user_total EXCEPT ![p] = @ - units]
      /\ wd.lockup = [paid.lockup EXCEPT ![key].astroport_lp_transferred = lp]
  BY <1>5, <1>6 DEF ChainRecord
<1>9. PICK s2 : s2 = pcl_handle_migrate_xyk_liquidity(wd.pcl, key, minted[key],
                         SentUserInfo(key[2]), UnlockTimestamp(key[3]), wd.deposit[key[1]] = 0)
  OBVIOUS
<1>10. y = [wd EXCEPT !.ok = @ /\ key[3] \in PclDurations, !.pcl = s2]
  BY <1>4, <1>7, <1>9 DEF HandedOver, ChainRecord
<1>11. /\ ChainRecord(y) /\ y.ok = (wd.ok /\ key[3] \in PclDurations) /\ y.pcl = s2
       /\ y.amount = wd.amount /\ y.deposit = wd.deposit /\ y.user_total = wd.user_total
       /\ y.lockup = wd.lockup /\ y.rewards = wd.rewards
  BY <1>7, <1>10 DEF ChainRecord
<1>12. wd.ok /\ paid.ok
  BY <1>7, <1>11
<1>13. reward >= 0
  BY <1>5, <1>12
<1>14. lp # 0 /\ units <= x.amount[p] /\ units <= x.user_total[p]
  BY <1>5, <1>7, <1>12
<1>15. y.pcl = pcl_handle_migrate_xyk_liquidity(x.pcl, key, minted[key],
                   SentUserInfo(key[2]), UnlockTimestamp(key[3]), y.deposit[key[1]] = 0)
  BY <1>5, <1>7, <1>9, <1>11
<1>16. /\ y.amount = [x.amount EXCEPT ![p] = @ - units]
       /\ y.deposit = [x.deposit EXCEPT ![p] = @ - lp]
       /\ y.user_total = [x.user_total EXCEPT ![p] = @ - units]
       /\ y.lockup = [x.lockup EXCEPT ![key].astroport_lp_transferred = lp]
       /\ y.rewards = x.rewards + reward
  BY ONLY <1>5, <1>7, <1>8, <1>11
<1>17. ChainRecord(y)
  BY <1>11
<1> QED BY ONLY <1>4, <1>13, <1>14, <1>15, <1>16, <1>17 DEF ChainMoves

\* A chain that has failed stays failed, and so does one without LP tokens.
LEMMA ChainStepRecord ==
    ASSUME NEW x, ChainRecord(x), NEW key, NEW minted, NEW y, y = MigrateLockup(x, key, minted)
    PROVE  /\ ChainRecord(y)
           /\ y.ok => x.ok /\ x.amount[key[1]] # 0
<1> DEFINE p == key[1]
           lp == (lockup[key].lp_units_locked * x.deposit[p]) \div x.amount[p]
           reward == RewardAtMigration(key, lp)
<1>1. PICK paid : paid = [x EXCEPT !.ok = reward >= 0, !.rewards = @ + reward]
  OBVIOUS
<1>2. PICK wd : wd = WithdrawnLockup(paid, key, lp)
  OBVIOUS
<1>3. y = IF ~x.ok \/ x.amount[p] = 0 \/ x.deposit[p] = 0 THEN [x EXCEPT !.ok = FALSE]
          ELSE HandedOver(wd, key, minted)
  BY <1>1, <1>2 DEF MigrateLockup
<1>4. ChainRecord([x EXCEPT !.ok = FALSE]) /\ [x EXCEPT !.ok = FALSE].ok = FALSE
  BY DEF ChainRecord
<1>5. ChainRecord(paid)
  BY <1>1 DEF ChainRecord
<1>6. ChainRecord(wd)
  BY <1>2, <1>5 DEF ChainRecord, WithdrawnLockup
<1>7. ChainRecord(HandedOver(wd, key, minted))
  BY <1>6 DEF ChainRecord, HandedOver
<1> QED BY <1>3, <1>4, <1>7

\* The update of a staked pool's rate per share: the rewards cover it.
LEMMA RateUpdated ==
    ASSUME LockdropInv, NEW p \in PoolType, is_staked[p],
           PendingRewards(p) # 0 => PoolLpBalance(p) # 0
    PROVE  /\ PendingRewards(p) \in Nat /\ UpdatedPerShare(p) \in Nat
           /\ \E r \in Nat : /\ UpdatedPerShare(p) = ntrn_per_share[p] + r
                             /\ r * amount_in_lockups[p]
                                    <= DECIMAL_FRACTIONAL * PendingRewards(p)
<1>1. lockdrop_config.generator \in Generators /\ LockdropTypeOK /\ LockupsWhole
  BY DEF LockdropInv, StakedOK
<1>2. PICK A \in Nat, n \in Nat, rewards \in Nat :
          /\ A = amount_in_lockups[p] /\ n = ntrn_per_share[p] /\ rewards = PendingRewards(p)
          /\ PoolLpBalance(p) = A
  BY <1>1 DEF LockdropTypeOK, LockupsWhole, PendingRewards, PoolLpBalance
<1>3. CASE rewards = 0
  <2>1. UpdatedPerShare(p) = n + 0 /\ 0 * A <= DECIMAL_FRACTIONAL * rewards
    BY <1>2, <1>3, ScaleAssumption DEF UpdatedPerShare
  <2> QED BY <1>2, <2>1
<1>4. CASE rewards # 0
  <2>0. A # 0
    BY <1>2, <1>4
  <2>1. PICK m \in Nat : m = rewards * DECIMAL_FRACTIONAL
    BY ScaleAssumption
  <2>2. A * (m \div A) <= m /\ m \div A \in Nat
    BY <2>0, QuotientBelow
  <2>3. PICK r \in Nat : r = m \div A
    BY <2>2
  <2>4. r * A <= DECIMAL_FRACTIONAL * rewards
    BY <2>1, <2>2, <2>3, ScaleAssumption
  <2>5. UpdatedPerShare(p) = n + r
    BY <1>2, <1>4, <2>1, <2>3 DEF UpdatedPerShare, FromRatio
  <2>6. n + r \in Nat
    OBVIOUS
  <2> QED BY <1>2, <2>4, <2>5, <2>6
<1> QED BY <1>3, <1>4

\* The lockups of a user are keys of that user, in pools that exist.
LEMMA MineAre ==
    ASSUME LockdropInv, NEW u \in Users
    PROVE  /\ KeysOf(u, MineOf(u)) /\ PoolsOf(u) \in SUBSET PoolType
           /\ \A k \in MineOf(u) : /\ k \in LiveLockups /\ k \in DOMAIN lockup /\ k \in Keys
                                   /\ k[1] \in PoolsOf(u) /\ k[2] = u
                                   /\ lockup[k].lp_units_locked \in Nat
                                   /\ lockup[k].generator_ntrn_debt \in Nat
<1>1. IsFiniteSet(DOMAIN lockup) /\ DOMAIN lockup \subseteq Keys
      /\ \A k \in DOMAIN lockup : lockup[k] \in LockupRecords
  BY DEF LockdropInv, LockupsKnown, LockdropTypeOK
<1>2. \A k \in MineOf(u) : /\ k \in LiveLockups /\ k \in DOMAIN lockup /\ k \in Keys
                           /\ k[1] \in PoolsOf(u) /\ k[2] = u /\ k[1] \in PoolType
                           /\ lockup[k].lp_units_locked \in Nat
                           /\ lockup[k].generator_ntrn_debt \in Nat
  BY <1>1 DEF MineOf, PoolsOf, LiveLockups, Keys, LockupRecords
<1>3. IsFiniteSet(MineOf(u))
  BY <1>1, <1>2, FS_Subset
<1>4. PoolsOf(u) \in SUBSET PoolType
  BY <1>2 DEF PoolsOf
<1> QED BY <1>2, <1>3, <1>4 DEF KeysOf

\* The lockup records when one more lockup has left.
LEMMA LeftOne ==
    ASSUME NEW u, NEW S, NEW l, Left(l, u, S), NEW key \in DOMAIN lockup,
           lockup[key].lp_units_locked \in Nat, NEW l2,
           l2 = [l EXCEPT ![key].astroport_lp_transferred = lockup[key].lp_units_locked]
    PROVE  /\ Left(l2, u, S \cup {key})
           /\ \A k \in DOMAIN lockup : k # key => l2[k] = l[k]
<1>0. PICK n \in Nat : n = lockup[key].lp_units_locked
  OBVIOUS
<1>1. PICK old, new : old = l[key] /\ new = [old EXCEPT !.astroport_lp_transferred = n]
  OBVIOUS
<1>2. old \in LockupRecords /\ DOMAIN l = DOMAIN lockup
  BY <1>1 DEF Left
<1>3. /\ new \in LockupRecords /\ new.astroport_lp_transferred = n
      /\ new.lp_units_locked = old.lp_units_locked
      /\ new.generator_ntrn_debt = old.generator_ntrn_debt
      /\ new.ntrn_rewards = old.ntrn_rewards
  BY <1>1, <1>2 DEF LockupRecords
<1>4. l2 = [l EXCEPT ![key] = new]
  BY <1>0, <1>1
<1>5. DOMAIN l2 = DOMAIN lockup /\ l2[key] = new
      /\ \A k \in DOMAIN lockup : k # key => l2[k] = l[k]
  BY <1>2, <1>4
<1>6. ASSUME NEW k \in DOMAIN lockup
      PROVE  /\ l2[k] \in LockupRecords
             /\ l2[k].lp_units_locked = lockup[k].lp_units_locked
             /\ l2[k].generator_ntrn_debt = lockup[k].generator_ntrn_debt
             /\ l2[k].ntrn_rewards =
                    IF total_ntrn_rewards[u] = 0 /\ k[2] = u THEN LockupReward(k)
                    ELSE lockup[k].ntrn_rewards
             /\ l2[k].astroport_lp_transferred =
                    IF k \in S \cup {key} THEN lockup[k].lp_units_locked
                    ELSE lockup[k].astroport_lp_transferred
  <2>1. CASE k = key
    BY <1>0, <1>1, <1>3, <1>5, <2>1 DEF Left
  <2>2. CASE k # key
    BY <1>5, <2>2 DEF Left
  <2> QED BY <2>1, <2>2
<1> QED BY <1>5, <1>6 DEF Left

\* What is live when the lockups in S have left.
LEMMA LeftLive ==
    ASSUME LockdropInv, NEW u, NEW S \in SUBSET LiveLockups, NEW l, Left(l, u, S)
    PROVE  LiveIn(l) = LiveLockups \ S /\ Counted(l)
<1>1. IsFiniteSet(DOMAIN lockup) /\ \A k \in DOMAIN lockup : lockup[k].lp_units_locked \in Nat
  BY DEF LockdropInv, LockupsKnown, LockdropTypeOK, LockupRecords
<1>2. NONE \notin Nat
  BY NoneAssumption
<1> QED BY <1>1, <1>2 DEF Left, LiveIn, LiveLockups, Counted

\* The totals follow.
LEMMA ChainUnits ==
    ASSUME LockdropInv, NEW u \in Users, NEW S \in SUBSET MineOf(u), NEW key \in MineOf(u) \ S,
           NEW x, NEW y, ChainTyped(x), Left(x.lockup, u, S), Left(y.lockup, u, S \cup {key}),
           UnitsAgree(x.lockup, x.amount, UserTotals(u, x.user_total)),
           NEW units \in Nat, units = lockup[key].lp_units_locked,
           y.amount = [x.amount EXCEPT ![key[1]] = @ - units],
           y.user_total = [x.user_total EXCEPT ![key[1]] = @ - units]
    PROVE  UnitsAgree(y.lockup, y.amount, UserTotals(u, y.user_total))
<1> DEFINE l == x.lockup
           l2 == y.lockup
           p == key[1]
<1>1. /\ key \in LiveLockups /\ key \in DOMAIN lockup /\ p \in PoolType /\ key[2] = u
      /\ S \in SUBSET LiveLockups /\ S \cup {key} \in SUBSET LiveLockups
  BY MineAre DEF MineOf, PoolsOf
<1>2. /\ LiveIn(l) = LiveLockups \ S /\ LiveIn(l2) = LiveLockups \ (S \cup {key})
      /\ Counted(l) /\ Counted(l2)
  BY <1>1, LeftLive
<1>3. -units \in Int
  OBVIOUS
<1>4. UnitsMoveAt(l, l2, key, -units)
  <2>1. DOMAIN l = DOMAIN lockup /\ DOMAIN l2 = DOMAIN lockup
    BY DEF Left
  <2>2. \A k \in DOMAIN l \ {key} : /\ l2[k].lp_units_locked = l[k].lp_units_locked
                                    /\ l2[k].astroport_lp_transferred = l[k].astroport_lp_transferred
    BY <2>1 DEF Left
  <2>3. key \in LiveIn(l) /\ key \notin LiveIn(l2) /\ l[key].lp_units_locked = units
    BY <1>1, <1>2 DEF Left
  <2>4. (IF key \in LiveIn(l2) THEN l2[key].lp_units_locked ELSE 0)
            = (IF key \in LiveIn(l) THEN l[key].lp_units_locked ELSE 0) + (-units)
    BY <2>3
  <2> QED BY <1>3, <2>1, <2>2, <2>4 DEF UnitsMoveAt
<1>5. TotalsMoveAt(x.amount, y.amount, UserTotals(u, x.user_total), UserTotals(u, y.user_total),
                   key, -units)
  <2>1. ASSUME NEW q \in PoolType
        PROVE  y.amount[q] = IF q = p THEN x.amount[q] + (-units) ELSE x.amount[q]
    BY <1>1, <2>1 DEF ChainTyped
  <2>2. ASSUME NEW q \in PoolType, NEW v \in Users
        PROVE  UserTotals(u, y.user_total)[q][v] =
                   IF q = p /\ v = u THEN UserTotals(u, x.user_total)[q][v] + (-units)
                   ELSE UserTotals(u, x.user_total)[q][v]
    <3>1. total_user_lockup[q] \in [Users -> Nat]
      BY <2>2 DEF LockdropInv, LockdropTypeOK
    <3>2. /\ UserTotals(u, y.user_total)[q] = [total_user_lockup[q] EXCEPT ![u] = y.user_total[q]]
          /\ UserTotals(u, x.user_total)[q] = [total_user_lockup[q] EXCEPT ![u] = x.user_total[q]]
      BY <2>2 DEF UserTotals
    <3>3. y.user_total[q] = IF q = p THEN x.user_total[q] + (-units) ELSE x.user_total[q]
      BY <1>1, <2>2 DEF ChainTyped
    <3> QED BY <3>1, <3>2, <3>3
  <2> QED BY <1>1, <2>1, <2>2 DEF TotalsMoveAt
<1> HIDE DEF l, l2
<1> QED BY <1>2, <1>4, <1>5, UnitsAgreeMove DEF l, l2

\* The rewards paid to a lockup that leaves are at most what it may draw.
LEMMA ChainRewards ==
    ASSUME LockdropInv, NEW u \in Users, NEW S \in SUBSET MineOf(u), NEW key \in MineOf(u) \ S,
           NEW pools, key[1] \in pools, \A p \in PoolType : RateOf(pools, p) \in Nat,
           NEW paid \in Nat, NEW reward \in Nat,
           reward = RewardAtMigration(key, lockup[key].lp_units_locked), NEW bound \in Int,
           Drawable(pools, LiveLockups \ S)
               + (DECIMAL_FRACTIONAL * paid) <= bound
    PROVE  Drawable(pools, LiveLockups \ (S \cup {key}))
               + (DECIMAL_FRACTIONAL * (paid + reward)) <= bound
<1> DEFINE v == [k \in DOMAIN lockup |-> UndrawnAt(pools, k)]
           T == LiveLockups \ S
           F == DECIMAL_FRACTIONAL
<1>1. /\ key \in T /\ T \subseteq DOMAIN lockup /\ key[1] \in PoolType
      /\ T \ {key} = LiveLockups \ (S \cup {key}) /\ IsFiniteSet(T)
  <2>1. key \in T /\ T \subseteq DOMAIN lockup /\ key[1] \in PoolType
        /\ T \ {key} = LiveLockups \ (S \cup {key})
    BY MineAre DEF PoolsOf, LiveLockups
  <2> QED BY <2>1, FS_Subset DEF LockdropInv, LockupsKnown
<1>2. ASSUME NEW k \in DOMAIN lockup PROVE v[k] \in Int
  <2>1. lockup[k].lp_units_locked \in Nat /\ lockup[k].generator_ntrn_debt \in Nat
        /\ k[1] \in PoolType
    BY DEF LockdropInv, LockdropTypeOK, LockupRecords, Keys
  <2>2. PICK a \in Nat, b \in Nat, c \in Nat, d \in Nat :
            /\ a = lockup[k].lp_units_locked /\ b = RateOf(pools, k[1])
            /\ c = lockup[k].generator_ntrn_debt /\ d = F
    BY <2>1, ScaleAssumption
  <2>3. (a * b) - (d * c) \in Int
    OBVIOUS
  <2> QED BY <2>2, <2>3 DEF UndrawnAt
<1>3. v[key] >= F * reward
  <2>1. PICK a \in Nat, b \in Nat, c \in Nat, m \in Nat, d \in Nat :
            /\ a = lockup[key].lp_units_locked /\ b = RateOf(pools, key[1])
            /\ c = lockup[key].generator_ntrn_debt /\ m = MulFloor(a, b) /\ d = F
    <3>1. PICK a \in Nat, b \in Nat, c \in Nat, d \in Nat :
            /\ a = lockup[key].lp_units_locked /\ b = RateOf(pools, key[1])
            /\ c = lockup[key].generator_ntrn_debt /\ d = F
      BY <1>1, MineAre, ScaleAssumption
    <3>2. MulFloor(a, b) \in Nat
      BY MulFloorNat
    <3> QED BY <3>1, <3>2
  <2>2. reward = m - c
    BY <2>1 DEF RewardAtMigration, RateOf
  <2>3. d * m <= a * b
    BY <2>1, MulFloorBelow
  <2>4. d * reward = (d * m) - (d * c)
    BY <2>2
  <2>5. v[key] = (a * b) - (d * c)
    BY <1>1, <2>1 DEF UndrawnAt
  <2>6. PICK dm \in Nat, dc \in Nat, ab \in Nat : dm = d * m /\ dc = d * c /\ ab = a * b
    OBVIOUS
  <2>7. ab - dc >= dm - dc
    BY <2>3, <2>6
  <2> QED BY <2>1, <2>4, <2>5, <2>6, <2>7
<1>4. SumOver(v, T) + (F * paid) <= bound
  BY DEF Drawable
<1>10. Drawable(pools, T \ {key}) = SumOver(v, T \ {key})
  BY DEF Drawable
<1> HIDE DEF v, T
<1>5. SumOver(v, T) = v[key] + SumOver(v, T \ {key}) /\ SumOver(v, T \ {key}) \in Int
  BY <1>1, <1>2, SumRemove
<1>6. PICK a \in Int, b \in Int, c \in Nat, e \in Nat :
          /\ a = v[key] /\ b = SumOver(v, T \ {key}) /\ c = F * paid /\ e = F * reward
  <2>1. v[key] \in Int
    BY <1>1, <1>2
  <2>2. F * paid \in Nat /\ F * reward \in Nat
    BY ONLY paid \in Nat, reward \in Nat, ScaleAssumption
  <2> HIDE DEF F
  <2> QED BY <1>5, <2>1, <2>2
<1>7. F * (paid + reward) = c + e
  BY <1>6, ScaleAssumption
<1>8. b + (c + e) <= bound
  <2>1. (a + b) + c <= bound
    BY <1>4, <1>5, <1>6
  <2>2. a >= e
    BY <1>3, <1>6
  <2> QED BY <2>1, <2>2
<1> QED BY <1>1, <1>6, <1>7, <1>8, <1>10

\* The rewards that are available are a natural.
LEMMA AvailableNat ==
    ASSUME LockdropInv, GeneratorKnown, NEW P \in SUBSET PoolType
    PROVE  /\ Available(P) \in Nat /\ \A p \in PoolType : PendingRewards(p) \in Nat
           /\ SumOver([p \in PoolType |-> PendingRewards(p)], P) \in Nat
<1> DEFINE f == [p \in PoolType |-> PendingRewards(p)]
<1>1. LockdropTypeOK /\ reward_balance \in Nat
  BY DEF LockdropInv, LockdropTypeOK
<1>2. \A p \in PoolType : PendingRewards(p) \in Nat
  <2>1. gen_pending \in [Generators -> [PoolType -> Nat]] /\ lockdrop_config.generator \in Generators
    BY <1>1 DEF LockdropTypeOK, GeneratorKnown
  <2> QED BY <2>1 DEF PendingRewards
<1>3. \A p \in PoolType : f[p] \in Nat
  BY <1>2
<1>4. SumOver(f, P) \in Nat
  <2> HIDE DEF f
  <2> QED BY <1>3, PoolsSum
<1>5. Available(P) = reward_balance + SumOver(f, P)
  BY DEF Available
<1> QED BY <1>1, <1>2, <1>4, <1>5

\* A user's UserInfo, as it is sent, is one.
LEMMA SentInfo ==
    ASSUME LockdropInv, NEW u \in Users
    PROVE  SentUserInfo(u) \in PclUserInfos
<1>1. UserReward(u) \in Nat
  BY RewardNat DEF LockdropInv
<1> QED BY <1>1 DEF SentUserInfo, PclUserInfos

\* The callbacks of one lockup keep the induction hypothesis.
LEMMA ChainStepKeeps ==
    ASSUME LockdropInv, GeneratorKnown, Separate(lockup, amount_in_lockups, pcl),
           NEW u \in Users, NEW P \in SUBSET PoolType, P = PoolsOf(u),
           NEW S \in SUBSET MineOf(u), NEW key \in MineOf(u) \ S,
           \A p \in P : is_staked[p], \A p \in PoolType : RateOf(P, p) \in Nat,
           NEW minted \in [MineOf(u) -> MintedLp], NEW x, ChainRecord(x),
           x.ok => ChainOK(u, P, S, x),
           NEW y, y = MigrateLockup(x, key, minted), y.ok
    PROVE  ChainOK(u, P, S \cup {key}, y)
<1> DEFINE p == key[1]
           g == lockdrop_config.generator
<1>1. /\ key \in LiveLockups /\ key \in DOMAIN lockup /\ key \in Keys /\ p \in P
      /\ p \in PoolType /\ key[2] = u
  BY MineAre
<1>2. x.ok /\ x.amount[p] # 0
  BY ChainStepRecord
<1>3. /\ ChainTyped(x) /\ Left(x.lockup, u, S) /\ Handed(x.pcl, S)
      /\ UnitsAgree(x.lockup, x.amount, UserTotals(u, x.user_total))
      /\ \A q \in PoolType : x.deposit[q] =
             IF is_staked[q] THEN x.amount[q] ELSE gen_deposit[lockdrop_config.generator][q]
      /\ Drawable(P, LiveLockups \ S)
             + (DECIMAL_FRACTIONAL * x.rewards) <= DECIMAL_FRACTIONAL * Available(P)
      /\ \A q \in PoolType : x.pcl.is_staked[q] => x.amount[q] = 0
  BY <1>2 DEF ChainOK
<1>4. PICK units \in Nat, A \in Nat, c \in Nat, rate \in Nat :
          /\ units = lockup[key].lp_units_locked /\ A = x.amount[p] /\ A = x.deposit[p] /\ A # 0
          /\ c = lockup[key].generator_ntrn_debt /\ rate = UpdatedPerShare(p)
  <2>1. lockup[key].lp_units_locked \in Nat /\ lockup[key].generator_ntrn_debt \in Nat
    BY MineAre
  <2>2. x.amount[p] \in Nat /\ x.amount[p] # 0
    BY <1>1, <1>2, <1>3 DEF ChainTyped
  <2>3. x.amount[p] = x.deposit[p]
    BY <1>1, <1>3
  <2>4. UpdatedPerShare(p) \in Nat
    BY <1>1 DEF RateOf
  <2> QED BY <2>1, <2>2, <2>3, <2>4
<1>5. PICK lp \in Nat : lp = units /\ lp = (lockup[key].lp_units_locked * x.deposit[p]) \div x.amount[p]
  <2>1. units = (units * A) \div A
    BY <1>4
  <2> QED BY <1>4, <2>1
<1>6. PICK reward \in Int : reward = RewardAtMigration(key, lp)
  <2>1. MulFloor(lp, rate) \in Nat
    BY MulFloorNat
  <2>2. RewardAtMigration(key, lp) = MulFloor(lp, rate) - c
    BY <1>4 DEF RewardAtMigration
  <2> QED BY <2>1, <2>2
<1>7. /\ reward >= 0 /\ units <= x.amount[p] /\ units <= x.user_total[p]
      /\ ChainRecord(y)
      /\ y.amount = [x.amount EXCEPT ![p] = @ - units]
      /\ y.deposit = [x.deposit EXCEPT ![p] = @ - lp]
      /\ y.user_total = [x.user_total EXCEPT ![p] = @ - units]
      /\ y.rewards = x.rewards + reward
      /\ y.lockup = [x.lockup EXCEPT ![key].astroport_lp_transferred = lp]
      /\ y.pcl = pcl_handle_migrate_xyk_liquidity(x.pcl, key, minted[key],
                     SentUserInfo(key[2]), UnlockTimestamp(key[3]), y.deposit[p] = 0)
  <2>1. ChainMoves(x, y, key, minted, lp, reward, units)
    BY <1>1, <1>3, <1>4, <1>5, <1>6, ChainStepIs
  <2> QED BY <2>1 DEF ChainMoves
<1>8. ChainTyped(y)
  <2>1. x.user_total[p] \in Nat /\ x.rewards \in Nat
    BY <1>1, <1>3 DEF ChainTyped
  <2>2. A - units \in Nat /\ A - lp \in Nat /\ x.user_total[p] - units \in Nat
        /\ x.rewards + reward \in Nat
    <3>1. PICK U \in Nat, r \in Nat : U = x.user_total[p] /\ r = x.rewards
      BY <2>1
    <3>2. units <= A /\ lp <= A /\ units <= U
      BY <1>4, <1>5, <1>7, <3>1
    <3>3. A - units \in Nat /\ A - lp \in Nat /\ U - units \in Nat
      BY ONLY <3>2, A \in Nat, units \in Nat, lp \in Nat, U \in Nat
    <3>4. reward >= 0
      BY <1>7
    <3>5. r + reward \in Nat
      BY ONLY <3>4, r \in Nat, reward \in Int
    <3> QED BY ONLY <3>1, <3>3, <3>5
  <2>3. x.amount \in [PoolType -> Nat] /\ x.deposit \in [PoolType -> Nat]
        /\ x.user_total \in [PoolType -> Nat]
    BY <1>3 DEF ChainTyped
  <2>4. y.amount \in [PoolType -> Nat] /\ y.deposit \in [PoolType -> Nat]
        /\ y.user_total \in [PoolType -> Nat]
    <3>1. x.amount[p] - units \in Nat /\ x.deposit[p] - lp \in Nat
      BY <1>4, <2>2
    <3> QED BY <1>1, <1>7, <2>2, <2>3, <3>1
  <2> QED BY <1>7, <2>2, <2>4 DEF ChainTyped
<1>9. Left(y.lockup, u, S \cup {key})
  <2>1. y.lockup = [x.lockup EXCEPT ![key].astroport_lp_transferred = lockup[key].lp_units_locked]
    BY <1>4, <1>5, <1>7
  <2>2. lockup[key].lp_units_locked \in Nat
    BY <1>4
  <2> QED BY <1>1, <1>3, <2>1, <2>2, LeftOne
<1>10. UnitsAgree(y.lockup, y.amount, UserTotals(u, y.user_total))
  BY <1>3, <1>4, <1>7, <1>9, ChainUnits
<1>11. ASSUME NEW q \in PoolType
       PROVE  y.deposit[q] = IF is_staked[q] THEN y.amount[q]
                             ELSE gen_deposit[lockdrop_config.generator][q]
  <2>1. x.amount \in [PoolType -> Nat] /\ x.deposit \in [PoolType -> Nat]
    BY <1>3 DEF ChainTyped
  <2>2. CASE q = p
    <3>1. y.deposit[p] = x.deposit[p] - lp /\ y.amount[p] = x.amount[p] - units
      BY <1>1, <1>7, <2>1
    <3>2. y.deposit[p] = y.amount[p]
      BY <1>4, <1>5, <3>1
    <3> QED BY <1>1, <2>2, <3>2
  <2>3. CASE q # p
    BY <1>3, <1>7, <2>1, <2>3
  <2> QED BY <2>2, <2>3
<1>12. Drawable(P, LiveLockups \ (S \cup {key}))
           + (DECIMAL_FRACTIONAL * y.rewards) <= DECIMAL_FRACTIONAL * Available(P)
  <2>1. PICK paid \in Nat, bound \in Int : paid = x.rewards /\ bound = DECIMAL_FRACTIONAL * Available(P)
    <3>1. Available(P) \in Nat
      BY AvailableNat
    <3>2. DECIMAL_FRACTIONAL * Available(P) \in Int
      BY <3>1, ScaleAssumption
    <3> QED BY <1>3, <3>2 DEF ChainTyped
  <2>2. reward \in Nat /\ reward = RewardAtMigration(key, lockup[key].lp_units_locked)
    <3>1. lp = lockup[key].lp_units_locked
      BY <1>4, <1>5
    <3>2. reward = RewardAtMigration(key, lockup[key].lp_units_locked)
      BY <1>6, <3>1
    <3>3. reward \in Nat
      BY <1>6, <1>7
    <3> QED BY <3>2, <3>3
  <2>3. Drawable(P, LiveLockups \ S)
             + (DECIMAL_FRACTIONAL * paid) <= bound
    BY <1>3, <2>1
  <2>4. Drawable(P, LiveLockups \ (S \cup {key}))
             + (DECIMAL_FRACTIONAL * (paid + reward)) <= bound
    BY <1>1, <2>2, <2>3, ChainRewards
  <2> QED BY <1>7, <2>1, <2>4
<1>13. PICK stake \in BOOLEAN : stake = (y.deposit[p] = 0)
  OBVIOUS
<1>14. /\ PclOK(y.pcl)
       /\ DOMAIN y.pcl.lockup = DOMAIN x.pcl.lockup \cup {key}
       /\ \A k \in DOMAIN x.pcl.lockup : y.pcl.lockup[k] = x.pcl.lockup[k]
       /\ y.pcl.lockup[key].astroport_lp_transferred = NONE
       /\ y.pcl.is_staked = [x.pcl.is_staked EXCEPT ![p] = stake]
  <2>1. PclOK(x.pcl) /\ DOMAIN x.pcl.lockup = DOMAIN pcl.lockup \cup S
    BY <1>3 DEF Handed
  <2>2. key \notin DOMAIN x.pcl.lockup
    <3>1. LiveIn(lockup) = LiveLockups
      BY DEF LiveIn, LiveLockups
    <3> QED BY <1>1, <2>1, <3>1 DEF Separate
  <2>3. ~x.pcl.is_staked[p]
    BY <1>1, <1>2, <1>3
  <2>4. PICK m \in Nat : m = minted[key]
    <3>1. minted[key] \in MintedLp /\ MintedLp \subseteq Nat
      BY MigrationAssumption
    <3> QED BY <3>1
  <2>5. SentUserInfo(u) \in PclUserInfos
    BY SentInfo
  <2>6. y.pcl = pcl_handle_migrate_xyk_liquidity(x.pcl, key, m, SentUserInfo(u),
                    UnlockTimestamp(key[3]), stake)
    BY <1>1, <1>7, <1>13, <2>4
  <2> QED BY <1>1, <2>1, <2>2, <2>3, <2>5, <2>6, ArrivalKeeps
<1>15. Handed(y.pcl, S \cup {key})
  <2>1. /\ PclOK(x.pcl) /\ DOMAIN x.pcl.lockup = DOMAIN pcl.lockup \cup S
        /\ \A k \in DOMAIN pcl.lockup : x.pcl.lockup[k] = pcl.lockup[k]
        /\ \A k \in S : x.pcl.lockup[k].astroport_lp_transferred = NONE
    BY <1>3 DEF Handed
  <2>2. DOMAIN y.pcl.lockup = DOMAIN pcl.lockup \cup (S \cup {key})
    BY <1>14, <2>1
  <2>3. \A k \in DOMAIN pcl.lockup : y.pcl.lockup[k] = pcl.lockup[k]
    BY <1>14, <2>1
  <2>4. \A k \in S \cup {key} : y.pcl.lockup[k].astroport_lp_transferred = NONE
    BY <1>14, <2>1
  <2> QED BY <1>14, <2>2, <2>3, <2>4 DEF Handed
<1>16. ASSUME NEW q \in PoolType, y.pcl.is_staked[q] PROVE y.amount[q] = 0
  <2>1. x.pcl.is_staked \in [PoolType -> BOOLEAN] /\ x.amount \in [PoolType -> Nat]
    BY <1>3 DEF Handed, PclOK, PclTyped, ChainTyped
  <2>2. CASE q = p
    <3>1. stake
      BY <1>14, <1>16, <2>1, <2>2
    <3>2. y.deposit[p] = 0
      BY <1>13, <3>1
    <3> QED BY <1>1, <1>11, <2>2, <3>2
  <2>3. CASE q # p
    <3>1. x.pcl.is_staked[q]
      BY <1>14, <1>16, <2>1, <2>3
    <3> QED BY <1>3, <1>7, <2>1, <2>3, <3>1
  <2> QED BY <2>2, <2>3
<1> QED BY <1>8, <1>9, <1>10, <1>11, <1>12, <1>15, <1>16 DEF ChainOK
-----------------------------------------------------------------------------
\* The lockup records when the chain begins.
LEMMA NoneLeft ==
    ASSUME LockdropInv, NEW u \in Users
    PROVE  Left(RewardedLockups(u), u, {})
<1>1. /\ \A k \in DOMAIN lockup : lockup[k] \in LockupRecords /\ LockupReward(k) \in Nat
      /\ total_ntrn_rewards[u] \in Nat
  BY RewardNat DEF LockdropInv, LockdropTypeOK
<1>2. CASE total_ntrn_rewards[u] # 0
  BY <1>1, <1>2 DEF RewardedLockups, Left
<1>3. CASE total_ntrn_rewards[u] = 0
  <2>1. PICK l : l = RewardedLockups(u)
    OBVIOUS
  <2>2. l = [k \in DOMAIN lockup |->
                 IF k \in UserKeys(u) THEN [lockup[k] EXCEPT !.ntrn_rewards = LockupReward(k)]
                 ELSE lockup[k]]
    BY <1>3, <2>1 DEF RewardedLockups
  <2>3. ASSUME NEW k \in DOMAIN lockup
        PROVE  /\ l[k] \in LockupRecords
               /\ l[k].lp_units_locked = lockup[k].lp_units_locked
               /\ l[k].generator_ntrn_debt = lockup[k].generator_ntrn_debt
               /\ l[k].ntrn_rewards = IF k[2] = u THEN LockupReward(k) ELSE lockup[k].ntrn_rewards
               /\ l[k].astroport_lp_transferred = lockup[k].astroport_lp_transferred
    <3>1. k \in UserKeys(u) <=> k[2] = u
      BY DEF UserKeys
    <3>2. PICK old, new : old = lockup[k] /\ new = [old EXCEPT !.ntrn_rewards = LockupReward(k)]
      OBVIOUS
    <3>3. old \in LockupRecords /\ LockupReward(k) \in Nat
      BY <1>1, <3>2
    <3>4. /\ new \in LockupRecords /\ new.lp_units_locked = old.lp_units_locked
          /\ new.generator_ntrn_debt = old.generator_ntrn_debt
          /\ new.ntrn_rewards = LockupReward(k)
          /\ new.astroport_lp_transferred = old.astroport_lp_transferred
      BY <3>2, <3>3 DEF LockupRecords
    <3>5. l[k] = IF k[2] = u THEN new ELSE old
      BY <2>2, <3>1, <3>2
    <3> QED BY <3>2, <3>3, <3>4, <3>5
  <2>4. DOMAIN l = DOMAIN lockup
    BY <2>2
  <2> QED BY <1>3, <2>1, <2>3, <2>4 DEF Left
<1> QED BY <1>2, <1>3

\* The same for the live lockups of a pool.
PoolRisesBy(q, t, t2, r, rewards) ==
    /\ q \in PoolType /\ r \in Nat /\ rewards \in Nat
    /\ r * amount_in_lockups[q] <= DECIMAL_FRACTIONAL * rewards
    /\ \A k \in LiveLockups : t[k] \in Int
    /\ \A k \in LiveLockups : k[1] = q => t2[k] = t[k] + (r * lockup[k].lp_units_locked)
    /\ \A k \in LiveLockups : k[1] # q => t2[k] = t[k]

\* One pool's rate rises, and the rewards that came cover it.
LEMMA PoolRises ==
    ASSUME LockdropInv, NEW q, NEW t, NEW t2, NEW r, NEW rewards,
           PoolRisesBy(q, t, t2, r, rewards)
    PROVE  /\ SumOver(t2, LiveLockups) <= SumOver(t, LiveLockups) + (DECIMAL_FRACTIONAL * rewards)
           /\ \A k \in LiveLockups : t2[k] \in Int
<1> USE DEF PoolRisesBy
<1> DEFINE L == LiveLockups
           Q == {k \in LiveLockups : k[1] = q}
           units == [k \in DOMAIN lockup |-> lockup[k].lp_units_locked]
<1>1. /\ L \subseteq DOMAIN lockup /\ IsFiniteSet(DOMAIN lockup)
      /\ \A k \in DOMAIN lockup : lockup[k].lp_units_locked \in Nat
  BY DEF LockdropInv, LockupsKnown, LockdropTypeOK, LockupRecords, LiveLockups
<1>2. IsFiniteSet(L) /\ Q \in SUBSET L
  BY <1>1, FS_Subset
<1>3. PICK A \in Nat : A = amount_in_lockups[q]
  BY DEF LockdropInv, LockdropTypeOK
<1>4. A = SumOver(units, Q)
  BY <1>3 DEF LockdropInv, LedgersAgree, UnitsOf
<1>5. \A k \in L : t[k] \in Int /\ units[k] \in Nat
  BY <1>1
<1>6. \A k \in Q : t2[k] = t[k] + (r * units[k])
  BY <1>1
<1>7. \A k \in L \ Q : t2[k] = t[k]
  OBVIOUS
<1>8. r * A <= DECIMAL_FRACTIONAL * rewards
  BY <1>3
<1> HIDE DEF L, Q, units
<1>9. SumOver(t2, L) <= SumOver(t, L) + (DECIMAL_FRACTIONAL * rewards) /\ \A k \in L : t2[k] \in Int
  <2>1. Rises(L, Q, t, t2, units, A, r, rewards)
    BY <1>2, <1>4, <1>5, <1>6, <1>7, <1>8 DEF Rises
  <2> QED BY <2>1, RateRises
<1> QED BY <1>9 DEF L

\* The rates at which a migration pays are those that its claims leave, and
\* the rewards claimed for a pool cover the rise of its rate.
LEMMA RatesAre ==
    ASSUME LockdropInv, NEW P \in SUBSET PoolType, \A p \in P : is_staked[p],
           \A p \in P : PendingRewards(p) # 0 => PoolLpBalance(p) # 0, NEW q \in PoolType
    PROVE  /\ RateOf(P, q) \in Nat /\ ntrn_per_share[q] \in Nat
           /\ \E r \in Nat, c \in Nat :
                  /\ RateOf(P, q) = ntrn_per_share[q] + r
                  /\ c = (IF q \in P THEN PendingRewards(q) ELSE 0)
                  /\ r * amount_in_lockups[q] <= DECIMAL_FRACTIONAL * c
<1>0. ntrn_per_share[q] \in Nat /\ amount_in_lockups[q] \in Nat
  BY DEF LockdropInv, LockdropTypeOK
<1>1. CASE q \in P
  <2>1. /\ PendingRewards(q) \in Nat /\ UpdatedPerShare(q) \in Nat
        /\ \E r \in Nat : /\ UpdatedPerShare(q) = ntrn_per_share[q] + r
                          /\ r * amount_in_lockups[q] <= DECIMAL_FRACTIONAL * PendingRewards(q)
    BY <1>1, RateUpdated
  <2>2. PICK c \in Nat : c = PendingRewards(q)
    BY <2>1
  <2>3. PICK r \in Nat : /\ UpdatedPerShare(q) = ntrn_per_share[q] + r
                         /\ r * amount_in_lockups[q] <= DECIMAL_FRACTIONAL * PendingRewards(q)
    BY <2>1
  <2>4. RateOf(P, q) = UpdatedPerShare(q) /\ c = (IF q \in P THEN PendingRewards(q) ELSE 0)
    BY <1>1, <2>2 DEF RateOf
  <2>5. r * amount_in_lockups[q] <= DECIMAL_FRACTIONAL * c
    BY <2>2, <2>3
  <2> QED BY <1>0, <2>1, <2>3, <2>4, <2>5
<1>2. CASE q \notin P
  <2>1. RateOf(P, q) = ntrn_per_share[q] /\ 0 = (IF q \in P THEN PendingRewards(q) ELSE 0)
    BY <1>2 DEF RateOf
  <2>2. ntrn_per_share[q] = ntrn_per_share[q] + 0
        /\ 0 * amount_in_lockups[q] <= DECIMAL_FRACTIONAL * 0
    BY <1>0, ScaleAssumption
  <2> QED BY <1>0, <2>1, <2>2
<1> QED BY <1>1, <1>2

\* When the chain begins the rewards cover what all lockups may draw.
LEMMA StartCovered ==
    ASSUME LockdropInv, GeneratorKnown, NEW P \in SUBSET PoolType, \A p \in P : is_staked[p],
           \A p \in P : PendingRewards(p) # 0 => PoolLpBalance(p) # 0
    PROVE  Drawable(P, LiveLockups) <= DECIMAL_FRACTIONAL * Available(P)
<1> DEFINE F == DECIMAL_FRACTIONAL
           L == LiveLockups
           t == [k \in DOMAIN lockup |-> Undrawn(k)]
           t2 == [k \in DOMAIN lockup |-> UndrawnAt(P, k)]
           t1 == [k \in DOMAIN lockup |-> IF k[1] = "ATOM" THEN t2[k] ELSE t[k]]
<1>1. PICK ra \in Nat, ca \in Nat :
          /\ RateOf(P, "ATOM") = ntrn_per_share["ATOM"] + ra
          /\ ca = (IF "ATOM" \in P THEN PendingRewards("ATOM") ELSE 0)
          /\ ra * amount_in_lockups["ATOM"] <= F * ca
  <2>1. "ATOM" \in PoolType
    BY DEF PoolType
  <2> QED BY <2>1, RatesAre
<1>2. PICK ru \in Nat, cu \in Nat :
          /\ RateOf(P, "USDC") = ntrn_per_share["USDC"] + ru
          /\ cu = (IF "USDC" \in P THEN PendingRewards("USDC") ELSE 0)
          /\ ru * amount_in_lockups["USDC"] <= F * cu
  <2>1. "USDC" \in PoolType
    BY DEF PoolType
  <2> QED BY <2>1, RatesAre
<1>3. \A k \in DOMAIN lockup : k[1] \in {"ATOM", "USDC"}
  BY DEF LockdropInv, LockdropTypeOK, Keys, PoolType
<1>4. ASSUME NEW k \in DOMAIN lockup, NEW r \in Nat, RateOf(P, k[1]) = ntrn_per_share[k[1]] + r
      PROVE  t[k] \in Int /\ t2[k] = t[k] + (r * lockup[k].lp_units_locked)
  <2>1. PICK a \in Nat, b \in Nat, n \in Nat, f \in Nat :
            /\ a = lockup[k].lp_units_locked /\ b = lockup[k].generator_ntrn_debt
            /\ n = ntrn_per_share[k[1]] /\ f = F
    <3>1. lockup[k].lp_units_locked \in Nat /\ lockup[k].generator_ntrn_debt \in Nat
      BY DEF LockdropInv, LockdropTypeOK, LockupRecords
    <3>2. ntrn_per_share[k[1]] \in Nat
      BY <1>3 DEF LockdropInv, LockdropTypeOK, PoolType
    <3> QED BY <3>1, <3>2, ScaleAssumption
  <2>2. t[k] = (a * n) - (f * b)
    BY <2>1 DEF Undrawn
  <2>3. t2[k] = (a * (n + r)) - (f * b)
    BY <1>4, <2>1 DEF UndrawnAt
  <2>4. PICK an \in Nat, fb \in Nat, ar \in Nat : an = a * n /\ fb = f * b /\ ar = r * a
    OBVIOUS
  <2>5. a * (n + r) = an + ar
    BY <2>4
  <2>6. t[k] = an - fb /\ t2[k] = (an + ar) - fb
    BY <2>2, <2>3, <2>4, <2>5
  <2>7. t[k] \in Int /\ t2[k] = t[k] + ar
    BY <2>6
  <2> QED BY <2>1, <2>4, <2>7
<1>5. L \subseteq DOMAIN lockup
  BY DEF LiveLockups
<1>6. \A k \in L : t[k] \in Int
  BY <1>1, <1>2, <1>3, <1>4, <1>5
<1>7. /\ \A k \in L : k[1] = "ATOM" => t1[k] = t[k] + (ra * lockup[k].lp_units_locked)
      /\ \A k \in L : k[1] # "ATOM" => t1[k] = t[k]
  <2>1. ASSUME NEW k \in L, k[1] = "ATOM" PROVE t1[k] = t[k] + (ra * lockup[k].lp_units_locked)
    <3>1. t2[k] = t[k] + (ra * lockup[k].lp_units_locked)
      BY <1>1, <1>4, <1>5, <2>1
    <3> QED BY <1>5, <2>1, <3>1
  <2>2. ASSUME NEW k \in L, k[1] # "ATOM" PROVE t1[k] = t[k]
    BY <1>5, <2>2
  <2> QED BY <2>1, <2>2
<1>8. /\ \A k \in L : k[1] = "USDC" => t2[k] = t1[k] + (ru * lockup[k].lp_units_locked)
      /\ \A k \in L : k[1] # "USDC" => t2[k] = t1[k]
  <2>1. ASSUME NEW k \in L, k[1] = "USDC" PROVE t2[k] = t1[k] + (ru * lockup[k].lp_units_locked)
    <3>1. t2[k] = t[k] + (ru * lockup[k].lp_units_locked)
      BY <1>2, <1>4, <1>5, <2>1
    <3>2. t1[k] = t[k]
      BY <1>5, <2>1
    <3> QED BY <3>1, <3>2
  <2>2. ASSUME NEW k \in L, k[1] # "USDC" PROVE t2[k] = t1[k]
    <3>1. k[1] = "ATOM"
      BY <1>3, <1>5, <2>2
    <3> QED BY <1>5, <3>1
  <2> QED BY <2>1, <2>2
<1>9. SumOver(t, L) <= F * reward_balance
  BY DEF LockdropInv, FractionsCovered
<1>10. Drawable(P, L) = SumOver(t2, L)
  BY DEF Drawable
<1>11. F * Available(P) = (F * reward_balance) + ((F * ca) + (F * cu))
  <2> DEFINE f == [p \in PoolType |-> PendingRewards(p)]
  <2>1. \A p \in PoolType : f[p] \in Nat
    BY AvailableNat
  <2>2. f["ATOM"] = PendingRewards("ATOM") /\ f["USDC"] = PendingRewards("USDC")
    BY DEF PoolType
  <2>3. Available(P) = reward_balance + SumOver(f, P)
    BY DEF Available
  <2> HIDE DEF f
  <2>4. SumOver(f, P) = (IF "ATOM" \in P THEN f["ATOM"] ELSE 0)
                            + (IF "USDC" \in P THEN f["USDC"] ELSE 0)
    BY <2>1, PoolsSum
  <2>5. SumOver(f, P) = ca + cu
    BY <1>1, <1>2, <2>2, <2>4
  <2>6. PICK b \in Nat, d \in Nat : b = reward_balance /\ d = F
    BY ScaleAssumption DEF LockdropInv, LockdropTypeOK
  <2>7. d * (b + (ca + cu)) = (d * b) + ((d * ca) + (d * cu))
    BY ONLY b \in Nat, d \in Nat, ca \in Nat, cu \in Nat
  <2> QED BY <2>3, <2>5, <2>6, <2>7
<1>12. /\ "ATOM" \in PoolType /\ "USDC" \in PoolType /\ IsFiniteSet(L)
  BY <1>5, FS_Subset DEF PoolType, LockdropInv, LockupsKnown
<1> HIDE DEF t, t1, t2
<1>13. SumOver(t1, L) <= SumOver(t, L) + (F * ca) /\ \A k \in L : t1[k] \in Int
  <2>1. PoolRisesBy("ATOM", t, t1, ra, ca)
    BY <1>1, <1>6, <1>7, <1>12 DEF PoolRisesBy
  <2> QED BY <2>1, PoolRises
<1>14. SumOver(t2, L) <= SumOver(t1, L) + (F * cu) /\ \A k \in L : t2[k] \in Int
  <2>1. PoolRisesBy("USDC", t1, t2, ru, cu)
    BY <1>2, <1>8, <1>12, <1>13 DEF PoolRisesBy
  <2> QED BY <2>1, PoolRises
<1>15. SumOver(t, L) \in Int /\ SumOver(t1, L) \in Int /\ SumOver(t2, L) \in Int
  BY <1>6, <1>12, <1>13, <1>14, SumInt
<1>16. PICK a \in Int, b \in Int, c \in Nat : a = F * ca /\ b = F * cu /\ c = F * reward_balance
  <2>1. reward_balance \in Nat /\ F \in Nat
    BY ScaleAssumption DEF LockdropInv, LockdropTypeOK
  <2> HIDE DEF F
  <2>2. F * ca \in Int /\ F * cu \in Int /\ F * reward_balance \in Nat
    BY ONLY <2>1, ca \in Nat, cu \in Nat
  <2> QED BY <2>2
<1>17. SumOver(t2, L) <= c + (a + b)
  BY <1>9, <1>13, <1>14, <1>15, <1>16
<1> QED BY <1>10, <1>11, <1>16, <1>17

\* The books when the chain begins.
ChainStart(u) ==
    [ok |-> TRUE, amount |-> amount_in_lockups,
     deposit |-> gen_deposit[lockdrop_config.generator],
     user_total |-> [p \in PoolType |-> total_user_lockup[p][u]],
     rewards |-> 0, lockup |-> RewardedLockups(u), pcl |-> pcl]

\* The handler's conditions on the pools of a user.
PoolsReady(P) ==
    /\ \A p \in P : is_staked[p]
    /\ \A p \in P : PendingRewards(p) # 0 => PoolLpBalance(p) # 0

\* The induction hypothesis holds when the chain begins.
LEMMA ChainStartOK ==
    ASSUME MigrationInv, NEW u \in Users, NEW P \in SUBSET PoolType, PoolsReady(P),
           NEW x, x = ChainStart(u)
    PROVE  ChainOK(u, P, {}, x)
<1>1. /\ LockdropInv /\ LockdropTypeOK /\ GeneratorKnown /\ PclOK(pcl)
      /\ Separate(lockup, amount_in_lockups, pcl)
  BY DEF MigrationInv, LockdropInv
<1>2. /\ ChainRecord(x) /\ x.amount = amount_in_lockups
      /\ x.deposit = gen_deposit[lockdrop_config.generator]
      /\ x.user_total = [p \in PoolType |-> total_user_lockup[p][u]]
      /\ x.rewards = 0 /\ x.lockup = RewardedLockups(u) /\ x.pcl = pcl
  BY DEF ChainStart, ChainRecord
<1>3. ChainTyped(x)
  BY <1>1, <1>2 DEF ChainTyped, LockdropTypeOK, GeneratorKnown
<1>4. Left(x.lockup, u, {})
  BY <1>1, <1>2, NoneLeft
<1>5. UnitsAgree(x.lockup, x.amount, UserTotals(u, x.user_total))
  <2>1. LiveIn(x.lockup) = LiveLockups
    BY <1>1, <1>4, LeftLive
  <2>2. LiveLockups = LiveIn(lockup)
    BY DEF LiveLockups, LiveIn
  <2>3. [k \in DOMAIN x.lockup |-> x.lockup[k].lp_units_locked]
            = [k \in DOMAIN lockup |-> lockup[k].lp_units_locked]
    BY <1>4 DEF Left
  <2>4. UnitsAgree(lockup, amount_in_lockups, total_user_lockup)
    BY <1>1, LedgersAre DEF LockdropInv
  <2>5. \A q \in PoolType, v \in Users : UserTotals(u, x.user_total)[q][v] = total_user_lockup[q][v]
    BY <1>1, <1>2 DEF LockdropTypeOK, UserTotals
  <2>6. \A T : UnitsIn(x.lockup, T) = UnitsIn(lockup, T)
    BY <2>3 DEF UnitsIn
  <2> QED BY <1>2, <2>1, <2>2, <2>4, <2>5, <2>6 DEF UnitsAgree
<1>6. \A p \in PoolType : x.deposit[p] =
          IF is_staked[p] THEN x.amount[p] ELSE gen_deposit[lockdrop_config.generator][p]
  BY <1>1, <1>2 DEF LockdropInv, LockupsWhole
<1>7. Drawable(P, LiveLockups \ {}) + (DECIMAL_FRACTIONAL * x.rewards)
          <= DECIMAL_FRACTIONAL * Available(P)
  <2>1. Drawable(P, LiveLockups) <= DECIMAL_FRACTIONAL * Available(P)
    BY <1>1, StartCovered DEF PoolsReady
  <2>2. LiveLockups \ {} = LiveLockups /\ DECIMAL_FRACTIONAL * x.rewards = 0
    BY <1>2, ScaleAssumption
  <2>3. Drawable(P, LiveLockups) \in Int
    <3>1. LiveLockups \subseteq DOMAIN lockup /\ IsFiniteSet(LiveLockups)
      BY <1>1, FS_Subset DEF LockdropInv, LockupsKnown, LiveLockups
    <3>2. ASSUME NEW k \in DOMAIN lockup PROVE UndrawnAt(P, k) \in Int
      <4>1. k[1] \in PoolType /\ lockup[k].lp_units_locked \in Nat
            /\ lockup[k].generator_ntrn_debt \in Nat
        BY <1>1 DEF LockdropTypeOK, LockupRecords, Keys
      <4>2. RateOf(P, k[1]) \in Nat
        BY <1>1, <4>1, RatesAre DEF PoolsReady
      <4>3. PICK a \in Nat, b \in Nat, c \in Nat, d \in Nat :
                /\ a = lockup[k].lp_units_locked /\ b = RateOf(P, k[1])
                /\ c = lockup[k].generator_ntrn_debt /\ d = DECIMAL_FRACTIONAL
        BY <4>1, <4>2, ScaleAssumption
      <4>4. (a * b) - (d * c) \in Int
        OBVIOUS
      <4> QED BY <4>3, <4>4 DEF UndrawnAt
    <3> DEFINE f == [k \in DOMAIN lockup |-> UndrawnAt(P, k)]
    <3>3. \A k \in LiveLockups : f[k] \in Int
      BY <3>1, <3>2
    <3> HIDE DEF f
    <3>4. SumOver(f, LiveLockups) \in Int
      BY <3>1, <3>3, SumInt
    <3> QED BY <3>4 DEF f, Drawable
  <2> QED BY <2>1, <2>2, <2>3
<1>8. Handed(x.pcl, {})
  BY <1>1, <1>2 DEF Handed
<1>9. \A p \in PoolType : x.pcl.is_staked[p] => x.amount[p] = 0
  BY <1>1, <1>2 DEF Separate
<1> QED BY <1>3, <1>4, <1>5, <1>6, <1>7, <1>8, <1>9 DEF ChainOK

\* What a chain that does not fail leaves: all lockups of the user have come to
\* the other contract, and all books agree.
LEMMA ChainKeeps ==
    ASSUME MigrationInv, NEW u \in Users, NEW P, P = PoolsOf(u), PoolsReady(P),
           NEW minted \in [MineOf(u) -> MintedLp], NEW done,
           done = Migrated(MineOf(u), ChainStart(u), minted), done.ok
    PROVE  ChainOK(u, P, MineOf(u), done)
<1> DEFINE mine == MineOf(u)
           start == ChainStart(u)
<1>1. LockdropInv /\ GeneratorKnown /\ Separate(lockup, amount_in_lockups, pcl)
  BY DEF MigrationInv
<1>2. KeysOf(u, mine) /\ P \in SUBSET PoolType /\ IsFiniteSet(mine)
  BY <1>1, MineAre DEF KeysOf
<1>3. PICK h : Chains(h, mine, start, minted) /\ done = h[mine]
  BY <1>2, MigratedIsChain
<1> DEFINE Good(S) == ChainRecord(h[S]) /\ (h[S].ok => ChainOK(u, P, S, h[S]))
           T == {S \in SUBSET mine : ~Good(S)}
<1>4. ASSUME NEW S \in SUBSET mine
      PROVE  h[S] = IF S = {} THEN start
                    ELSE MigrateLockup(h[S \ {LastMigrated(S)}], LastMigrated(S), minted)
  BY <1>3 DEF Chains
<1>5. Good({})
  <2>1. h[{}] = start
    BY <1>4
  <2>2. ChainOK(u, P, {}, start)
    BY <1>2, ChainStartOK
  <2> QED BY <2>1, <2>2 DEF ChainOK, ChainTyped
<1>6. ASSUME NEW S \in SUBSET mine, S # {}, Good(S \ {LastMigrated(S)}) PROVE Good(S)
  <2>1. PICK key, R : key = LastMigrated(S) /\ R = S \ {key}
    OBVIOUS
  <2>2. key \in S
    <3>1. KeysOf(u, S)
      BY <1>2, FS_Subset DEF KeysOf
    <3> QED BY <1>6, <2>1, <3>1, LastIn
  <2>3. R \in SUBSET mine /\ key \in mine \ R /\ S = R \cup {key}
    BY <2>1, <2>2
  <2>4. PICK x, y : x = h[R] /\ y = h[S] /\ y = MigrateLockup(x, key, minted)
    BY <1>4, <1>6, <2>1
  <2>5. ChainRecord(x) /\ (x.ok => ChainOK(u, P, R, x))
    BY <1>6, <2>1, <2>4
  <2>6. ChainRecord(y)
    BY <2>4, <2>5, ChainStepRecord
  <2>7. \A p \in PoolType : RateOf(P, p) \in Nat
    BY <1>1, <1>2, RatesAre DEF PoolsReady
  <2>8. ASSUME y.ok PROVE ChainOK(u, P, R \cup {key}, y)
    <3>1. \A p \in P : is_staked[p]
      BY DEF PoolsReady
    <3> QED BY <1>1, <1>2, <2>3, <2>4, <2>5, <2>7, <2>8, <3>1, ChainStepKeeps
  <2> QED BY <2>3, <2>4, <2>6, <2>8
<1>7. ASSUME T # {} PROVE FALSE
  <2>1. PICK S \in T : \A r \in T : ~(r \subseteq S /\ r # S)
    <3>1. T \subseteq SUBSET mine
      OBVIOUS
    <3> HIDE DEF T, mine
    <3> QED BY <1>2, <1>7, <3>1, MinimalSet
  <2>2. S \in SUBSET mine /\ ~Good(S)
    OBVIOUS
  <2>3. S # {}
    BY <1>5, <2>2
  <2>4. LastMigrated(S) \in S
    <3>1. KeysOf(u, S)
      BY <1>2, <2>2, FS_Subset DEF KeysOf
    <3> QED BY <2>3, <3>1, LastIn
  <2>5. S \ {LastMigrated(S)} \notin T
    BY <2>1, <2>4
  <2>6. Good(S \ {LastMigrated(S)})
    BY <2>2, <2>5
  <2> QED BY <1>6, <2>2, <2>3, <2>6
<1>8. Good(mine)
  BY <1>7
<1> QED BY <1>3, <1>8
-----------------------------------------------------------------------------
(***************************************************************************)
(* The transaction as a whole.                                              *)
(***************************************************************************)
MigratesTo(u, P, done) ==
    /\ ChainOK(u, P, MineOf(u), done)
    /\ u \in participants /\ done.rewards <= Available(P)
    /\ total_ntrn_rewards' = [total_ntrn_rewards EXCEPT ![u] = UserReward(u)]
    /\ lockup' = done.lockup /\ amount_in_lockups' = done.amount /\ pcl' = done.pcl
    /\ total_user_lockup' = UserTotals(u, done.user_total)
    /\ ntrn_per_share' = [p \in PoolType |-> RateOf(P, p)]
    /\ gen_deposit' = [gen_deposit EXCEPT ![lockdrop_config.generator] = done.deposit]
    /\ gen_pending' = [gen_pending EXCEPT ![lockdrop_config.generator] =
           [p \in PoolType |-> IF p \in P THEN 0 ELSE gen_pending[lockdrop_config.generator][p]]]
    /\ reward_balance' = Available(P) - done.rewards
    /\ UNCHANGED <<now, lockdrop_config, pools_set, weighted_amount, incentives_share,
                   is_staked, total_incentives_share, participants, positions,
                   gen_reserve, lp_held, received_lp, lockdrop_migrated>>

\* The one time reward of the user is paid, if there is anything to migrate and
\* it was not paid before.
MigrationPays(u) ==
    IF MineOf(u) = {} \/ ntrn_transferred[u]
    THEN UNCHANGED <<incentives_balance, received_ntrn, ntrn_transferred>>
    ELSE PayOneTimeReward(u, UserReward(u))

\* That is what the handler does.
LEMMA MigrationIs ==
    ASSUME MigrationInv, NEW u \in Users, NEW minted \in [MineOf(u) -> MintedLp],
           handle_migrate_liquidity_to_pcl_pools(u, minted)
    PROVE  /\ MigrationPays(u) /\ PoolsOf(u) \in SUBSET PoolType /\ PoolsReady(PoolsOf(u))
           /\ \E done : MigratesTo(u, PoolsOf(u), done)
<1>1. LockdropInv /\ GeneratorKnown
  BY DEF MigrationInv
<1>2. PICK P : P = PoolsOf(u) /\ P \in SUBSET PoolType
  BY <1>1, MineAre
<1>3. PICK done : done = Migrated(MineOf(u), ChainStart(u), minted)
  OBVIOUS
<1>4. PoolsReady(P)
  <2>1. MineOf(u) = {} => P = {}
    BY <1>2 DEF PoolsOf
  <2>2. /\ MineOf(u) # {} => \A p \in P : is_staked[p]
        /\ \A p \in P : PendingRewards(p) # 0 => PoolLpBalance(p) # 0
    BY <1>2 DEF handle_migrate_liquidity_to_pcl_pools, MineOf, PoolsOf
  <2> QED BY <2>1, <2>2 DEF PoolsReady
<1>5. done.ok
  BY <1>3 DEF handle_migrate_liquidity_to_pcl_pools, MineOf, ChainStart
<1>6. ChainOK(u, P, MineOf(u), done)
  BY <1>2, <1>3, <1>4, <1>5, ChainKeeps
<1>7. /\ u \in participants
      /\ total_ntrn_rewards' = [total_ntrn_rewards EXCEPT ![u] = UserReward(u)]
      /\ UNCHANGED <<now, lockdrop_config, pools_set, weighted_amount, incentives_share,
                     is_staked, total_incentives_share, participants, positions,
                     gen_reserve, lp_held, received_lp, lockdrop_migrated>>
  BY DEF handle_migrate_liquidity_to_pcl_pools
<1>8. /\ lockup' = done.lockup /\ amount_in_lockups' = done.amount /\ pcl' = done.pcl
      /\ gen_deposit' = [gen_deposit EXCEPT ![lockdrop_config.generator] = done.deposit]
  BY <1>3 DEF handle_migrate_liquidity_to_pcl_pools, MineOf, ChainStart
<1>9. total_user_lockup' = UserTotals(u, done.user_total)
  BY <1>3 DEF handle_migrate_liquidity_to_pcl_pools, MineOf, ChainStart, UserTotals
<1>10. ntrn_per_share' = [p \in PoolType |-> RateOf(P, p)]
  BY <1>2 DEF handle_migrate_liquidity_to_pcl_pools, MineOf, PoolsOf, RateOf
<1>11. gen_pending' = [gen_pending EXCEPT ![lockdrop_config.generator] =
           [p \in PoolType |-> IF p \in P THEN 0 ELSE gen_pending[lockdrop_config.generator][p]]]
  <2>1. lockdrop_config.generator \in DOMAIN gen_pending
    BY <1>1 DEF GeneratorKnown, LockdropInv, LockdropTypeOK
  <2>2. gen_pending' = [gen_pending EXCEPT ![lockdrop_config.generator] =
            [p \in PoolType |-> IF p \in PoolsOf(u) THEN 0 ELSE @[p]]]
    BY DEF handle_migrate_liquidity_to_pcl_pools, MineOf, PoolsOf
  <2> QED BY <1>2, <2>1, <2>2
<1>12. /\ done.rewards <= reward_balance + SumOver([p \in PoolType |-> PendingRewards(p)], P)
       /\ reward_balance' = reward_balance
              + SumOver([p \in PoolType |-> PendingRewards(p)], P) - done.rewards
  BY <1>2, <1>3 DEF handle_migrate_liquidity_to_pcl_pools, MineOf, PoolsOf, ChainStart
<1>13. done.rewards <= Available(P) /\ reward_balance' = Available(P) - done.rewards
  <2>1. PICK a \in Nat, b \in Nat, c \in Nat :
            /\ a = reward_balance /\ b = SumOver([p \in PoolType |-> PendingRewards(p)], P)
            /\ c = done.rewards
    <3>1. SumOver([p \in PoolType |-> PendingRewards(p)], P) \in Nat
      BY <1>1, <1>2, AvailableNat
    <3>2. reward_balance \in Nat /\ done.rewards \in Nat
      BY <1>1, <1>6 DEF LockdropInv, LockdropTypeOK, ChainOK, ChainTyped
    <3> QED BY <3>1, <3>2
  <2>2. Available(P) = a + b
    BY <2>1 DEF Available
  <2>3. reward_balance' = a + (b - c) /\ c <= a + b
    BY <1>12, <2>1
  <2> QED BY <2>1, <2>2, <2>3
<1>14. MigrationPays(u)
  <2>1. CASE MineOf(u) = {} \/ ntrn_transferred[u]
    <3>1. UNCHANGED <<incentives_balance, received_ntrn, ntrn_transferred>>
      BY <2>1 DEF handle_migrate_liquidity_to_pcl_pools, MineOf
    <3> QED BY <2>1, <3>1 DEF MigrationPays
  <2>2. CASE ~(MineOf(u) = {} \/ ntrn_transferred[u])
    <3>1. PayOneTimeReward(u, UserReward(u))
      BY <2>2 DEF handle_migrate_liquidity_to_pcl_pools, MineOf
    <3> QED BY <2>2, <3>1 DEF MigrationPays
  <2> QED BY <2>1, <2>2
<1>15. MigratesTo(u, P, done)
  BY <1>6, <1>7, <1>8, <1>9, <1>10, <1>11, <1>13 DEF MigratesTo
<1> QED BY <1>2, <1>4, <1>14, <1>15

\* What is live, here and there, after the transaction.
LEMMA MigrationLive ==
    ASSUME MigrationInv, NEW u \in Users, NEW P, NEW done, MigratesTo(u, P, done)
    PROVE  /\ DOMAIN lockup' = DOMAIN lockup /\ LiveLockups' = LiveLockups \ MineOf(u)
           /\ Left(lockup', u, MineOf(u)) /\ Handed(pcl', MineOf(u))
<1>1. Left(lockup', u, MineOf(u)) /\ Handed(pcl', MineOf(u))
  BY DEF MigratesTo, ChainOK
<1>2. LockdropInv /\ MineOf(u) \in SUBSET LiveLockups
  BY DEF MigrationInv, MineOf
<1>3. LiveIn(lockup') = LiveLockups \ MineOf(u)
  BY <1>1, <1>2, LeftLive
<1>4. LiveIn(lockup') = LiveLockups'
  BY DEF LiveIn, LiveLockups
<1> QED BY <1>1, <1>3, <1>4 DEF Left

\* The types after the transaction.
LEMMA MigrationTyped ==
    ASSUME MigrationInv, NEW u \in Users, NEW P \in SUBSET PoolType, PoolsReady(P), NEW done,
           MigratesTo(u, P, done), MigrationPays(u)
    PROVE  LockdropTypeOK' /\ LockupsKnown' /\ now' \in Nat
<1>1. /\ LockdropInv /\ LockdropTypeOK /\ LockupsKnown /\ GeneratorKnown /\ UserReward(u) \in Nat
      /\ now \in Nat /\ ChainTyped(done)
  BY RewardNat DEF MigrationInv, LockdropInv, MigratesTo, ChainOK
<1>2. /\ DOMAIN lockup' = DOMAIN lockup /\ \A k \in DOMAIN lockup : lockup'[k] \in LockupRecords
      /\ UNCHANGED <<now, participants>>
  BY MigrationLive DEF Left, MigratesTo
<1>3. LockupsKnown' /\ now' \in Nat
  BY <1>1, <1>2 DEF LockupsKnown
<1>4. /\ amount_in_lockups' \in [PoolType -> Nat]
      /\ gen_deposit' \in [Generators -> [PoolType -> Nat]]
  BY <1>1 DEF MigratesTo, ChainTyped, LockdropTypeOK
<1>5. total_user_lockup' \in [PoolType -> [Users -> Nat]]
  <2>1. done.user_total \in [PoolType -> Nat] /\ total_user_lockup \in [PoolType -> [Users -> Nat]]
    BY <1>1 DEF ChainTyped, LockdropTypeOK
  <2>2. ASSUME NEW p \in PoolType
        PROVE  [total_user_lockup[p] EXCEPT ![u] = done.user_total[p]] \in [Users -> Nat]
    BY <2>1
  <2> QED BY <2>2 DEF MigratesTo, UserTotals
<1>6. ntrn_per_share' \in [PoolType -> Nat]
  <2>1. \A p \in PoolType : RateOf(P, p) \in Nat
    BY <1>1, RatesAre DEF PoolsReady
  <2> QED BY <2>1 DEF MigratesTo
<1>7. gen_pending' \in [Generators -> [PoolType -> Nat]]
  <2>1. PICK f : f = [p \in PoolType |-> IF p \in P THEN 0
                                         ELSE gen_pending[lockdrop_config.generator][p]]
    OBVIOUS
  <2>2. f \in [PoolType -> Nat]
    BY <1>1, <2>1 DEF LockdropTypeOK, GeneratorKnown
  <2>3. gen_pending' = [gen_pending EXCEPT ![lockdrop_config.generator] = f]
    BY <2>1 DEF MigratesTo
  <2> QED BY <1>1, <2>2, <2>3 DEF LockdropTypeOK
<1>8. reward_balance' \in Nat
  <2>1. Available(P) \in Nat /\ done.rewards \in Nat
    BY <1>1, AvailableNat DEF ChainTyped
  <2> QED BY <2>1 DEF MigratesTo
<1>9. total_ntrn_rewards' \in [Users -> Nat]
  BY <1>1 DEF MigratesTo, LockdropTypeOK
<1>10. /\ incentives_balance' \in Nat /\ received_ntrn' \in [Users -> Nat]
       /\ ntrn_transferred' \in [Users -> BOOLEAN]
  <2>1. CASE MineOf(u) = {} \/ ntrn_transferred[u]
    BY <1>1, <2>1 DEF MigrationPays, LockdropTypeOK
  <2>2. CASE ~(MineOf(u) = {} \/ ntrn_transferred[u])
    <3>1. PICK b \in Nat, r \in Nat, c \in Nat :
              b = incentives_balance /\ r = UserReward(u) /\ c = received_ntrn[u]
      BY <1>1 DEF LockdropTypeOK
    <3>2. /\ r <= b /\ incentives_balance' = b - r
          /\ received_ntrn' = [received_ntrn EXCEPT ![u] = c + r]
          /\ ntrn_transferred' = [ntrn_transferred EXCEPT ![u] = TRUE]
      BY <2>2, <3>1 DEF MigrationPays, PayOneTimeReward
    <3>3. b - r \in Nat /\ c + r \in Nat
      BY <3>1, <3>2
    <3> QED BY <1>1, <3>2, <3>3 DEF LockdropTypeOK
  <2> QED BY <2>1, <2>2
<1>11. LockdropTypeOK'
  BY <1>1, <1>2, <1>4, <1>5, <1>6, <1>7, <1>8, <1>9, <1>10 DEF LockdropTypeOK, MigratesTo
<1> QED BY <1>3, <1>11

\* The ledgers and the stakes after the transaction.
LEMMA MigrationBooks ==
    ASSUME MigrationInv, NEW u \in Users, NEW P \in SUBSET PoolType, PoolsReady(P),
           P = PoolsOf(u), NEW done, MigratesTo(u, P, done)
    PROVE  LedgersAgree' /\ UnstakedOK' /\ StakedOK' /\ NothingHeld' /\ LockupsWhole'
<1> DEFINE g == lockdrop_config.generator
<1>1. /\ LockdropInv /\ LockdropTypeOK /\ g \in Generators
      /\ UnstakedOK /\ LockupsWhole /\ StakedOK /\ NothingHeld
  BY DEF MigrationInv, LockdropInv, GeneratorKnown
<1>2. /\ DOMAIN lockup' = DOMAIN lockup /\ LiveLockups' = LiveLockups \ MineOf(u)
      /\ Left(lockup', u, MineOf(u))
  BY MigrationLive
<1>3. UNCHANGED <<lockdrop_config, is_staked, incentives_share, positions, participants, lp_held>>
  BY DEF MigratesTo
<1>4. StakedOK' /\ NothingHeld'
  BY <1>1, <1>3 DEF StakedOK, NothingHeld
<1>5. LedgersAgree'
  <2>1. UnitsAgree(lockup', amount_in_lockups', total_user_lockup')
    BY DEF MigratesTo, ChainOK
  <2>2. PositionsAgree(lockup, positions)
    BY <1>1, LedgersAre DEF LockdropInv
  <2>3. PositionsAgree(lockup', positions')
    BY <1>2, <1>3, <2>2 DEF PositionsAgree
  <2> QED BY <2>1, <2>3, LedgersAre
<1>6. /\ gen_deposit' = [gen_deposit EXCEPT ![g] = done.deposit]
      /\ \A p \in PoolType : done.deposit[p] = IF is_staked[p] THEN done.amount[p]
                                               ELSE gen_deposit[g][p]
      /\ amount_in_lockups' = done.amount /\ ntrn_per_share' = [p \in PoolType |-> RateOf(P, p)]
  BY DEF MigratesTo, ChainOK
<1>7. \A h \in Generators : gen_deposit'[h] = IF h = g THEN done.deposit ELSE gen_deposit[h]
  BY <1>1, <1>6 DEF LockdropTypeOK
<1>8. UnstakedOK'
  <2> SUFFICES ASSUME NEW p \in PoolType, ~is_staked'[p]
               PROVE  /\ ntrn_per_share'[p] = 0 /\ incentives_share'[p] = 0
                      /\ \A h \in Generators : gen_deposit'[h][p] = 0
                      /\ \A k \in DOMAIN lockup' : k[1] = p =>
                             /\ lockup'[k].astroport_lp_transferred = NONE
                             /\ lockup'[k].generator_ntrn_debt = 0
    BY DEF UnstakedOK
  <2>1. /\ ~is_staked[p] /\ p \notin P
        /\ ntrn_per_share[p] = 0 /\ incentives_share[p] = 0
        /\ \A h \in Generators : gen_deposit[h][p] = 0
        /\ \A k \in DOMAIN lockup : k[1] = p =>
               /\ lockup[k].astroport_lp_transferred = NONE
               /\ lockup[k].generator_ntrn_debt = 0
    BY <1>1, <1>3 DEF UnstakedOK, PoolsReady
  <2>2. ntrn_per_share'[p] = 0 /\ incentives_share'[p] = 0
    BY <1>3, <1>6, <2>1 DEF RateOf
  <2>3. \A h \in Generators : gen_deposit'[h][p] = 0
    BY <1>1, <1>6, <1>7, <2>1
  <2>4. ASSUME NEW k \in DOMAIN lockup', k[1] = p
        PROVE  lockup'[k].astroport_lp_transferred = NONE /\ lockup'[k].generator_ntrn_debt = 0
    <3>1. k \notin MineOf(u)
      BY <2>1, <2>4 DEF PoolsOf
    <3> QED BY <1>2, <2>1, <2>4, <3>1 DEF Left
  <2> QED BY <2>2, <2>3, <2>4
<1>9. LockupsWhole'
  <2>1. ASSUME NEW p \in PoolType, is_staked'[p]
        PROVE  gen_deposit'[lockdrop_config'.generator][p] = amount_in_lockups'[p]
    BY <1>1, <1>3, <1>6, <1>7, <2>1
  <2>2. ASSUME NEW k \in DOMAIN lockup' \ LiveLockups'
        PROVE  lockup'[k].astroport_lp_transferred = lockup'[k].lp_units_locked
    <3>1. k \in DOMAIN lockup
      BY <1>2
    <3>2. CASE k \in MineOf(u)
      BY <1>2, <3>1, <3>2 DEF Left
    <3>3. CASE k \notin MineOf(u)
      <4>1. k \in DOMAIN lockup \ LiveLockups
        BY <1>2, <2>2, <3>3
      <4>2. lockup[k].astroport_lp_transferred = lockup[k].lp_units_locked
        BY <1>1, <4>1 DEF LockupsWhole
      <4> QED BY <1>2, <3>1, <3>3, <4>2 DEF Left
    <3> QED BY <3>2, <3>3
  <2> QED BY <2>1, <2>2 DEF LockupsWhole
<1> QED BY <1>4, <1>5, <1>8, <1>9

\* The generator rewards after the transaction.
LEMMA MigrationFractions ==
    ASSUME MigrationInv, NEW u \in Users, NEW P \in SUBSET PoolType, PoolsReady(P), NEW done,
           MigratesTo(u, P, done), LockdropTypeOK'
    PROVE  FractionsCovered'
<1> DEFINE t == [k \in DOMAIN lockup |-> UndrawnAt(P, k)]
           F == DECIMAL_FRACTIONAL
           L == LiveLockups \ MineOf(u)
<1>1. LockdropInv /\ LockdropTypeOK /\ FractionsCovered /\ GeneratorKnown
  BY DEF MigrationInv, LockdropInv
<1>2. /\ DOMAIN lockup' = DOMAIN lockup /\ LiveLockups' = L /\ L \subseteq DOMAIN lockup
      /\ \A k \in DOMAIN lockup :
             /\ lockup'[k].lp_units_locked = lockup[k].lp_units_locked
             /\ lockup'[k].generator_ntrn_debt = lockup[k].generator_ntrn_debt
             /\ lockup[k].lp_units_locked \in Nat /\ lockup[k].generator_ntrn_debt \in Nat
             /\ k[1] \in PoolType
  <2>1. /\ DOMAIN lockup' = DOMAIN lockup /\ LiveLockups' = L /\ L \subseteq DOMAIN lockup
        /\ Left(lockup', u, MineOf(u))
    BY MigrationLive DEF LiveLockups
  <2>2. \A k \in DOMAIN lockup : lockup[k] \in LockupRecords /\ k \in Keys
    BY <1>1 DEF LockdropTypeOK
  <2> QED BY <2>1, <2>2 DEF Left, LockupRecords, Keys
<1>3. ASSUME NEW p \in PoolType
      PROVE  /\ ntrn_per_share'[p] = RateOf(P, p) /\ RateOf(P, p) \in Nat
             /\ ntrn_per_share[p] \in Nat /\ ntrn_per_share[p] <= RateOf(P, p)
  <2>1. /\ RateOf(P, p) \in Nat /\ ntrn_per_share[p] \in Nat
        /\ \E r \in Nat : RateOf(P, p) = ntrn_per_share[p] + r
    BY <1>1, RatesAre DEF PoolsReady
  <2>2. ntrn_per_share'[p] = RateOf(P, p)
    BY DEF MigratesTo
  <2> QED BY <2>1, <2>2
<1>4. ASSUME NEW k \in LiveLockups'
      PROVE  lockup'[k].generator_ntrn_debt
                 <= MulFloor(lockup'[k].lp_units_locked, ntrn_per_share'[k[1]])
  <2>1. k \in LiveLockups /\ k \in DOMAIN lockup
    BY <1>2
  <2>2. PICK m \in Nat, m2 \in Nat, x \in Nat, y \in Nat :
            /\ m = ntrn_per_share[k[1]] /\ m2 = ntrn_per_share'[k[1]] /\ m <= m2
            /\ x = lockup[k].lp_units_locked /\ y = lockup[k].generator_ntrn_debt
    BY <1>2, <1>3, <2>1
  <2>3. y <= MulFloor(x, m)
    BY <1>1, <2>1, <2>2 DEF FractionsCovered
  <2>4. MulFloor(x, m) <= MulFloor(x, m2) /\ MulFloor(x, m) \in Nat /\ MulFloor(x, m2) \in Nat
    BY <2>2, MulFloorGrows, MulFloorNat
  <2>5. y <= MulFloor(x, m2)
    BY <2>3, <2>4
  <2> QED BY <1>2, <2>1, <2>2, <2>5
<1>5. [k \in DOMAIN lockup |-> Undrawn(k)]' = t
  <2>1. ASSUME NEW k \in DOMAIN lockup PROVE Undrawn(k)' = UndrawnAt(P, k)
    BY <1>2, <1>3 DEF Undrawn, UndrawnAt
  <2> QED BY <1>2, <2>1
<1>6. PICK s \in Int : s = SumOver(t, L) /\ s = Drawable(P, L)
  <2>1. IsFiniteSet(L)
    BY <1>1, <1>2, FS_Subset DEF LockdropInv, LockupsKnown
  <2>2. ASSUME NEW k \in L PROVE t[k] \in Int
    <3>1. PICK a \in Nat, b \in Nat, c \in Nat, d \in Nat :
              /\ a = lockup[k].lp_units_locked /\ b = RateOf(P, k[1])
              /\ c = lockup[k].generator_ntrn_debt /\ d = F
      BY <1>2, <1>3, ScaleAssumption
    <3>2. (a * b) - (d * c) \in Int
      OBVIOUS
    <3> QED BY <1>2, <3>1, <3>2 DEF UndrawnAt
  <2>3. SumOver(t, L) = Drawable(P, L)
    BY DEF Drawable
  <2> HIDE DEF t, L
  <2>4. SumOver(t, L) \in Int
    BY <2>1, <2>2, SumInt
  <2> QED BY <2>3, <2>4
<1>7. PICK a \in Nat, c \in Nat, f \in Nat : a = Available(P) /\ c = done.rewards /\ f = F
  <2>1. Available(P) \in Nat /\ done.rewards \in Nat
    BY <1>1, AvailableNat DEF MigratesTo, ChainOK, ChainTyped
  <2> QED BY <2>1, ScaleAssumption
<1>8. s + (f * c) <= f * a
  BY <1>6, <1>7 DEF MigratesTo, ChainOK
<1>9. reward_balance' = a - c
  BY <1>7 DEF MigratesTo
<1>10. f * (a - c) = (f * a) - (f * c)
  BY ONLY a \in Nat, c \in Nat, f \in Nat
<1>11. PICK fa \in Nat, fc \in Nat : fa = f * a /\ fc = f * c
  OBVIOUS
<1>12. s <= fa - fc
  BY <1>8, <1>11
<1>13. SumOver([k \in DOMAIN lockup |-> Undrawn(k)]', LiveLockups')
           <= DECIMAL_FRACTIONAL * reward_balance'
  BY <1>2, <1>5, <1>6, <1>7, <1>9, <1>10, <1>11, <1>12
<1> QED BY <1>4, <1>13 DEF FractionsCovered

\* A user's reward does not change when rewards are stored.
LEMMA UserRewardKept ==
    ASSUME LockdropTypeOK, RewardInputsKept, NEW v \in Users,
           \/ total_ntrn_rewards'[v] = total_ntrn_rewards[v]
           \/ total_ntrn_rewards'[v] = UserReward(v)
    PROVE  UserReward(v)' = UserReward(v)
<1>1. UserKeys(v)' = UserKeys(v) /\ UserKeys(v) \subseteq DOMAIN lockup
  BY DEF UserKeys, RewardInputsKept
<1>2. [k \in UserKeys(v) |-> LockupReward(k)]' = [k \in UserKeys(v) |-> LockupReward(k)]
  BY <1>1, RewardKept
<1>3. PICK s : s = SumOver([k \in UserKeys(v) |-> LockupReward(k)], UserKeys(v))
  OBVIOUS
<1>4. SumOver([k \in UserKeys(v) |-> LockupReward(k)], UserKeys(v))' = s
  BY <1>1, <1>2, <1>3
<1>5. UserReward(v) = IF total_ntrn_rewards[v] # 0 THEN total_ntrn_rewards[v] ELSE s
  BY <1>3 DEF UserReward
<1>6. UserReward(v)' = IF total_ntrn_rewards'[v] # 0 THEN total_ntrn_rewards'[v] ELSE s
  BY <1>4 DEF UserReward
<1> QED BY <1>5, <1>6

\* A transaction that pays a user's reward at most once, and before a lockup of
\* the user leaves.
LEMMA StaysPaid ==
    ASSUME LockdropTypeOK, OneTimeRewardsPaid, NEW u \in Users,
           \A v \in Users : UserReward(v)' = UserReward(v), UserReward(u) \in Nat,
           DOMAIN lockup' = DOMAIN lockup,
           \A k \in LiveLockups \ LiveLockups' : k[2] = u /\ ntrn_transferred'[u],
           \/ UNCHANGED <<received_ntrn, ntrn_transferred>>
           \/ ~ntrn_transferred[u] /\ PayOneTimeReward(u, UserReward(u))
    PROVE  OneTimeRewardsPaid'
<1>1. ASSUME NEW v \in Users
      PROVE  /\ received_ntrn'[v] = IF ntrn_transferred'[v] THEN UserReward(v) ELSE 0
             /\ ntrn_transferred[v] => ntrn_transferred'[v]
  <2>1. received_ntrn[v] = IF ntrn_transferred[v] THEN UserReward(v) ELSE 0
    BY DEF OneTimeRewardsPaid
  <2>2. CASE UNCHANGED <<received_ntrn, ntrn_transferred>>
    BY <2>1, <2>2
  <2>3. CASE ~ntrn_transferred[u] /\ PayOneTimeReward(u, UserReward(u))
    <3>1. PICK c : c = received_ntrn[u] + UserReward(u)
      OBVIOUS
    <3>2. /\ received_ntrn' = [received_ntrn EXCEPT ![u] = c]
          /\ ntrn_transferred' = [ntrn_transferred EXCEPT ![u] = TRUE]
          /\ ~ntrn_transferred[u]
      BY <2>3, <3>1 DEF PayOneTimeReward
    <3>3. /\ received_ntrn'[v] = IF v = u THEN c ELSE received_ntrn[v]
          /\ ntrn_transferred'[v] = IF v = u THEN TRUE ELSE ntrn_transferred[v]
      BY <3>2 DEF LockdropTypeOK
    <3>4. CASE v = u
      <4>1. received_ntrn[u] = 0
        BY <2>1, <3>2, <3>4
      <4>2. c = UserReward(u)
        BY <3>1, <4>1
      <4> QED BY <3>3, <3>4, <4>2
    <3>5. CASE v # u
      BY <2>1, <3>3, <3>5
    <3> QED BY <3>4, <3>5
  <2> QED BY <2>2, <2>3
<1>2. ASSUME NEW k \in DOMAIN lockup' \ LiveLockups' PROVE ntrn_transferred'[k[2]]
  <2>1. k \in DOMAIN lockup /\ k[2] \in Users
    BY DEF LockdropTypeOK, Keys
  <2>2. CASE k \in LiveLockups
    BY <1>2, <2>2
  <2>3. CASE k \notin LiveLockups
    <3>1. ntrn_transferred[k[2]]
      BY <2>1, <2>3 DEF OneTimeRewardsPaid
    <3> QED BY <1>1, <2>1, <3>1
  <2> QED BY <2>2, <2>3
<1> QED BY <1>1, <1>2 DEF OneTimeRewardsPaid

\* The transaction leaves the one time rewards as they are, and pays that of
\* the user whose lockups leave.
LEMMA MigrationPaid ==
    ASSUME MigrationInv, NEW u \in Users, NEW P, NEW done, MigratesTo(u, P, done),
           MigrationPays(u)
    PROVE  OneTimeRewardsPaid'
<1>1. LockdropInv /\ LockdropTypeOK /\ LockupsKnown /\ OneTimeRewardsPaid
  BY DEF MigrationInv, LockdropInv
<1>2. /\ DOMAIN lockup' = DOMAIN lockup /\ LiveLockups' = LiveLockups \ MineOf(u)
      /\ Left(lockup', u, MineOf(u))
  BY MigrationLive
<1>3. RewardInputsKept
  BY <1>2 DEF RewardInputsKept, MigratesTo, Left
<1>4. ASSUME NEW v \in Users PROVE UserReward(v)' = UserReward(v)
  <2>1. total_ntrn_rewards' = [total_ntrn_rewards EXCEPT ![u] = UserReward(u)]
    BY DEF MigratesTo
  <2>2. total_ntrn_rewards'[v] = total_ntrn_rewards[v] \/ total_ntrn_rewards'[v] = UserReward(v)
    BY <1>1, <2>1 DEF LockdropTypeOK
  <2> QED BY <1>1, <1>3, <2>2, UserRewardKept
<1>5. UserReward(u) \in Nat
  BY <1>1, RewardNat
<1>6. ASSUME NEW k \in LiveLockups \ LiveLockups' PROVE k[2] = u /\ ntrn_transferred'[u]
  <2>1. k \in MineOf(u) /\ k[2] = u
    BY <1>2 DEF MineOf
  <2>2. CASE ntrn_transferred[u]
    <3>1. ntrn_transferred' = ntrn_transferred
      BY <2>2 DEF MigrationPays
    <3> QED BY <2>1, <2>2, <3>1
  <2>3. CASE ~ntrn_transferred[u]
    <3>1. PayOneTimeReward(u, UserReward(u))
      BY <2>1, <2>3 DEF MigrationPays
    <3>2. ntrn_transferred' = [ntrn_transferred EXCEPT ![u] = TRUE]
      BY <3>1 DEF PayOneTimeReward
    <3> QED BY <1>1, <2>1, <3>2 DEF LockdropTypeOK
  <2> QED BY <2>1, <2>2, <2>3
<1>7. \/ UNCHANGED <<received_ntrn, ntrn_transferred>>
      \/ ~ntrn_transferred[u] /\ PayOneTimeReward(u, UserReward(u))
  BY DEF MigrationPays
<1> QED BY <1>1, <1>2, <1>4, <1>5, <1>6, <1>7, StaysPaid

\* MigrateLiquidityToPCLPools keeps the invariant.
LEMMA MigrationKeeps ==
    ASSUME MigrationInv, NEW u \in Users, NEW minted \in [MineOf(u) -> MintedLp],
           handle_migrate_liquidity_to_pcl_pools(u, minted)
    PROVE  /\ MigrationInv'
           /\ DOMAIN lockup' = DOMAIN lockup /\ LiveLockups' = LiveLockups \ MineOf(u)
           /\ Handed(pcl', MineOf(u)) /\ now' = now
<1>1. PICK P, done : /\ P = PoolsOf(u) /\ P \in SUBSET PoolType /\ PoolsReady(P)
                     /\ MigratesTo(u, P, done) /\ MigrationPays(u)
  BY MigrationIs
<1>2. /\ DOMAIN lockup' = DOMAIN lockup /\ LiveLockups' = LiveLockups \ MineOf(u)
      /\ Handed(pcl', MineOf(u))
  BY <1>1, MigrationLive
<1>3. LockdropTypeOK' /\ LockupsKnown' /\ now' \in Nat
  BY <1>1, MigrationTyped
<1>4. LedgersAgree' /\ UnstakedOK' /\ StakedOK' /\ NothingHeld' /\ LockupsWhole'
  BY <1>1, MigrationBooks
<1>5. FractionsCovered'
  BY <1>1, <1>3, MigrationFractions
<1>6. LockdropInv'
  BY <1>3, <1>4, <1>5 DEF LockdropInv
<1>7. OneTimeRewardsPaid'
  BY <1>1, MigrationPaid
<1>8. UNCHANGED <<now, lockdrop_config>>
  BY <1>1 DEF MigratesTo
<1>9. GeneratorKnown' /\ TermsOK'
  BY <1>2, <1>8 DEF MigrationInv, GeneratorKnown, TermsOK
<1>10. PclOK(pcl)'
  BY <1>2 DEF Handed
<1>11. Separate(lockup, amount_in_lockups, pcl)'
  <2>1. DOMAIN pcl'.lockup \subseteq DOMAIN lockup' \ LiveIn(lockup')
    <3>1. LiveIn(lockup') = LiveLockups' /\ LiveIn(lockup) = LiveLockups
      BY DEF LiveIn, LiveLockups
    <3>2. DOMAIN pcl.lockup \subseteq DOMAIN lockup \ LiveLockups
      BY <3>1 DEF MigrationInv, Separate
    <3>3. MineOf(u) \subseteq DOMAIN lockup
      BY DEF MineOf, LiveLockups
    <3> QED BY <1>2, <3>1, <3>2, <3>3 DEF Handed
  <2>2. \A p \in PoolType : pcl'.is_staked[p] => amount_in_lockups'[p] = 0
    BY <1>1 DEF MigratesTo, ChainOK
  <2> QED BY <2>1, <2>2 DEF Separate
<1>12. MigrationInv'
  BY <1>6, <1>7, <1>9, <1>10, <1>11 DEF MigrationInv
<1> QED BY <1>2, <1>8, <1>12

\* What a step of the first contract leaves to the second: no lockup opens, at
\* most one leaves, by its term, and an amount that is 0 stays 0.
LeavesInTime ==
    /\ DOMAIN lockup' = DOMAIN lockup /\ LiveLockups' \subseteq LiveLockups
    /\ \A k \in LiveLockups \ LiveLockups' : now >= UnlockTimestamp(k[3])
    /\ \A k, l \in LiveLockups \ LiveLockups' : k = l
    /\ \A p \in PoolType : amount_in_lockups[p] = 0 => amount_in_lockups'[p] = 0
    /\ now' \in Nat /\ now' >= now

\* The rest of the invariant follows.
LEMMA RestKept ==
    ASSUME MigrationInv, LockdropInv', LeavesInTime, GeneratorKnown', OneTimeRewardsPaid',
           pcl' = pcl
    PROVE  MigrationInv'
<1>1. /\ LockdropInv /\ TermsOK /\ PclOK(pcl) /\ Separate(lockup, amount_in_lockups, pcl)
      /\ now \in Nat
  BY DEF MigrationInv, LockdropInv
<1>2. TermsOK'
  <2>1. WindowsEnd \in Nat
    BY LockdropWindowAssumption DEF WindowsEnd, LockCutoff
  <2>2. now' >= WindowsEnd
    BY <1>1, <2>1 DEF TermsOK, LeavesInTime
  <2> QED BY <1>1, <2>2 DEF TermsOK, LeavesInTime
<1>3. PclOK(pcl)'
  BY <1>1
<1>4. Separate(lockup, amount_in_lockups, pcl)'
  <2>1. LiveIn(lockup') = LiveLockups' /\ LiveIn(lockup) = LiveLockups
    BY DEF LiveIn, LiveLockups
  <2> QED BY <1>1, <2>1 DEF Separate, LeavesInTime
<1> QED BY <1>2, <1>3, <1>4 DEF MigrationInv

\* A step that changes no lockup and pays no one time reward.
LEMMA QuietKeeps ==
    ASSUME MigrationInv, LockdropInv', RewardInputsKept, GeneratorKnown', pcl' = pcl,
           UNCHANGED <<lockup, amount_in_lockups, total_ntrn_rewards, received_ntrn,
                       ntrn_transferred>>,
           now' \in Nat, now' >= now
    PROVE  MigrationInv' /\ LeavesInTime
<1>1. LockdropTypeOK /\ OneTimeRewardsPaid
  BY DEF MigrationInv, LockdropInv
<1>2. LiveLockups' = LiveLockups
  BY DEF LiveLockups
<1>3. LeavesInTime
  BY <1>2 DEF LeavesInTime
<1>4. \A v \in Users : UserReward(v)' = UserReward(v)
  BY <1>1, UserRewardKept
<1>5. OneTimeRewardsPaid'
  BY <1>1, <1>2, <1>4 DEF OneTimeRewardsPaid
<1> QED BY <1>3, <1>5, RestKept

\* SetTokenInfo while nobody takes part: there are no lockups.
LEMMA SetTokenInfoQuiet ==
    ASSUME MigrationInv, LockdropInv', participants = {}, NEW s \in Senders,
           NEW g \in Generators, handle_set_token_info(s, g), pcl' = pcl
    PROVE  MigrationInv' /\ LeavesInTime
<1>1. LockdropInv /\ LockdropTypeOK /\ LockupsKnown /\ OneTimeRewardsPaid /\ now \in Nat
  BY DEF MigrationInv, LockdropInv
<1>2. /\ UNCHANGED <<now, lockup, total_ntrn_rewards, received_ntrn, ntrn_transferred>>
      /\ amount_in_lockups' = ZeroPools
      /\ lockdrop_config' = [lockdrop_config EXCEPT !.generator = g]
  BY DEF handle_set_token_info, lockerVars, lockdropEnv
<1>3. DOMAIN lockup = {}
  BY <1>1 DEF LockupsKnown
<1>4. LiveLockups = {} /\ LiveLockups' = {}
  BY <1>2, <1>3 DEF LiveLockups
<1>5. LeavesInTime
  BY <1>1, <1>2, <1>4 DEF LeavesInTime, ZeroPools
<1>6. GeneratorKnown'
  BY <1>1, <1>2 DEF GeneratorKnown, LockdropTypeOK
<1>7. ASSUME NEW v \in Users PROVE UserReward(v)' = UserReward(v)
  <2>1. UserKeys(v) = {} /\ UserKeys(v)' = {}
    BY <1>2, <1>3 DEF UserKeys
  <2>2. SumOver([k \in UserKeys(v) |-> LockupReward(k)], UserKeys(v)) = 0
    BY <2>1, SumEmpty
  <2>3. SumOver([k \in UserKeys(v) |-> LockupReward(k)], UserKeys(v))' = 0
    BY <2>1, SumEmpty
  <2> QED BY <1>2, <2>2, <2>3 DEF UserReward
<1>8. OneTimeRewardsPaid'
  BY <1>1, <1>2, <1>4, <1>7 DEF OneTimeRewardsPaid
<1> QED BY <1>5, <1>6, <1>8, RestKept

\* A claim of the first contract.
LEMMA ClaimStays ==
    ASSUME MigrationInv, LockdropInv', NEW u \in Users, NEW p \in LockPools,
           NEW d \in LockDurations, NEW w \in BOOLEAN,
           handle_claim_rewards_and_unlock_for_lockup(u, p, d, w), pcl' = pcl
    PROVE  MigrationInv' /\ LeavesInTime
<1> DEFINE key == <<p, u, d>>
<1>1. /\ LockdropInv /\ LockdropTypeOK /\ LockupsKnown /\ OneTimeRewardsPaid /\ now \in Nat
      /\ GeneratorKnown /\ p \in PoolType
  BY LockdropAmountAssumption DEF MigrationInv, LockdropInv
<1>2. PICK r \in Nat, rewards \in Nat, pending \in Nat :
          ClaimsRewards(u, p, d, w, r, rewards, pending)
  BY <1>1, ClaimIs
<1>3. PICK x : /\ AfterClaim(u, key, pending, x)
               /\ x = IF w THEN lockup[key].lp_units_locked ELSE NONE
               /\ key \in DOMAIN lockup /\ lockup[key].astroport_lp_transferred = NONE
               /\ lockup[key].lp_units_locked \in Nat
  BY <1>1, <1>2, ClaimRecords
<1>4. /\ DOMAIN lockup' = DOMAIN lockup /\ LiveLockups' \subseteq LiveLockups
      /\ LiveLockups \ LiveLockups' \subseteq {key}
      /\ ~w => LiveLockups' = LiveLockups
  BY <1>3 DEF AfterClaim, LiveLockups
<1>5. /\ UNCHANGED <<now, lockdrop_config>> /\ amount_in_lockups[p] # 0
      /\ w => now >= UnlockTimestamp(d)
      /\ total_ntrn_rewards' = [total_ntrn_rewards EXCEPT ![u] = UserReward(u)]
  BY DEF handle_claim_rewards_and_unlock_for_lockup
<1>6. \A q \in PoolType : amount_in_lockups[q] = 0 => amount_in_lockups'[q] = 0
  <2>1. ClaimsLp(u, p, d, w)
    BY <1>1, ClaimIs
  <2>2. CASE w
    <3>1. PICK a : amount_in_lockups' = [amount_in_lockups EXCEPT ![p] = a]
      BY <2>1, <2>2 DEF ClaimsLp
    <3> QED BY <1>1, <1>5, <3>1 DEF LockdropTypeOK
  <2>3. CASE ~w
    <3>1. amount_in_lockups' = amount_in_lockups
      BY <2>1, <2>3 DEF ClaimsLp
    <3> QED BY <3>1
  <2> QED BY <2>2, <2>3
<1>7. LeavesInTime
  <2>1. ASSUME NEW k \in LiveLockups \ LiveLockups' PROVE now >= UnlockTimestamp(k[3])
    <3>1. k = key /\ w /\ key[3] = d
      BY <1>4
    <3> QED BY <1>5, <3>1
  <2>2. \A k, l \in LiveLockups \ LiveLockups' : k = l
    BY <1>4
  <2> QED BY <1>1, <1>4, <1>5, <1>6, <2>1, <2>2 DEF LeavesInTime
<1>8. RewardInputsKept
  BY <1>1, ClaimKeepsInputs
<1>9. ASSUME NEW v \in Users PROVE UserReward(v)' = UserReward(v)
  <2>1. total_ntrn_rewards'[v] = total_ntrn_rewards[v] \/ total_ntrn_rewards'[v] = UserReward(v)
    BY <1>1, <1>5 DEF LockdropTypeOK
  <2> QED BY <1>1, <1>8, <2>1, UserRewardKept
<1>10. UserReward(u) \in Nat
  BY <1>1, RewardNat
<1>11. CASE ntrn_transferred[u]
  <2>1. UNCHANGED <<received_ntrn, ntrn_transferred>>
    BY <1>11 DEF handle_claim_rewards_and_unlock_for_lockup
  <2>2. ASSUME NEW k \in LiveLockups \ LiveLockups' PROVE k[2] = u /\ ntrn_transferred'[u]
    <3>1. k = key /\ key[2] = u
      BY <1>4
    <3> QED BY <1>11, <2>1, <3>1
  <2>3. OneTimeRewardsPaid'
    BY <1>1, <1>4, <1>9, <1>10, <2>1, <2>2, StaysPaid
  <2> QED BY <1>1, <1>5, <1>7, <2>3, RestKept DEF GeneratorKnown
<1>12. CASE ~ntrn_transferred[u]
  <2>1. PayOneTimeReward(u, UserReward(u))
    BY <1>12 DEF handle_claim_rewards_and_unlock_for_lockup
  <2>2. ASSUME NEW k \in LiveLockups \ LiveLockups' PROVE k[2] = u /\ ntrn_transferred'[u]
    <3>1. k = key /\ key[2] = u
      BY <1>4
    <3>2. ntrn_transferred' = [ntrn_transferred EXCEPT ![u] = TRUE]
      BY <2>1 DEF PayOneTimeReward
    <3>3. ntrn_transferred'[u]
      BY <1>1, <3>2 DEF LockdropTypeOK
    <3> QED BY <3>1, <3>3
  <2>3. OneTimeRewardsPaid'
    BY <1>1, <1>4, <1>9, <1>10, <1>12, <2>1, <2>2, StaysPaid
  <2> QED BY <1>1, <1>5, <1>7, <2>3, RestKept DEF GeneratorKnown
<1> QED BY <1>11, <1>12

\* Every step of the first contract but the migration.
LEMMA LockdropKeeps ==
    ASSUME MigrationInv, LockdropStep \/ LockdropTick, pcl' = pcl
    PROVE  MigrationInv' /\ LeavesInTime
<1>1. /\ LockdropInv /\ LockdropTypeOK /\ GeneratorKnown /\ TermsOK /\ now \in Nat
  BY DEF MigrationInv, LockdropInv
<1>2. LockdropInv'
  BY <1>1, LockdropInvStep DEF UnboundedNext
<1>3. CASE LockdropTick
  <2>1. /\ UNCHANGED <<lockdrop_config, poolVars, lockerVars, lockdropEnv>>
        /\ now' = now + 1
    BY <1>3 DEF LockdropTick, NextBlock
  <2>2. RewardInputsKept /\ GeneratorKnown'
    BY <1>1, <2>1 DEF RewardInputsKept, GeneratorKnown, poolVars, lockerVars
  <2>3. now' \in Nat /\ now' >= now
    BY <1>1, <2>1
  <2> QED BY <1>2, <2>1, <2>2, <2>3, QuietKeeps DEF poolVars, lockerVars, lockdropEnv
<1>4. ASSUME NEW g \in Generators, NEW p \in PoolType, NEW amount \in Accruals,
             GeneratorAccrues(g, p, amount)
      PROVE  MigrationInv' /\ LeavesInTime
  <2>1. UNCHANGED <<now, lockdrop_config, poolVars, lockerVars, received_ntrn>>
    BY <1>4 DEF GeneratorAccrues
  <2>2. RewardInputsKept /\ GeneratorKnown'
    BY <1>1, <2>1 DEF RewardInputsKept, GeneratorKnown, poolVars, lockerVars
  <2>3. now' \in Nat /\ now' >= now
    BY <1>1, <2>1
  <2> QED BY <1>2, <2>1, <2>2, <2>3, QuietKeeps DEF poolVars, lockerVars
<1>5. ASSUME NEW s \in Senders, NEW m \in LockdropUpdateMsgs, handle_update_config(s, m)
      PROVE  MigrationInv' /\ LeavesInTime
  <2>1. /\ UNCHANGED <<now, poolVars, lockerVars, lockdropEnv>>
        /\ lockdrop_config' = [lockdrop_config EXCEPT
               !.auction   = IF m.auction = NONE THEN @ ELSE m.auction,
               !.generator = IF m.generator = NONE THEN @ ELSE m.generator]
    BY <1>5 DEF handle_update_config
  <2>2. m.generator \in Generators \cup {NONE}
    BY LockdropAddressAssumption
  <2>3. /\ lockdrop_config'.lockdrop_incentives = lockdrop_config.lockdrop_incentives
        /\ GeneratorKnown'
    BY <1>1, <2>1, <2>2 DEF LockdropTypeOK, GeneratorKnown
  <2>4. RewardInputsKept
    BY <2>1, <2>3 DEF RewardInputsKept, poolVars, lockerVars
  <2>5. now' \in Nat /\ now' >= now
    BY <1>1, <2>1
  <2> QED BY <1>2, <2>1, <2>3, <2>4, <2>5, QuietKeeps DEF poolVars, lockerVars, lockdropEnv
<1>6. ASSUME NEW amount \in Incentives, handle_increasing_ntrn_incentives(amount) PROVE FALSE
  <2>1. WindowsEnd \in Nat
    BY LockdropWindowAssumption DEF WindowsEnd, LockCutoff
  <2>2. now < WindowsEnd
    BY <1>6 DEF handle_increasing_ntrn_incentives
  <2> QED BY <1>1, <2>1, <2>2 DEF TermsOK
<1>7. ASSUME LockdropSetup PROVE MigrationInv' /\ LeavesInTime
  BY <1>2, <1>4, <1>5, <1>6, <1>7, SetTokenInfoQuiet DEF LockdropSetup
<1> QED BY <1>2, <1>3, <1>7, ClaimStays DEF LockdropStep
-----------------------------------------------------------------------------
\* The books of the first contract after the launch, for given lockups.
OpenedBooks(book, share) ==
    /\ amount_in_lockups = [p \in PoolType |-> LockedIn(book, p)]
    /\ weighted_amount = [p \in PoolType |->
           SumOver([k \in DOMAIN book |-> calculate_weight(book[k], k[3])],
                   {k \in DOMAIN book : k[1] = p})]
    /\ incentives_share = [p \in PoolType |-> IF LockedIn(book, p) # 0 THEN share[p] ELSE 0]
    /\ is_staked = [p \in PoolType |-> LockedIn(book, p) # 0]
    /\ total_incentives_share = SumOver(share, {p \in PoolType : LockedIn(book, p) # 0})
    /\ lockup = [k \in DOMAIN book |-> NewLockup(book[k])]
    /\ participants = {k[2] : k \in DOMAIN book}
    /\ positions = [u \in Users |-> Cardinality({k \in DOMAIN book : k[2] = u})]
    /\ total_user_lockup = [p \in PoolType |-> [u \in Users |->
           SumOver(book, {k \in DOMAIN book : k[1] = p /\ k[2] = u})]]

\* The rest of it.
OpenedRest(book, g, incentives) ==
    /\ now = WindowsEnd /\ pools_set = TRUE /\ ntrn_per_share = ZeroPools
    /\ lockdrop_config = [auction |-> AUCTION, generator |-> g, lockdrop_incentives |-> incentives]
    /\ total_ntrn_rewards = [u \in Users |-> 0] /\ ntrn_transferred = [u \in Users |-> FALSE]
    /\ gen_deposit = [h \in Generators |-> IF h = g THEN [p \in PoolType |-> LockedIn(book, p)]
                                           ELSE ZeroPools]
    /\ gen_pending = [h \in Generators |-> ZeroPools] /\ gen_reserve = MAX_ACCRUED
    /\ reward_balance = 0 /\ incentives_balance = incentives /\ lp_held = ZeroPools
    /\ received_ntrn = [u \in Users |-> 0] /\ received_lp = [u \in Users |-> ZeroPools]

\* What the assumption says of the lockups.
BookStarts(book) ==
    /\ book \in [DOMAIN book -> Nat] /\ DOMAIN book \subseteq Keys /\ IsFiniteSet(DOMAIN book)
    /\ \A k \in DOMAIN book : k[3] \in DOMAIN LockWeight /\ k[3] >= MIN_LOCK_DURATION
    /\ \A u \in Users : Cardinality({k \in DOMAIN book : k[2] = u}) \in 0..MAX_POSITIONS_PER_USER
    /\ \A p \in PoolType : LockedIn(book, p) \in Nat

\* They are so.
LEMMA BookStartsSo == ASSUME NEW book \in InitialLockups PROVE BookStarts(book)
<1>1. /\ book \in [DOMAIN book -> Nat] /\ DOMAIN book \subseteq Keys /\ IsFiniteSet(DOMAIN book)
      /\ \A k \in DOMAIN book : k[3] \in DOMAIN LockWeight /\ k[3] >= MIN_LOCK_DURATION
      /\ \A u \in Users :
             Cardinality({k \in DOMAIN book : k[2] = u}) <= MAX_POSITIONS_PER_USER
  BY MigrationAssumption
<1>2. ASSUME NEW u \in Users
      PROVE  Cardinality({k \in DOMAIN book : k[2] = u}) \in 0..MAX_POSITIONS_PER_USER
  <2>1. IsFiniteSet({k \in DOMAIN book : k[2] = u})
    BY <1>1, FS_Subset
  <2>2. Cardinality({k \in DOMAIN book : k[2] = u}) \in Nat
    BY <2>1, FS_CardinalityType
  <2> QED BY <1>1, <2>2, LockdropWindowAssumption
<1>3. ASSUME NEW p \in PoolType PROVE LockedIn(book, p) \in Nat
  <2> DEFINE T == {k \in DOMAIN book : k[1] = p}
  <2>1. T \subseteq DOMAIN book /\ \A k \in T : book[k] \in Nat
    BY <1>1
  <2>2. IsFiniteSet(T)
    BY <1>1, <2>1, FS_Subset
  <2> HIDE DEF T
  <2>3. SumOver(book, T) \in Nat
    BY <2>1, <2>2, SumNat
  <2> QED BY <2>3 DEF LockedIn, T
<1> QED BY <1>1, <1>2, <1>3 DEF BookStarts

\* The types of the first contract's fields after the launch.
LEMMA OpenedTyped ==
    ASSUME NEW book, NEW g \in Generators, NEW share \in IncentivesShares,
           NEW incentives \in Incentives, BookStarts(book), OpenedBooks(book, share),
           OpenedRest(book, g, incentives)
    PROVE  /\ LockdropTypeOK /\ LockupsKnown /\ LiveLockups = DOMAIN lockup
           /\ DOMAIN lockup = DOMAIN book
           /\ \A k \in DOMAIN book : /\ lockup[k].lp_units_locked = book[k]
                                     /\ lockup[k].generator_ntrn_debt = 0
                                     /\ lockup[k].astroport_lp_transferred = NONE
<1>1. DOMAIN lockup = DOMAIN book /\ \A k \in DOMAIN book : book[k] \in Nat
  BY DEF OpenedBooks, BookStarts
<1>2. ASSUME NEW k \in DOMAIN book
      PROVE  /\ lockup[k] \in LockupRecords
             /\ lockup[k].lp_units_locked = book[k] /\ lockup[k].generator_ntrn_debt = 0
             /\ lockup[k].astroport_lp_transferred = NONE
  BY <1>1 DEF OpenedBooks, NewLockup, LockupRecords
<1>3. LiveLockups = DOMAIN lockup
  BY <1>1, <1>2 DEF LiveLockups
<1>4. LockupsKnown
  BY <1>1 DEF LockupsKnown, OpenedBooks, BookStarts
<1>5. share \in [PoolType -> Nat] /\ incentives \in Nat /\ ZeroPools \in [PoolType -> Nat]
      /\ MAX_ACCRUED \in Nat
  BY LockdropAmountAssumption DEF ZeroPools
<1>6. lockdrop_config \in [auction : AuctionAddrs, generator : Generators \cup {NONE},
                           lockdrop_incentives : Nat]
  BY <1>5, LockdropAddressAssumption DEF OpenedRest
<1>7. /\ amount_in_lockups \in [PoolType -> Nat] /\ incentives_share \in [PoolType -> Nat]
      /\ is_staked \in [PoolType -> BOOLEAN]
      /\ positions \in [Users -> 0..MAX_POSITIONS_PER_USER]
  BY <1>5 DEF OpenedBooks, BookStarts
<1>8. weighted_amount \in [PoolType -> Nat]
  <2>1. ASSUME NEW p \in PoolType
        PROVE  SumOver([k \in DOMAIN book |-> calculate_weight(book[k], k[3])],
                       {k \in DOMAIN book : k[1] = p}) \in Nat
    <3> DEFINE f == [k \in DOMAIN book |-> calculate_weight(book[k], k[3])]
               T == {k \in DOMAIN book : k[1] = p}
    <3>1. \A k \in DOMAIN book : k[3] \in DOMAIN LockWeight
      BY DEF BookStarts
    <3>2. \A k \in T : f[k] \in Nat
      BY <1>1, <3>1, WeightNat
    <3>3. IsFiniteSet(T)
      BY FS_Subset DEF BookStarts
    <3> HIDE DEF f, T
    <3>4. SumOver(f, T) \in Nat
      BY <3>2, <3>3, SumNat
    <3> QED BY <3>4 DEF f, T
  <2> QED BY <2>1 DEF OpenedBooks
<1>9. total_incentives_share \in Nat
  <2>1. \A p \in PoolType : share[p] \in Nat
    BY <1>5
  <2>2. PICK S \in SUBSET PoolType : total_incentives_share = SumOver(share, S)
    BY DEF OpenedBooks
  <2> QED BY <2>1, <2>2, PoolsSum
<1>10. total_user_lockup \in [PoolType -> [Users -> Nat]]
  <2>1. ASSUME NEW p \in PoolType, NEW u \in Users
        PROVE  SumOver(book, {k \in DOMAIN book : k[1] = p /\ k[2] = u}) \in Nat
    <3> DEFINE T == {k \in DOMAIN book : k[1] = p /\ k[2] = u}
    <3>1. IsFiniteSet(T) /\ \A k \in T : book[k] \in Nat
      BY <1>1, FS_Subset DEF BookStarts
    <3> HIDE DEF T
    <3>2. SumOver(book, T) \in Nat
      BY <3>1, SumNat
    <3> QED BY <3>2 DEF T
  <2> QED BY <2>1 DEF OpenedBooks
<1>11. participants \subseteq Users /\ DOMAIN lockup \subseteq Keys
  BY <1>1 DEF OpenedBooks, BookStarts, Keys
<1>12. gen_deposit \in [Generators -> [PoolType -> Nat]]
  <2>1. [p \in PoolType |-> LockedIn(book, p)] \in [PoolType -> Nat]
    BY DEF BookStarts
  <2> QED BY <1>5, <2>1 DEF OpenedRest
<1>13. /\ gen_pending \in [Generators -> [PoolType -> Nat]]
       /\ received_lp \in [Users -> [PoolType -> Nat]] /\ lp_held \in [PoolType -> Nat]
       /\ ntrn_per_share \in [PoolType -> Nat]
  BY <1>5 DEF OpenedRest
<1>14. /\ pools_set \in BOOLEAN /\ total_ntrn_rewards \in [Users -> Nat]
       /\ ntrn_transferred \in [Users -> BOOLEAN] /\ gen_reserve \in Nat
       /\ reward_balance \in Nat /\ incentives_balance \in Nat
       /\ received_ntrn \in [Users -> Nat]
  BY <1>5 DEF OpenedRest
<1>15. LockdropTypeOK
  BY <1>1, <1>2, <1>6, <1>7, <1>8, <1>9, <1>10, <1>11, <1>12, <1>13, <1>14 DEF LockdropTypeOK
<1> QED BY <1>1, <1>2, <1>3, <1>4, <1>15

\* The first contract after the launch.
LEMMA OpenedOK ==
    ASSUME NEW book, NEW g \in Generators, NEW share \in IncentivesShares,
           NEW incentives \in Incentives, BookStarts(book), OpenedBooks(book, share),
           OpenedRest(book, g, incentives)
    PROVE  LockdropInv
<1>1. /\ LockdropTypeOK /\ LockupsKnown /\ LiveLockups = DOMAIN lockup
      /\ DOMAIN lockup = DOMAIN book
      /\ \A k \in DOMAIN book : /\ lockup[k].lp_units_locked = book[k]
                                /\ lockup[k].generator_ntrn_debt = 0
                                /\ lockup[k].astroport_lp_transferred = NONE
  BY OpenedTyped
<1>2. now \in Nat
  BY LockdropWindowAssumption DEF OpenedRest, WindowsEnd, LockCutoff
<1>3. ASSUME NEW p \in PoolType
      PROVE  /\ amount_in_lockups[p] = LockedIn(book, p) /\ ntrn_per_share[p] = 0
             /\ is_staked[p] <=> LockedIn(book, p) # 0
             /\ incentives_share[p] = IF LockedIn(book, p) # 0 THEN share[p] ELSE 0
             /\ gen_deposit[g][p] = LockedIn(book, p)
             /\ \A h \in Generators \ {g} : gen_deposit[h][p] = 0
  BY DEF OpenedBooks, OpenedRest, ZeroPools
<1>4. lockdrop_config.generator = g /\ reward_balance = 0 /\ lp_held = ZeroPools
  BY DEF OpenedRest
<1>5. UnstakedOK
  BY <1>1, <1>3 DEF UnstakedOK
<1>6. StakedOK
  <2>1. ASSUME NEW p \in PoolType, is_staked[p] PROVE participants # {}
    <3>1. CASE DOMAIN book = {}
      <4>1. {k \in DOMAIN book : k[1] = p} = {}
        BY <3>1
      <4>2. LockedIn(book, p) = 0
        BY <4>1, SumEmpty DEF LockedIn
      <4> QED BY <1>3, <2>1, <4>2
    <3>2. CASE DOMAIN book # {}
      BY <3>2 DEF OpenedBooks
    <3> QED BY <3>1, <3>2
  <2> QED BY <1>4, <2>1 DEF StakedOK
<1>7. NothingHeld
  BY <1>4 DEF NothingHeld
<1>8. LedgersAgree
  <2>1. [k \in DOMAIN lockup |-> lockup[k].lp_units_locked] = book
    BY <1>1 DEF BookStarts
  <2>2. \A T : UnitsOf(T) = SumOver(book, T)
    BY <2>1 DEF UnitsOf
  <2>3. ASSUME NEW p \in PoolType
        PROVE  /\ amount_in_lockups[p] = UnitsOf({k \in LiveLockups : k[1] = p})
               /\ \A u \in Users : total_user_lockup[p][u] =
                      UnitsOf({k \in LiveLockups : k[1] = p /\ k[2] = u})
    BY <1>1, <1>3, <2>2 DEF LockedIn, OpenedBooks
  <2>4. \A u \in Users : positions[u] = Cardinality(UserKeys(u))
    BY <1>1 DEF OpenedBooks, UserKeys
  <2> QED BY <2>3, <2>4 DEF LedgersAgree
<1>9. LockupsWhole
  BY <1>1, <1>3, <1>4 DEF LockupsWhole
<1>10. FractionsCovered
  <2>1. ASSUME NEW k \in DOMAIN lockup
        PROVE  /\ Undrawn(k) = 0 /\ lockup[k].generator_ntrn_debt = 0
               /\ MulFloor(lockup[k].lp_units_locked, ntrn_per_share[k[1]]) \in Nat
    <3>1. PICK a \in Nat : a = lockup[k].lp_units_locked
      BY <1>1 DEF LockdropTypeOK, LockupRecords
    <3>2. k[1] \in PoolType
      BY <1>1 DEF LockdropTypeOK, Keys
    <3>3. ntrn_per_share[k[1]] = 0 /\ lockup[k].generator_ntrn_debt = 0
      BY <1>1, <1>3, <3>2
    <3>4. (a * 0) - (DECIMAL_FRACTIONAL * 0) = 0
      BY ScaleAssumption
    <3>5. MulFloor(a, 0) \in Nat
      BY MulFloorNat
    <3> QED BY <3>1, <3>3, <3>4, <3>5 DEF Undrawn
  <2> DEFINE f == [k \in DOMAIN lockup |-> Undrawn(k)]
  <2>2. IsFiniteSet(LiveLockups) /\ \A k \in LiveLockups : f[k] = 0
    BY <1>1, <2>1 DEF LockupsKnown
  <2>3. SumOver(f, LiveLockups) = 0
    <3> HIDE DEF f
    <3> QED BY <2>2, SumZero
  <2>4. 0 <= DECIMAL_FRACTIONAL * reward_balance
    BY <1>4, ScaleAssumption
  <2>5. ASSUME NEW k \in LiveLockups
        PROVE  lockup[k].generator_ntrn_debt
                   <= MulFloor(lockup[k].lp_units_locked, ntrn_per_share[k[1]])
    BY <1>1, <2>1
  <2> QED BY <2>3, <2>4, <2>5 DEF FractionsCovered
<1> QED BY <1>1, <1>2, <1>5, <1>6, <1>7, <1>8, <1>9, <1>10 DEF LockdropInv

\* The second contract has nothing.
LEMMA PclInitOK == PclInit => PclOK(pcl)
<1> SUFFICES ASSUME PclInit PROVE PclOK(pcl)
  OBVIOUS
<1>1. PICK none, zero, no, users :
          /\ none = [k \in {} |-> NONE] /\ zero = [p \in PoolType |-> 0]
          /\ no = [p \in PoolType |-> FALSE] /\ users = [p \in PoolType |-> [u \in Users |-> 0]]
  OBVIOUS
<1>2. /\ PclRecord(pcl) /\ pcl.incentives = INCENTIVES /\ pcl.amount_in_lockups = zero
      /\ pcl.rewards_per_share = zero /\ pcl.is_staked = no /\ pcl.lockup = none
      /\ pcl.user = none /\ pcl.total_user_lockup = users /\ pcl.lp_held = zero
      /\ pcl.deposit = [a \in IncentivesAddrs |-> zero]
      /\ pcl.pending = [a \in IncentivesAddrs |-> zero]
      /\ pcl.reserve = MAX_PCL_ACCRUED /\ pcl.reward_balance = 0
  BY <1>1 DEF PclInit, PclRecord, PclNoPools
<1>3. DOMAIN none = {} /\ IsFiniteSet({}) /\ zero \in [PoolType -> Nat]
      /\ no \in [PoolType -> BOOLEAN] /\ users \in [PoolType -> [Users -> Nat]]
  BY <1>1, FS_EmptySet
<1>4. /\ none \in [DOMAIN none -> PclLockups] /\ none \in [DOMAIN none -> PclUserInfos]
  BY <1>1, <1>3
<1>5. PclTyped(pcl)
  BY <1>2, <1>3, <1>4, PclAssumption DEF PclTyped
<1>6. LiveIn(pcl.lockup) = {} /\ DOMAIN pcl.lockup = {}
  BY <1>2, <1>3 DEF LiveIn
<1>7. PclStakesOK(pcl)
  BY <1>1, <1>2 DEF PclStakesOK
<1>8. PclBooksOK(pcl)
  <2>1. ASSUME NEW p \in PoolType
        PROVE  /\ {k \in LiveIn(pcl.lockup) : k[1] = p} = {}
               /\ \A u \in Users : {k \in LiveIn(pcl.lockup) : k[1] = p /\ k[2] = u} = {}
    BY <1>6
  <2>2. UnitsIn(pcl.lockup, {}) = 0
    BY SumEmpty DEF UnitsIn
  <2>3. UnitsAgree(pcl.lockup, pcl.amount_in_lockups, pcl.total_user_lockup)
    <3>1. ASSUME NEW p \in PoolType, NEW u \in Users
          PROVE  pcl.amount_in_lockups[p] = 0 /\ pcl.total_user_lockup[p][u] = 0
      BY <1>1, <1>2
    <3>2. \A p \in PoolType : pcl.amount_in_lockups[p] = 0
      BY <1>1, <1>2
    <3>3. ASSUME NEW p \in PoolType
          PROVE  pcl.amount_in_lockups[p] =
                     UnitsIn(pcl.lockup, {k \in LiveIn(pcl.lockup) : k[1] = p})
      <4>1. {k \in LiveIn(pcl.lockup) : k[1] = p} = {}
        BY <2>1
      <4> QED BY ONLY <2>2, <3>2, <4>1, p \in PoolType
    <3>4. ASSUME NEW p \in PoolType, NEW u \in Users
          PROVE  pcl.total_user_lockup[p][u] =
                     UnitsIn(pcl.lockup, {k \in LiveIn(pcl.lockup) : k[1] = p /\ k[2] = u})
      <4>1. {k \in LiveIn(pcl.lockup) : k[1] = p /\ k[2] = u} = {}
        BY <2>1
      <4>2. pcl.total_user_lockup[p][u] = 0
        BY <3>1
      <4> QED BY ONLY <2>2, <4>1, <4>2
    <3> QED BY ONLY <3>3, <3>4 DEF UnitsAgree
  <2>4. \A p \in PoolType : pcl.amount_in_lockups[p] = BalanceIn(pcl, p)
    BY <1>1, <1>2 DEF BalanceIn
  <2> QED BY <2>3, <2>4 DEF PclBooksOK
<1>9. PclFractionsCovered(pcl)
  <2>1. SumOver([k \in DOMAIN pcl.lockup |-> PclUndrawn(pcl, k)], LiveIn(pcl.lockup)) = 0
    BY <1>6, SumEmpty
  <2>2. 0 <= DECIMAL_FRACTIONAL * pcl.reward_balance
    BY <1>2, ScaleAssumption
  <2> QED BY <1>6, <2>1, <2>2 DEF PclFractionsCovered
<1> QED BY <1>5, <1>6, <1>7, <1>8, <1>9 DEF PclOK

\* The invariant holds when the migration begins.
LEMMA MigrationInvInit == MigrationInit => MigrationInv
<1> SUFFICES ASSUME MigrationInit PROVE MigrationInv
  OBVIOUS
<1>1. PclInit
  BY DEF MigrationInit
<1>2. PICK book \in InitialLockups, g \in Generators, share \in IncentivesShares,
           incentives \in Incentives :
          OpenedBooks(book, share) /\ OpenedRest(book, g, incentives)
  <2>1. PICK book \in InitialLockups, g \in Generators, share \in IncentivesShares,
             incentives \in Incentives :
            LET holders == {k[2] : k \in DOMAIN book}
                locked  == [p \in PoolType |-> LockedIn(book, p)]
                staked  == {p \in PoolType : locked[p] # 0}
            IN
            /\ now = WindowsEnd
            /\ lockdrop_config = [auction |-> AUCTION, generator |-> g,
                                  lockdrop_incentives |-> incentives]
            /\ pools_set = TRUE
            /\ amount_in_lockups = locked
            /\ weighted_amount = [p \in PoolType |->
                   SumOver([k \in DOMAIN book |-> calculate_weight(book[k], k[3])],
                           {k \in DOMAIN book : k[1] = p})]
            /\ incentives_share = [p \in PoolType |-> IF p \in staked THEN share[p] ELSE 0]
            /\ is_staked = [p \in PoolType |-> p \in staked]
            /\ ntrn_per_share = ZeroPools
            /\ total_incentives_share = SumOver(share, staked)
            /\ lockup = [k \in DOMAIN book |-> NewLockup(book[k])]
            /\ participants = holders
            /\ positions = [u \in Users |-> Cardinality({k \in DOMAIN book : k[2] = u})]
            /\ total_ntrn_rewards = [u \in Users |-> 0]
            /\ ntrn_transferred = [u \in Users |-> FALSE]
            /\ total_user_lockup = [p \in PoolType |-> [u \in Users |->
                   SumOver(book, {k \in DOMAIN book : k[1] = p /\ k[2] = u})]]
            /\ gen_deposit = [h \in Generators |-> IF h = g THEN locked ELSE ZeroPools]
            /\ gen_pending = [h \in Generators |-> ZeroPools]
            /\ gen_reserve = MAX_ACCRUED
            /\ reward_balance = 0
            /\ incentives_balance = incentives
            /\ lp_held = ZeroPools
            /\ received_ntrn = [u \in Users |-> 0]
            /\ received_lp = [u \in Users |-> ZeroPools]
            /\ PclInit
            /\ lockdrop_migrated = FALSE
    BY DEF MigrationInit
  <2>2. PICK locked, staked : /\ locked = [p \in PoolType |-> LockedIn(book, p)]
                              /\ staked = {p \in PoolType : locked[p] # 0}
    OBVIOUS
  <2>3. \A p \in PoolType : p \in staked <=> LockedIn(book, p) # 0
    BY <2>2
  <2>4. OpenedRest(book, g, incentives)
    BY <2>1 DEF OpenedRest
  <2>5. is_staked = [p \in PoolType |-> LockedIn(book, p) # 0]
    <3>1. is_staked = [p \in PoolType |-> p \in staked]
      BY <2>1, <2>2
    <3> QED BY <2>3, <3>1
  <2>6. incentives_share = [p \in PoolType |-> IF LockedIn(book, p) # 0 THEN share[p] ELSE 0]
    <3>1. incentives_share = [p \in PoolType |-> IF p \in staked THEN share[p] ELSE 0]
      BY <2>1, <2>2
    <3> QED BY <2>3, <3>1
  <2>7. total_incentives_share = SumOver(share, {p \in PoolType : LockedIn(book, p) # 0})
    <3>1. total_incentives_share = SumOver(share, staked)
      BY <2>1, <2>2
    <3>2. staked = {p \in PoolType : LockedIn(book, p) # 0}
      BY <2>2
    <3> QED BY <3>1, <3>2
  <2>8. OpenedBooks(book, share)
    BY <2>1, <2>5, <2>6, <2>7 DEF OpenedBooks
  <2> QED BY <2>4, <2>8
<1>3. BookStarts(book)
  BY BookStartsSo
<1>4. LockdropInv
  BY <1>2, <1>3, OpenedOK
<1>5. /\ LockdropTypeOK /\ LiveLockups = DOMAIN lockup /\ DOMAIN lockup = DOMAIN book
  BY <1>2, <1>3, OpenedTyped
<1>6. GeneratorKnown
  BY <1>2 DEF OpenedRest, GeneratorKnown
<1>7. TermsOK
  <2>1. WindowsEnd \in Nat
    BY LockdropWindowAssumption DEF WindowsEnd, LockCutoff
  <2>2. now >= WindowsEnd
    BY <1>2, <2>1 DEF OpenedRest
  <2> QED BY <1>3, <1>5, <2>2 DEF TermsOK, BookStarts
<1>8. OneTimeRewardsPaid
  <2>1. \A u \in Users : received_ntrn[u] = 0 /\ ntrn_transferred[u] = FALSE
    BY <1>2 DEF OpenedRest
  <2> QED BY <1>5, <2>1 DEF OneTimeRewardsPaid
<1>9. PclOK(pcl)
  BY <1>1, PclInitOK
<1>10. Separate(lockup, amount_in_lockups, pcl)
  <2>1. DOMAIN pcl.lockup = {} /\ \A p \in PoolType : ~pcl.is_staked[p]
    BY <1>1 DEF PclInit
  <2> QED BY <2>1 DEF Separate
<1> QED BY <1>4, <1>6, <1>7, <1>8, <1>9, <1>10 DEF MigrationInv
-----------------------------------------------------------------------------
\* What is unchanged when only the PCL contract moves.
LEMMA LockdropSame ==
    ASSUME MigrationInv, UNCHANGED lockdropVars
    PROVE  /\ LockdropInv' /\ GeneratorKnown' /\ TermsOK' /\ OneTimeRewardsPaid'
           /\ lockup' = lockup /\ LiveLockups' = LiveLockups /\ now' = now
           /\ amount_in_lockups' = amount_in_lockups
<1>1. /\ LockdropInv /\ LockdropTypeOK /\ GeneratorKnown /\ TermsOK /\ OneTimeRewardsPaid
  BY DEF MigrationInv, LockdropInv
<1>2. LockdropInv'
  BY <1>1, LockdropInvStep
<1>3. UNCHANGED <<now, lockdrop_config, lockup, amount_in_lockups, received_ntrn,
                  ntrn_transferred, total_ntrn_rewards>>
  BY DEF lockdropVars, poolVars, lockerVars, lockdropEnv
<1>4. RewardInputsKept
  BY DEF RewardInputsKept, lockdropVars, poolVars, lockerVars
<1>5. LiveLockups' = LiveLockups
  BY <1>3 DEF LiveLockups
<1>6. \A v \in Users : UserReward(v)' = UserReward(v)
  BY <1>1, <1>3, <1>4, UserRewardKept
<1>7. OneTimeRewardsPaid'
  BY <1>1, <1>3, <1>5, <1>6 DEF OneTimeRewardsPaid
<1> QED BY <1>1, <1>2, <1>3, <1>5, <1>7 DEF GeneratorKnown, TermsOK

\* The PCL contract moves, or neither does.
LEMMA PclKeeps ==
    ASSUME MigrationInv, UNCHANGED lockdropVars, PclStep \/ pcl' = pcl
    PROVE  MigrationInv'
<1>1. PclOK(pcl) /\ Separate(lockup, amount_in_lockups, pcl)
  BY DEF MigrationInv
<1>2. /\ PclOK(pcl') /\ DOMAIN pcl'.lockup = DOMAIN pcl.lockup
      /\ pcl'.is_staked = pcl.is_staked
  BY <1>1, PclStepKeeps
<1>3. Separate(lockup, amount_in_lockups, pcl)'
  BY <1>1, <1>2, LockdropSame DEF Separate
<1> QED BY <1>2, <1>3, LockdropSame DEF MigrationInv

\* Every step keeps the invariant.
LEMMA MigrationInvStep == MigrationInv /\ [MigrationStep]_migrationVars => MigrationInv'
<1> SUFFICES ASSUME MigrationInv, [MigrationStep]_migrationVars PROVE MigrationInv'
  OBVIOUS
<1>1. CASE (LockdropStep \/ LockdropTick) /\ UNCHANGED <<pcl, lockdrop_migrated>>
  BY <1>1, LockdropKeeps
<1>2. CASE PclStep /\ UNCHANGED <<lockdropVars, lockdrop_migrated>>
  BY <1>2, PclKeeps
<1>3. CASE lockdrop_migrate
  BY <1>3, PclKeeps DEF lockdrop_migrate
<1>4. ASSUME NEW u \in Users, NEW minted \in [MineOf(u) -> MintedLp],
             handle_migrate_liquidity_to_pcl_pools(u, minted)
      PROVE  MigrationInv'
  BY <1>4, MigrationKeeps
<1>5. CASE UNCHANGED migrationVars
  BY <1>5, PclKeeps DEF migrationVars
<1> QED BY <1>1, <1>2, <1>3, <1>4, <1>5 DEF MigrationStep, MineOf

\* The invariant is one.
LEMMA MigrationInvariant == MigrationSpec => []MigrationInv
<1>1. MigrationInit => MigrationInv
  BY MigrationInvInit
<1>2. MigrationInv /\ [MigrationStep]_migrationVars => MigrationInv'
  BY MigrationInvStep
<1> QED BY <1>1, <1>2, PTL DEF MigrationSpec

\* The ledgers of the PCL contract agree with its lockups and with its LP tokens
\* (PclLedgersAgree), whatever lockups the windows leave, however many LP tokens
\* the PCL pairs mint for them, and in whatever order users are migrated, claim
\* and leave.
THEOREM PclLedgersAgreeAlways == MigrationSpec => []PclLedgersAgree
<1>1. ASSUME PclOK(pcl) PROVE PclLedgersAgree
  <2>1. PclTyped(pcl) /\ PclBooksOK(pcl)
    BY <1>1 DEF PclOK
  <2>2. PclTypeOK
    BY <2>1 DEF PclTyped, PclTypeOK, PclLockups, PclUserInfos
  <2>3. PclLive = LiveIn(pcl.lockup) /\ \A S : PclUnits(S) = UnitsIn(pcl.lockup, S)
    BY DEF PclLive, LiveIn, PclUnits, UnitsIn
  <2>4. \A p \in PoolType : PclLpBalance(p) = BalanceIn(pcl, p)
    BY DEF PclLpBalance, BalanceIn
  <2> QED BY <2>1, <2>2, <2>3, <2>4 DEF PclBooksOK, UnitsAgree, PclLedgersAgree
<1>2. MigrationInv => PclLedgersAgree
  BY <1>1 DEF MigrationInv
<1> QED BY <1>2, MigrationInvariant, PTL

\* PclRewardsCovered follows from its form before the rounding.
LEMMA PclCoveredWhenRounded == ASSUME NEW s, PclOK(s)
    PROVE  SumOver([k \in DOMAIN s.lockup |->
                        MulFloor(s.lockup[k].lp_units_locked, s.rewards_per_share[k[1]])
                            - s.lockup[k].incentives_debt], LiveIn(s.lockup))
               <= s.reward_balance
<1> DEFINE L == LiveIn(s.lockup)
           v == [k \in DOMAIN s.lockup |->
                    MulFloor(s.lockup[k].lp_units_locked, s.rewards_per_share[k[1]])
                        - s.lockup[k].incentives_debt]
           t == [k \in DOMAIN s.lockup |-> PclUndrawn(s, k)]
           F == DECIMAL_FRACTIONAL
<1>1. /\ PclTyped(s) /\ PclFractionsCovered(s) /\ L \subseteq DOMAIN s.lockup
      /\ IsFiniteSet(L)
  BY FS_Subset DEF PclOK, PclTyped, LiveIn
<1>2. ASSUME NEW k \in L
      PROVE  t[k] \in Nat /\ v[k] \in Nat /\ F * v[k] <= 1 * t[k]
  <2>1. k \in DOMAIN s.lockup /\ k[1] \in PoolType
    BY <1>1 DEF PclTyped, Keys
  <2>2. PICK x \in Nat, n \in Nat, y \in Nat :
            /\ x = s.lockup[k].lp_units_locked /\ n = s.rewards_per_share[k[1]]
            /\ y = s.lockup[k].incentives_debt
    BY <1>1, <2>1 DEF PclTyped, PclLockups
  <2>3. PICK c \in Nat : c = MulFloor(x, n)
    BY MulFloorNat
  <2>4. y <= c
    BY <1>1, <2>2, <2>3 DEF PclFractionsCovered
  <2>5. v[k] = c - y /\ t[k] = (x * n) - (F * y)
    BY <2>1, <2>2, <2>3 DEF PclUndrawn
  <2>6. F * c <= x * n
    BY <2>3, MulFloorBelow
  <2>7. PICK z \in Nat, fz \in Nat, fy \in Nat, fc \in Nat, xn \in Nat :
            /\ z = c - y /\ fz = F * z /\ fy = F * y /\ fc = F * c /\ xn = x * n
    BY <2>4, ScaleAssumption
  <2>8. fc = fz + fy
    <3>1. c = z + y
      BY <2>7
    <3>2. F * (z + y) = (F * z) + (F * y)
      BY ScaleAssumption
    <3> QED BY <2>7, <3>1, <3>2
  <2>9. xn - fy \in Nat /\ fz <= 1 * (xn - fy)
    BY <2>6, <2>7, <2>8
  <2> QED BY <2>5, <2>7, <2>9
<1>3. SumOver(t, L) <= F * s.reward_balance
  BY <1>1 DEF PclFractionsCovered
<1>4. s.reward_balance \in Nat
  BY <1>1 DEF PclTyped
<1> HIDE DEF v, t, L
<1>5. F * SumOver(v, L) <= 1 * SumOver(t, L)
  <2>1. F \in Nat /\ 1 \in Nat
    BY ScaleAssumption
  <2>2. \A k \in L : t[k] \in Nat /\ v[k] \in Nat /\ F * v[k] <= 1 * t[k]
    BY <1>2
  <2> QED BY <1>1, <2>1, <2>2, SumOfParts
<1>6. PICK sv \in Nat, st \in Nat, b \in Nat, ff \in Nat \ {0} :
          /\ sv = SumOver(v, L) /\ st = SumOver(t, L) /\ b = s.reward_balance /\ ff = F
  BY <1>1, <1>2, <1>4, SumNat, ScaleAssumption
<1>7. sv <= b
  <2>1. ff * sv <= 1 * st /\ st <= ff * b
    BY <1>3, <1>5, <1>6
  <2>2. ff * sv <= ff * b
    BY <2>1
  <2> QED BY <2>2, ProductCancel
<1> QED BY <1>6, <1>7 DEF v, L

\* The rewards that the PCL contract has claimed cover what its lockups may
\* still draw (PclRewardsCovered): no lockup comes to a pool that is staked
\* already and has earned rewards.
THEOREM PclRewardsCoveredAlways == MigrationSpec => []PclRewardsCovered
<1>1. ASSUME PclOK(pcl) PROVE PclRewardsCovered
  <2>1. PclLive = LiveIn(pcl.lockup)
    BY DEF PclLive, LiveIn
  <2>2. PclFractionsCovered(pcl)
    BY <1>1 DEF PclOK
  <2> QED BY <1>1, <2>1, <2>2, PclCoveredWhenRounded DEF PclFractionsCovered, PclRewardsCovered
<1>2. MigrationInv => PclRewardsCovered
  BY <1>1 DEF MigrationInv
<1> QED BY <1>2, MigrationInvariant, PTL
-----------------------------------------------------------------------------
(***************************************************************************)
(* The refinement of LockupCustody. No lockup is in both contracts, so that *)
(* where its LP tokens are depends on three sets: the live lockups L and    *)
(* all lockups D of the first contract, and the live ones P of the second.  *)
(***************************************************************************)
Where(L, D, P, k) ==
    IF k \in L THEN "xyk" ELSE IF k \in P THEN "pcl" ELSE IF k \in D THEN "returned" ELSE "none"

\* The lockups whose term is over at t.
Ended(t) == {k \in Keys : t > WindowsEnd /\ t >= UnlockTimestamp(k[3])}

\* Place is what these sets say.
LEMMA PlaceIs ==
    MigrationInv =>
        \A k : Place(k) = Where(LiveLockups, DOMAIN lockup, LiveIn(pcl.lockup), k)
<1> SUFFICES ASSUME MigrationInv, NEW k
             PROVE  Place(k) = Where(LiveLockups, DOMAIN lockup, LiveIn(pcl.lockup), k)
  OBVIOUS
<1>1. LiveIn(lockup) = LiveLockups /\ LiveIn(pcl.lockup) = PclLive
  BY DEF LiveIn, LiveLockups, PclLive
<1>2. DOMAIN pcl.lockup \subseteq DOMAIN lockup \ LiveLockups
  BY <1>1 DEF MigrationInv, Separate
<1>3. PclLive \subseteq DOMAIN pcl.lockup /\ LiveLockups \subseteq DOMAIN lockup
  BY DEF PclLive, LiveLockups
<1> QED BY <1>1, <1>2, <1>3 DEF Place, Where

\* The same after a step.
LEMMA PlaceIsNext ==
    MigrationInv' =>
        \A k : Place(k)' = Where(LiveLockups', DOMAIN lockup', LiveIn(pcl'.lockup), k)
<1> SUFFICES ASSUME MigrationInv', NEW k
             PROVE  Place(k)' = Where(LiveLockups', DOMAIN lockup', LiveIn(pcl'.lockup), k)
  OBVIOUS
<1>1. LiveIn(lockup') = LiveLockups' /\ LiveIn(pcl'.lockup) = PclLive'
  BY DEF LiveIn, LiveLockups, PclLive
<1>2. DOMAIN pcl'.lockup \subseteq DOMAIN lockup' \ LiveLockups'
  BY <1>1 DEF MigrationInv, Separate
<1>3. PclLive' \subseteq DOMAIN pcl'.lockup /\ LiveLockups' \subseteq DOMAIN lockup'
  BY DEF PclLive, LiveLockups
<1> QED BY <1>1, <1>2, <1>3 DEF Place, Where

\* A term that is over was not over when the windows closed: it has a length.
LEMMA TermOver ==
    ASSUME MigrationInv, NEW k \in DOMAIN lockup, now >= UnlockTimestamp(k[3])
    PROVE  k \in Keys /\ k \in Ended(now)
<1>1. TermsOK /\ LockdropTypeOK /\ now \in Nat
  BY DEF MigrationInv, LockdropInv
<1>2. k \in Keys
  BY <1>1 DEF LockdropTypeOK
<1>3. k[3] >= MIN_LOCK_DURATION /\ MIN_LOCK_DURATION \in Nat \ {0} /\ k[3] \in Nat
  BY <1>1, <1>2, UnlockNat, LockdropAmountAssumption, LockdropWindowAssumption DEF TermsOK
<1>4. WindowsEnd \in Nat /\ UnlockTimestamp(k[3]) = WindowsEnd + k[3]
  BY LockdropWindowAssumption DEF WindowsEnd, LockCutoff, UnlockTimestamp
<1>5. now > WindowsEnd
  BY <1>1, <1>3, <1>4
<1> QED BY <1>2, <1>5 DEF Ended

\* The steps of LockupCustody, of the contracts' state.
MovesAll(u) ==
    /\ now' = now
    /\ \A k : Place(k)' = IF k[2] = u /\ Place(k) = "xyk" THEN "pcl" ELSE Place(k)

ReturnsOne(key) ==
    /\ now' = now /\ key \in Ended(now) /\ Place(key) \in {"xyk", "pcl"}
    /\ \A k : Place(k)' = IF k = key THEN "returned" ELSE Place(k)

LeavesAll ==
    now' \in Nat /\ now' >= now /\ \A k : Place(k)' = Place(k)

\* The clock stands still while the lockdrop contract moves, and moves alone.
LEMMA ClockAlone ==
    ASSUME LockdropStep \/ LockdropTick
    PROVE  now' = now \/ LiveLockups' = LiveLockups
<1>1. CASE LockdropTick
  BY <1>1 DEF LockdropTick, lockerVars, LiveLockups
<1>2. ASSUME NEW u \in Users, NEW p \in LockPools, NEW d \in LockDurations, NEW w \in BOOLEAN,
             handle_claim_rewards_and_unlock_for_lockup(u, p, d, w)
      PROVE  now' = now
  BY <1>2 DEF handle_claim_rewards_and_unlock_for_lockup
<1>3. CASE LockdropSetup
  BY <1>3 DEF LockdropSetup, GeneratorAccrues, handle_update_config,
              handle_set_token_info, handle_increasing_ntrn_incentives
<1> QED BY <1>1, <1>2, <1>3 DEF LockdropStep

\* A step of the first contract returns one lockup or none.
LEMMA LockdropReturns ==
    ASSUME MigrationInv, LockdropStep \/ LockdropTick, pcl' = pcl
    PROVE  LeavesAll \/ \E key \in Keys : ReturnsOne(key)
<1>1. MigrationInv' /\ LeavesInTime
  BY LockdropKeeps
<1>2. PICK L, L2, D, P : /\ L = LiveLockups /\ L2 = LiveLockups' /\ D = DOMAIN lockup
                         /\ D = DOMAIN lockup' /\ P = LiveIn(pcl.lockup)
                         /\ P = LiveIn(pcl'.lockup)
  BY <1>1 DEF LeavesInTime
<1>3. /\ \A k : Place(k) = Where(L, D, P, k)
      /\ \A k : Place(k)' = Where(L2, D, P, k)
  BY <1>1, <1>2, PlaceIs, PlaceIsNext
<1>4. now' \in Nat /\ now' >= now /\ L2 \subseteq L
  BY <1>1, <1>2 DEF LeavesInTime
<1>5. CASE L2 = L
  BY <1>3, <1>4, <1>5 DEF LeavesAll
<1>6. CASE L2 # L
  <2>1. PICK key \in L : key \notin L2
    BY <1>4, <1>6
  <2>2. L2 = L \ {key}
    BY <1>1, <1>2, <1>4, <2>1 DEF LeavesInTime
  <2>3. now' = now
    BY <1>2, <1>6, ClockAlone
  <2>4. key \in D /\ now >= UnlockTimestamp(key[3])
    BY <1>1, <1>2, <2>1 DEF LeavesInTime, LiveLockups
  <2>5. key \in Keys /\ key \in Ended(now)
    BY <1>2, <2>4, TermOver
  <2>6. key \notin P
    <3>1. LiveIn(lockup) = LiveLockups /\ LiveIn(pcl.lockup) \subseteq DOMAIN pcl.lockup
      BY DEF LiveIn, LiveLockups
    <3>2. DOMAIN pcl.lockup \subseteq DOMAIN lockup \ LiveLockups
      BY <3>1 DEF MigrationInv, Separate
    <3> QED BY <1>2, <2>1, <3>1, <3>2
  <2>7. Place(key) = "xyk"
    BY <1>3, <2>1 DEF Where
  <2>8. \A k : Place(k)' = IF k = key THEN "returned" ELSE Place(k)
    BY <1>3, <2>2, <2>4, <2>6 DEF Where
  <2> QED BY <2>3, <2>5, <2>7, <2>8 DEF ReturnsOne
<1> QED BY <1>5, <1>6

\* So does a step of the second.
LEMMA PclReturns ==
    ASSUME MigrationInv, UNCHANGED lockdropVars, PclStep \/ pcl' = pcl
    PROVE  LeavesAll \/ \E key \in Keys : ReturnsOne(key)
<1>1. MigrationInv' /\ now \in Nat /\ PclOK(pcl)
  BY PclKeeps DEF MigrationInv, LockdropInv
<1>2. PICK L, D, P, P2 : /\ L = LiveLockups /\ L = LiveLockups' /\ D = DOMAIN lockup
                         /\ D = DOMAIN lockup' /\ P = LiveIn(pcl.lockup)
                         /\ P2 = LiveIn(pcl'.lockup)
  BY LockdropSame
<1>3. /\ \A k : Place(k) = Where(L, D, P, k)
      /\ \A k : Place(k)' = Where(L, D, P2, k)
  BY <1>1, <1>2, PlaceIs, PlaceIsNext
<1>4. /\ now' = now /\ P2 \subseteq P
      /\ \A k \in P \ P2 : now >= UnlockTimestamp(k[3])
      /\ \A k, l \in P \ P2 : k = l
  BY <1>1, <1>2, PclStepKeeps, LockdropSame
<1>5. CASE P2 = P
  BY <1>1, <1>3, <1>4, <1>5 DEF LeavesAll
<1>6. CASE P2 # P
  <2>1. PICK key \in P : key \notin P2
    BY <1>4, <1>6
  <2>2. P2 = P \ {key}
    BY <1>4, <2>1
  <2>3. key \in D /\ key \notin L
    <3>1. LiveIn(lockup) = LiveLockups /\ LiveIn(pcl.lockup) \subseteq DOMAIN pcl.lockup
      BY DEF LiveIn, LiveLockups
    <3>2. DOMAIN pcl.lockup \subseteq DOMAIN lockup \ LiveLockups
      BY <3>1 DEF MigrationInv, Separate
    <3> QED BY <1>2, <2>1, <3>1, <3>2
  <2>4. key \in Keys /\ key \in Ended(now)
    BY <1>2, <1>4, <2>1, <2>3, TermOver
  <2>5. Place(key) = "pcl"
    BY <1>3, <2>1, <2>3 DEF Where
  <2>6. \A k : Place(k)' = IF k = key THEN "returned" ELSE Place(k)
    BY <1>3, <2>2, <2>3 DEF Where
  <2> QED BY <1>4, <2>4, <2>5, <2>6 DEF ReturnsOne
<1> QED BY <1>5, <1>6

\* The migration of a user moves all the lockups that the user has.
LEMMA MigrationMoves ==
    ASSUME MigrationInv, NEW u \in Users, NEW minted \in [MineOf(u) -> MintedLp],
           handle_migrate_liquidity_to_pcl_pools(u, minted)
    PROVE  MovesAll(u)
<1>1. /\ MigrationInv' /\ DOMAIN lockup' = DOMAIN lockup /\ now' = now
      /\ LiveLockups' = LiveLockups \ MineOf(u) /\ Handed(pcl', MineOf(u))
  BY MigrationKeeps
<1>2. PICK L, M, D, P, P2 : /\ L = LiveLockups /\ M = MineOf(u) /\ D = DOMAIN lockup
                            /\ P = LiveIn(pcl.lockup) /\ P2 = LiveIn(pcl'.lockup)
  OBVIOUS
<1>3. /\ \A k : Place(k) = Where(L, D, P, k)
      /\ \A k : Place(k)' = Where(L \ M, D, P2, k)
  BY <1>1, <1>2, PlaceIs, PlaceIsNext
<1>4. P2 = P \cup M
  BY <1>1, <1>2 DEF Handed, LiveIn
<1>5. M = {k \in L : k[2] = u}
  BY <1>2 DEF MineOf
<1>6. \A k : Place(k)' = IF k[2] = u /\ Place(k) = "xyk" THEN "pcl" ELSE Place(k)
  BY <1>3, <1>4, <1>5 DEF Where
<1> QED BY <1>1, <1>6 DEF MovesAll

\* Every step is one of LockupCustody's.
LEMMA CustodyStep ==
    ASSUME MigrationInv, [MigrationStep]_migrationVars
    PROVE  LeavesAll \/ (\E u \in Users : MovesAll(u)) \/ \E key \in Keys : ReturnsOne(key)
<1>1. CASE (LockdropStep \/ LockdropTick) /\ UNCHANGED <<pcl, lockdrop_migrated>>
  BY <1>1, LockdropReturns
<1>2. CASE PclStep /\ UNCHANGED <<lockdropVars, lockdrop_migrated>>
  BY <1>2, PclReturns
<1>3. CASE lockdrop_migrate
  BY <1>3, PclReturns DEF lockdrop_migrate
<1>4. ASSUME NEW u \in Users, NEW minted \in [MineOf(u) -> MintedLp],
             handle_migrate_liquidity_to_pcl_pools(u, minted)
      PROVE  MovesAll(u)
  BY <1>4, MigrationMoves
<1>5. CASE UNCHANGED migrationVars
  BY <1>5, PclReturns DEF migrationVars
<1> QED BY <1>1, <1>2, <1>3, <1>4, <1>5 DEF MigrationStep, MineOf

\* The two contracts together implement LockupCustody (CustodyKept): the chain
\* of callbacks moves all lockups of a user or none, no lockup is lost or in
\* both contracts, and its LP tokens are returned once and by its term.
THEOREM CustodyImplemented == MigrationSpec => CustodyKept
<1>1. MigrationInit => Custody!CustodyInit
  <2> SUFFICES ASSUME MigrationInit PROVE Custody!CustodyInit
    OBVIOUS
  <2>1. MigrationInv /\ now = WindowsEnd /\ PclInit
    BY MigrationInvInit DEF MigrationInit
  <2>2. LiveIn(pcl.lockup) = {}
    BY <2>1 DEF PclInit, LiveIn
  <2>3. LiveLockups = DOMAIN lockup
    <3>1. PICK book : lockup = [k \in DOMAIN book |-> NewLockup(book[k])]
      BY DEF MigrationInit
    <3> QED BY <3>1 DEF LiveLockups, NewLockup
  <2>4. \A k \in Keys : Place(k) \in {"none", "xyk"}
    BY <2>1, <2>2, <2>3, PlaceIs DEF Where
  <2>5. WindowsEnd \in Nat
    BY LockdropWindowAssumption DEF WindowsEnd, LockCutoff
  <2>6. {k \in Keys : now > WindowsEnd /\ now >= UnlockTimestamp(k[3])} = {}
    BY <2>1, <2>5
  <2> QED BY <2>4, <2>6 DEF Custody!CustodyInit
<1>2. MigrationInv /\ [MigrationStep]_migrationVars
        => [Custody!CustodyNext]_<<[k \in Keys |-> Place(k)],
               {k \in Keys : now > WindowsEnd /\ now >= UnlockTimestamp(k[3])}>>
  <2> SUFFICES ASSUME MigrationInv, [MigrationStep]_migrationVars
               PROVE  Custody!CustodyNext
    OBVIOUS
  <2>1. CASE LeavesAll
    <3>1. [k \in Keys |-> Place(k)]' = [k \in Keys |-> Place(k)]
      BY <2>1 DEF LeavesAll
    <3>2. Ended(now) \subseteq Ended(now')
      <4>1. now \in Nat /\ WindowsEnd \in Nat /\ now' \in Nat /\ now' >= now
        BY <2>1, LockdropWindowAssumption
           DEF LeavesAll, MigrationInv, LockdropInv, WindowsEnd, LockCutoff
      <4> QED BY <4>1, UnlockNat DEF Ended
    <3> QED BY <3>1, <3>2 DEF Custody!CustodyNext, Custody!Expire, Ended
  <2>2. ASSUME NEW u \in Users, MovesAll(u) PROVE Custody!Move(u)
    BY <2>2 DEF MovesAll, Custody!Move
  <2>3. ASSUME NEW key \in Keys, ReturnsOne(key) PROVE Custody!Return(key)
    BY <2>3 DEF ReturnsOne, Ended, Custody!Return
  <2> QED BY <2>1, <2>2, <2>3, CustodyStep DEF Custody!CustodyNext
<1> QED BY <1>1, <1>2, MigrationInvariant, PTL
        DEF MigrationSpec, CustodyKept, Custody!CustodySpec
-----------------------------------------------------------------------------
\* Lockups of nothing add up to nothing.
LEMMA NoUnits ==
    ASSUME LockupsKnown, NEW S \in SUBSET LiveLockups, \A k \in S : lockup[k].lp_units_locked = 0
    PROVE  UnitsOf(S) = 0
<1>1. S \subseteq DOMAIN lockup /\ IsFiniteSet(S)
  BY FS_Subset DEF LockupsKnown, LiveLockups
<1> DEFINE units == [k \in DOMAIN lockup |-> lockup[k].lp_units_locked]
<1>2. \A k \in S : units[k] = 0
  BY <1>1
<1> HIDE DEF units
<1>3. SumOver(units, S) = 0
  BY <1>1, <1>2, SumZero
<1> QED BY <1>3 DEF UnitsOf, units

\* The XYK contract is left without obligations (NoObligationsLeft): whatever
\* order users are migrated, claim and leave in, when the lockups of a staked
\* pool are gone so are its stake and its totals, and everybody who held one has
\* been paid the one time reward.
THEOREM NoObligationsLeftAlways == MigrationSpec => []NoObligationsLeft
<1>1. ASSUME MigrationInv PROVE NoObligationsLeft
  <2>1. /\ LockdropTypeOK /\ LockupsKnown /\ LedgersAgree /\ LockupsWhole
        /\ OneTimeRewardsPaid
    BY <1>1 DEF MigrationInv, LockdropInv
  <2> SUFFICES ASSUME NEW p \in PoolType, is_staked[p], AllGone(p)
               PROVE  /\ amount_in_lockups[p] = 0
                      /\ gen_deposit[lockdrop_config.generator][p] = 0
                      /\ \A u \in Users : total_user_lockup[p][u] = 0
                      /\ \A k \in DOMAIN lockup :
                             k[1] = p /\ lockup[k].lp_units_locked > 0 =>
                                 ntrn_transferred[k[2]] /\ received_ntrn[k[2]] = UserReward(k[2])
    BY DEF NoObligationsLeft
  <2>2. \A k \in LiveLockups : k[1] = p => lockup[k].lp_units_locked = 0
    BY DEF AllGone
  <2>3. amount_in_lockups[p] = 0
    <3>1. UnitsOf({k \in LiveLockups : k[1] = p}) = 0
      BY <2>1, <2>2, NoUnits
    <3> QED BY <2>1, <3>1 DEF LedgersAgree
  <2>4. gen_deposit[lockdrop_config.generator][p] = 0
    BY <2>1, <2>3 DEF LockupsWhole
  <2>5. ASSUME NEW u \in Users PROVE total_user_lockup[p][u] = 0
    <3>1. UnitsOf({k \in LiveLockups : k[1] = p /\ k[2] = u}) = 0
      BY <2>1, <2>2, NoUnits
    <3> QED BY <2>1, <3>1 DEF LedgersAgree
  <2>6. ASSUME NEW k \in DOMAIN lockup, k[1] = p, lockup[k].lp_units_locked > 0
        PROVE  ntrn_transferred[k[2]] /\ received_ntrn[k[2]] = UserReward(k[2])
    <3>1. k \notin LiveLockups
      BY <2>2, <2>6
    <3>2. ntrn_transferred[k[2]]
      BY <2>1, <3>1 DEF OneTimeRewardsPaid
    <3>3. k[2] \in Users
      BY <2>1 DEF LockdropTypeOK, Keys
    <3> QED BY <2>1, <3>2, <3>3 DEF OneTimeRewardsPaid
  <2> QED BY <2>3, <2>4, <2>5, <2>6
<1>2. MigrationInv => NoObligationsLeft
  BY <1>1
<1> QED BY <1>2, MigrationInvariant, PTL
=============================================================================
