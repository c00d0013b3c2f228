--------------------------- MODULE LockdropProofs ---------------------------
(***************************************************************************)
(* Theorems about the lockdrop contract: its ledgers agree, every lockup is *)
(* worth its units, the generator's rewards suffice for whatever the        *)
(* lockups may still draw, and the one time rewards are independent of the  *)
(* order of the claims and covered by the incentives.                       *)
(***************************************************************************)
EXTENDS Lockdrop, TgeTheorems

\* Every lockup belongs to a user on record and has a duration with a weight.
LockupsKnown ==
    /\ IsFiniteSet(DOMAIN lockup)
    /\ \A k \in DOMAIN lockup : k[2] \in participants /\ k[3] \in DOMAIN LockWeight

\* Before its LP tokens are staked nothing has happened to a pool.
UnstakedOK ==
    \A p \in PoolType : ~is_staked[p] =>
        /\ ntrn_per_share[p] = 0 /\ incentives_share[p] = 0
        /\ \A g \in Generators : gen_deposit[g][p] = 0
        /\ \A k \in DOMAIN lockup : k[1] = p =>
               /\ lockup[k].astroport_lp_transferred = NONE
               /\ lockup[k].generator_ntrn_debt = 0

\* A staked pool has a generator, and there were lockups to stake.
StakedOK ==
    \A p \in PoolType : is_staked[p] =>
        /\ lockdrop_config.generator \in Generators
        /\ participants # {}

\* The LP tokens are in the generator, never in the contract.
NothingHeld == lp_held = ZeroPools

\* What a lockup has earned and not drawn, in Decimal fractions.
Undrawn(k) ==
    (lockup[k].lp_units_locked * ntrn_per_share[k[1]])
        - (DECIMAL_FRACTIONAL * lockup[k].generator_ntrn_debt)

(***************************************************************************)
(* GeneratorRewardsCovered before the rounding: a lockup whose fraction was *)
(* cut off at one claim gets it with the next, so what the lockups may draw *)
(* grows by more than the new rewards, rounded down for each of them. The   *)
(* exact amounts do not.                                                    *)
(***************************************************************************)
FractionsCovered ==
    /\ \A k \in LiveLockups :
           lockup[k].generator_ntrn_debt
               <= MulFloor(lockup[k].lp_units_locked, ntrn_per_share[k[1]])
    /\ SumOver([k \in DOMAIN lockup |-> Undrawn(k)], LiveLockups)
           <= DECIMAL_FRACTIONAL * reward_balance

\* The inductive invariant.
LockdropInv ==
    /\ now \in Nat
    /\ LockdropTypeOK /\ LockupsKnown /\ UnstakedOK /\ StakedOK /\ NothingHeld
    /\ LedgersAgree /\ LockupsWhole /\ FractionsCovered
(***************************************************************************)
(* LockdropSpec bounds what the auction asks for, so that TLC can enumerate *)
(* it: an amount of LockAmounts up to MAX_LOCKED, shares of                 *)
(* IncentivesShares. Nothing depends on the bounds: the invariants are      *)
(* proved for an auction that names any amount and any shares.              *)
(***************************************************************************)
AnyAuctionCalls ==
    /\ ~PoolsInitialised
    /\ \/ \E s \in AuctionAddrs, u \in Users, p \in LockPools, d \in LockDurations, a \in Nat :
              \/ handle_increase_lockup(s, u, p, d, a)
              \/ handle_withdraw_from_lockup(s, u, p, d, a)
       \/ \E s \in AuctionAddrs, share \in [PoolType -> Nat] :
              handle_initialize_pool(s, share, amount_in_lockups)

UnboundedNext == LockdropTick \/ LockdropStep \/ AnyAuctionCalls

UnboundedSpec == LockdropInit /\ [][UnboundedNext]_lockdropVars

\* A bounded call is one of any.
LEMMA AuctionCallsAny == AuctionCalls => AnyAuctionCalls
BY LockdropAmountAssumption DEF AuctionCalls, AnyAuctionCalls, PoolsInitialised

\* The bounds only leave behaviours out.
LEMMA BoundedIsUnbounded == LockdropSpec => UnboundedSpec
<1>1. [LockdropNext]_lockdropVars => [UnboundedNext]_lockdropVars
  BY AuctionCallsAny DEF LockdropNext, UnboundedNext
<1> QED BY <1>1, PTL DEF LockdropSpec, UnboundedSpec
-----------------------------------------------------------------------------
(***************************************************************************)
(* The ledgers, as a predicate on the lockup records l and the two totals,  *)
(* and a change of one record.                                              *)
(***************************************************************************)
BookOK(l) ==
    /\ IsFiniteSet(DOMAIN l) /\ DOMAIN l \subseteq Keys
    /\ \A k \in DOMAIN l : l[k] \in LockupRecords

\* All that matters to the sums of a book.
Counted(l) ==
    IsFiniteSet(DOMAIN l) /\ \A k \in DOMAIN l : l[k].lp_units_locked \in Nat

\* The lockups of the book that have not been returned.
LiveIn(l) == {k \in DOMAIN l : l[k].astroport_lp_transferred = NONE}

\* The units of a set of lockups.
UnitsIn(l, S) == SumOver([k \in DOMAIN l |-> l[k].lp_units_locked], S)

\* The totals are the sums of the live lockups' units.
UnitsAgree(l, amount, user) ==
    \A p \in PoolType :
        /\ amount[p] = UnitsIn(l, {k \in LiveIn(l) : k[1] = p})
        /\ \A u \in Users :
               user[p][u] = UnitsIn(l, {k \in LiveIn(l) : k[1] = p /\ k[2] = u})

\* The live units change at key only, by d.
UnitsMoveAt(l, l2, key, d) ==
    /\ d \in Int
    /\ DOMAIN l2 \ {key} = DOMAIN l \ {key}
    /\ \A k \in DOMAIN l \ {key} :
           /\ l2[k].lp_units_locked = l[k].lp_units_locked
           /\ l2[k].astroport_lp_transferred = l[k].astroport_lp_transferred
    /\ (IF key \in LiveIn(l2) THEN l2[key].lp_units_locked ELSE 0)
           = (IF key \in LiveIn(l) THEN l[key].lp_units_locked ELSE 0) + d

\* So do the totals of its pool and of its user.
TotalsMoveAt(amount, amount2, user, user2, key, d) ==
    \A p \in PoolType :
        /\ amount2[p] = IF p = key[1] THEN amount[p] + d ELSE amount[p]
        /\ \A u \in Users :
               user2[p][u] = IF p = key[1] /\ u = key[2] THEN user[p][u] + d
                             ELSE user[p][u]

\* The sums of a book of lockups are defined.
LEMMA BookCounted == ASSUME NEW l, BookOK(l) PROVE Counted(l)
BY DEF BookOK, Counted, LockupRecords

\* A part of the live lockups, before and after.
LEMMA PartMoves ==
    ASSUME NEW l, NEW l2, NEW key, NEW d, Counted(l), Counted(l2),
           UnitsMoveAt(l, l2, key, d), NEW Q
    PROVE  /\ key \in Q => UnitsIn(l2, LiveIn(l2) \cap Q) = UnitsIn(l, LiveIn(l) \cap Q) + d
           /\ key \notin Q => UnitsIn(l2, LiveIn(l2) \cap Q) = UnitsIn(l, LiveIn(l) \cap Q)
<1> DEFINE A == LiveIn(l) \cap Q
           B == LiveIn(l2) \cap Q
           f == [k \in DOMAIN l |-> l[k].lp_units_locked]
           g == [k \in DOMAIN l2 |-> l2[k].lp_units_locked]
<1>1. IsFiniteSet(A) /\ IsFiniteSet(B)
  <2>1. A \subseteq DOMAIN l /\ B \subseteq DOMAIN l2
    BY DEF LiveIn
  <2> QED BY <2>1, FS_Subset DEF Counted
<1>2. A \ {key} = B \ {key}
  BY DEF UnitsMoveAt, LiveIn
<1>3. /\ \A y \in A : f[y] \in Int
      /\ \A y \in B : g[y] \in Int
  BY DEF Counted, LiveIn
<1>4. \A y \in A \ {key} : g[y] = f[y]
  BY DEF UnitsMoveAt, LiveIn
<1>5. UnitsIn(l2, B) = SumOver(g, B) /\ UnitsIn(l, A) = SumOver(f, A)
  BY DEF UnitsIn
<1>6. CASE key \in Q
  <2>1. (IF key \in B THEN g[key] ELSE 0) = (IF key \in A THEN f[key] ELSE 0) + d
    BY <1>6 DEF UnitsMoveAt, LiveIn
  <2>2. MovesAt(A, f, B, g, key, d)
    BY <1>2, <1>3, <1>4, <2>1 DEF MovesAt, UnitsMoveAt
  <2> HIDE DEF A, B, f, g
  <2>3. SumOver(g, B) = SumOver(f, A) + d
    BY <1>1, <2>2, SumMove
  <2> QED BY <1>5, <1>6, <2>3 DEF A, B
<1>7. CASE key \notin Q
  <2>1. A = B /\ \A y \in A : f[y] = g[y]
    BY <1>2, <1>4, <1>7
  <2>2. SumOver(f, A) = SumOver(g, A)
    <3> HIDE DEF A, B, f, g
    <3> QED BY <1>1, <2>1, SumEqual
  <2> QED BY <1>5, <1>7, <2>1, <2>2
<1> QED BY <1>6, <1>7

\* Totals that move with the units keep agreeing with them.
LEMMA UnitsAgreeMove ==
    ASSUME NEW l, NEW l2, NEW key, NEW d, NEW amount, NEW amount2, NEW user, NEW user2,
           Counted(l), Counted(l2), UnitsMoveAt(l, l2, key, d),
           UnitsAgree(l, amount, user), TotalsMoveAt(amount, amount2, user, user2, key, d)
    PROVE  UnitsAgree(l2, amount2, user2)
<1> SUFFICES ASSUME NEW p \in PoolType
             PROVE  /\ amount2[p] = UnitsIn(l2, {k \in LiveIn(l2) : k[1] = p})
                    /\ \A u \in Users : user2[p][u] =
                           UnitsIn(l2, {k \in LiveIn(l2) : k[1] = p /\ k[2] = u})
  BY DEF UnitsAgree
<1>1. amount2[p] = UnitsIn(l2, {k \in LiveIn(l2) : k[1] = p})
  <2> DEFINE Q == {k \in LiveIn(l) \cup LiveIn(l2) \cup {key} : k[1] = p}
  <2>1. /\ LiveIn(l) \cap Q = {k \in LiveIn(l) : k[1] = p}
        /\ LiveIn(l2) \cap Q = {k \in LiveIn(l2) : k[1] = p}
        /\ key \in Q <=> key[1] = p
    OBVIOUS
  <2>2. amount[p] = UnitsIn(l, LiveIn(l) \cap Q)
    BY <2>1 DEF UnitsAgree
  <2>3. amount2[p] = IF p = key[1] THEN amount[p] + d ELSE amount[p]
    BY DEF TotalsMoveAt
  <2> HIDE DEF Q
  <2>4. amount2[p] = UnitsIn(l2, LiveIn(l2) \cap Q)
    BY <2>1, <2>2, <2>3, PartMoves
  <2> QED BY <2>1, <2>4
<1>2. ASSUME NEW u \in Users
      PROVE  user2[p][u] = UnitsIn(l2, {k \in LiveIn(l2) : k[1] = p /\ k[2] = u})
  <2> DEFINE Q == {k \in LiveIn(l) \cup LiveIn(l2) \cup {key} : k[1] = p /\ k[2] = u}
  <2>1. /\ LiveIn(l) \cap Q = {k \in LiveIn(l) : k[1] = p /\ k[2] = u}
        /\ LiveIn(l2) \cap Q = {k \in LiveIn(l2) : k[1] = p /\ k[2] = u}
        /\ key \in Q <=> (key[1] = p /\ key[2] = u)
    OBVIOUS
  <2>2. user[p][u] = UnitsIn(l, LiveIn(l) \cap Q)
    BY <2>1 DEF UnitsAgree
  <2>3. user2[p][u] = IF p = key[1] /\ u = key[2] THEN user[p][u] + d ELSE user[p][u]
    BY DEF TotalsMoveAt
  <2> HIDE DEF Q
  <2>4. user2[p][u] = UnitsIn(l2, LiveIn(l2) \cap Q)
    BY <2>1, <2>2, <2>3, PartMoves
  <2> QED BY <2>1, <2>4
<1> QED BY <1>1, <1>2

\* The number of a user's records, as a predicate on the book.
PositionsAgree(l, counter) ==
    \A u \in Users : counter[u] = Cardinality({k \in DOMAIN l : k[2] = u})

\* LedgersAgree in these terms, in a state and in the next.
LEMMA LedgersAre ==
    /\ LedgersAgree <=> /\ UnitsAgree(lockup, amount_in_lockups, total_user_lockup)
                        /\ PositionsAgree(lockup, positions)
    /\ LedgersAgree' <=> /\ UnitsAgree(lockup', amount_in_lockups', total_user_lockup')
                         /\ PositionsAgree(lockup', positions')
BY DEF LedgersAgree, UnitsAgree, PositionsAgree, UnitsOf, UnitsIn, LiveLockups, LiveIn,
       UserKeys
-----------------------------------------------------------------------------
\* Nothing has happened to the instantiated contract.
LEMMA LockdropInvInit == LockdropInit => LockdropInv
<1> SUFFICES ASSUME LockdropInit PROVE LockdropInv
  OBVIOUS
<1>1. LockdropTypeOK
  <2>1. /\ lockdrop_config \in [auction : AuctionAddrs, generator : Generators \cup {NONE},
                                lockdrop_incentives : Nat]
        /\ DOMAIN lockup = {}
    BY LockdropAddressAssumption DEF LockdropInit
  <2>2. /\ positions \in [Users -> 0..MAX_POSITIONS_PER_USER]
        /\ total_ntrn_rewards \in [Users -> Nat]
        /\ total_user_lockup \in [PoolType -> [Users -> Nat]]
    BY LockdropWindowAssumption DEF LockdropInit
  <2>3. ZeroPools \in [PoolType -> Nat]
    BY DEF ZeroPools
  <2>4. /\ gen_deposit \in [Generators -> [PoolType -> Nat]]
        /\ gen_pending \in [Generators -> [PoolType -> Nat]]
        /\ received_lp \in [Users -> [PoolType -> Nat]]
    BY <2>3 DEF LockdropInit
  <2>5. gen_reserve \in Nat
    BY LockdropAmountAssumption DEF LockdropInit
  <2> QED BY <2>1, <2>2, <2>3, <2>4, <2>5 DEF LockdropInit, LockdropTypeOK
<1>2. DOMAIN lockup = {} /\ LiveLockups = {}
  BY DEF LockdropInit, LiveLockups
<1>3. LockupsKnown
  BY <1>2, FS_EmptySet DEF LockupsKnown
<1>4. UnstakedOK /\ StakedOK /\ NothingHeld
  BY <1>2 DEF LockdropInit, UnstakedOK, StakedOK, NothingHeld, ZeroPools
<1>5. LedgersAgree
  <2>1. ASSUME NEW p \in PoolType
        PROVE  /\ {k \in LiveLockups : k[1] = p} = {}
               /\ \A u \in Users : {k \in LiveLockups : k[1] = p /\ k[2] = u} = {}
    BY <1>2
  <2>2. UnitsOf({}) = 0
    BY SumEmpty DEF UnitsOf
  <2>3. \A u \in Users : Cardinality(UserKeys(u)) = 0
    BY <1>2, FS_EmptySet DEF UserKeys
  <2> QED BY <2>1, <2>2, <2>3 DEF LedgersAgree, LockdropInit, ZeroPools
<1>6. LockupsWhole
  BY <1>2 DEF LockupsWhole, LockdropInit
<1>7. FractionsCovered
  <2>1. SumOver([k \in DOMAIN lockup |-> Undrawn(k)], LiveLockups) = 0
    BY <1>2, SumEmpty
  <2>2. reward_balance = 0
    BY DEF LockdropInit
  <2>3. 0 <= DECIMAL_FRACTIONAL * 0
    BY ScaleAssumption
  <2> QED BY <1>2, <2>1, <2>2, <2>3 DEF FractionsCovered
<1>8. now \in Nat
  BY LockdropWindowAssumption DEF LockdropInit
<1> QED BY <1>1, <1>3, <1>4, <1>5, <1>6, <1>7, <1>8 DEF LockdropInv

\* A step that leaves lockups, pools and stakes alone, and the generator of
\* staked pools.
LEMMA StaysOK ==
    ASSUME LockdropInv, LockdropTypeOK', now' \in Nat,
           UNCHANGED <<amount_in_lockups, is_staked, ntrn_per_share, incentives_share,
                       lockup, participants, positions, total_user_lockup,
                       gen_deposit, reward_balance, lp_held>>,
           PoolsInitialised => lockdrop_config'.generator = lockdrop_config.generator
    PROVE  LockdropInv'
<1>0. /\ UNCHANGED <<lockup, participants>>
      /\ UNCHANGED <<is_staked, ntrn_per_share, incentives_share, gen_deposit, lp_held>>
      /\ UNCHANGED <<amount_in_lockups, total_user_lockup, positions, reward_balance>>
  OBVIOUS
<1>1. LockupsKnown'
  BY <1>0 DEF LockdropInv, LockupsKnown
<1>2. UnstakedOK'
  BY <1>0 DEF LockdropInv, UnstakedOK
<1>3. StakedOK'
  BY <1>0 DEF LockdropInv, StakedOK, PoolsInitialised
<1>4. NothingHeld'
  BY <1>0 DEF LockdropInv, NothingHeld
<1>5. LedgersAgree'
  BY <1>0, LedgersAre DEF LockdropInv
<1>6. LockupsWhole'
  BY <1>0 DEF LockdropInv, LockupsWhole, LiveLockups, PoolsInitialised
<1>7. FractionsCovered'
  BY <1>0 DEF LockdropInv, FractionsCovered, LiveLockups, Undrawn
<1> QED BY <1>1, <1>2, <1>3, <1>4, <1>5, <1>6, <1>7 DEF LockdropInv

\* The clock, the generator's rewards, incentives and configuration.
LEMMA SimpleSteps ==
    ASSUME LockdropInv
    PROVE  /\ LockdropTick => LockdropInv'
           /\ \A g \in Generators, p \in PoolType, amount \in Accruals :
                  GeneratorAccrues(g, p, amount) => LockdropInv'
           /\ \A s \in Senders, m \in LockdropUpdateMsgs :
                  handle_update_config(s, m) => LockdropInv'
           /\ \A amount \in Incentives :
                  handle_increasing_ntrn_incentives(amount) => LockdropInv'
<1> USE DEF lockdropEnv, poolVars, lockerVars
<1>0. LockdropTypeOK /\ now \in Nat /\ StakedOK
  BY DEF LockdropInv
<1>1. ASSUME LockdropTick PROVE LockdropInv'
  <2>1. LockdropTypeOK' /\ now' \in Nat
    BY <1>0, <1>1 DEF LockdropTick, NextBlock, LockdropTypeOK
  <2> QED BY <1>1, <2>1, StaysOK DEF LockdropTick
<1>2. ASSUME NEW g \in Generators, NEW p \in PoolType, NEW amount \in Accruals,
             GeneratorAccrues(g, p, amount)
      PROVE  LockdropInv'
  <2>1. amount \in Nat
    BY LockdropAmountAssumption
  <2>2. gen_reserve' \in Nat /\ gen_pending' \in [Generators -> [PoolType -> Nat]]
    BY <1>0, <1>2, <2>1 DEF GeneratorAccrues, LockdropTypeOK
  <2>3. LockdropTypeOK' /\ now' \in Nat
    BY <1>0, <1>2, <2>2 DEF GeneratorAccrues, LockdropTypeOK
  <2> QED BY <1>2, <2>3, StaysOK DEF GeneratorAccrues
<1>3. ASSUME NEW s \in Senders, NEW m \in LockdropUpdateMsgs, handle_update_config(s, m)
      PROVE  LockdropInv'
  <2>1. lockdrop_config' \in [auction : AuctionAddrs,
                              generator : Generators \cup {NONE}, lockdrop_incentives : Nat]
    BY <1>0, <1>3, LockdropAddressAssumption DEF handle_update_config, LockdropTypeOK
  <2>2. LockdropTypeOK' /\ now' \in Nat
    BY <1>0, <1>3, <2>1 DEF handle_update_config, LockdropTypeOK
  <2>3. PoolsInitialised => lockdrop_config'.generator = lockdrop_config.generator
    <3> SUFFICES ASSUME PoolsInitialised
                 PROVE  lockdrop_config'.generator = lockdrop_config.generator
      OBVIOUS
    <3>1. lockdrop_config.generator # NONE
      BY <1>0, LockdropAddressAssumption DEF StakedOK, PoolsInitialised
    <3>2. m.generator = NONE
      BY <1>3, <3>1 DEF handle_update_config, PoolsInitialised
    <3> QED BY <1>0, <1>3, <3>2 DEF handle_update_config, LockdropTypeOK
  <2> QED BY <1>3, <2>2, <2>3, StaysOK DEF handle_update_config
<1>4. ASSUME NEW amount \in Incentives, handle_increasing_ntrn_incentives(amount)
      PROVE  LockdropInv'
  <2>1. amount \in Nat
    BY LockdropAmountAssumption
  <2>2. /\ lockdrop_config' \in [auction : AuctionAddrs,
                              generator : Generators \cup {NONE}, lockdrop_incentives : Nat]
        /\ lockdrop_config'.generator = lockdrop_config.generator
        /\ incentives_balance' \in Nat
    <3>1. PICK n \in Nat : n = lockdrop_config.lockdrop_incentives + amount
      BY <1>0, <2>1 DEF LockdropTypeOK
    <3>2. lockdrop_config' = [lockdrop_config EXCEPT !.lockdrop_incentives = n]
      BY <1>4, <3>1 DEF handle_increasing_ntrn_incentives
    <3>3. incentives_balance' \in Nat
      BY <1>0, <1>4, <2>1 DEF handle_increasing_ntrn_incentives, LockdropTypeOK
    <3> QED BY <1>0, <3>2, <3>3 DEF LockdropTypeOK
  <2>3. LockdropTypeOK' /\ now' \in Nat
    BY <1>0, <1>4, <2>2 DEF handle_increasing_ntrn_incentives, LockdropTypeOK
  <2> QED BY <1>4, <2>2, <2>3, StaysOK DEF handle_increasing_ntrn_incentives
<1> QED BY <1>1, <1>2, <1>3, <1>4
-----------------------------------------------------------------------------
\* As long as no pool is staked there is nothing to draw and nothing returned.
LEMMA FreshOK ==
    LockdropTypeOK /\ LockupsKnown /\ UnstakedOK /\ ~PoolsInitialised
        => StakedOK /\ LockupsWhole /\ FractionsCovered
<1> SUFFICES ASSUME LockdropTypeOK, LockupsKnown, UnstakedOK, ~PoolsInitialised
             PROVE  StakedOK /\ LockupsWhole /\ FractionsCovered
  OBVIOUS
<1>1. \A p \in PoolType : ~is_staked[p]
  BY DEF PoolsInitialised
<1>2. ASSUME NEW k \in DOMAIN lockup
      PROVE  /\ lockup[k].astroport_lp_transferred = NONE
             /\ lockup[k].generator_ntrn_debt = 0
             /\ ntrn_per_share[k[1]] = 0
             /\ lockup[k].lp_units_locked \in Nat
  <2>1. k[1] \in PoolType
    BY DEF LockdropTypeOK, Keys
  <2> QED BY <1>1, <2>1 DEF UnstakedOK, LockdropTypeOK, LockupRecords
<1>3. StakedOK /\ LockupsWhole
  BY <1>1, <1>2 DEF StakedOK, LockupsWhole, LiveLockups
<1>4. FractionsCovered
  <2>1. LiveLockups \subseteq DOMAIN lockup /\ IsFiniteSet(LiveLockups)
    BY FS_Subset DEF LiveLockups, LockupsKnown
  <2>2. ASSUME NEW k \in LiveLockups
        PROVE  lockup[k].generator_ntrn_debt
                   <= MulFloor(lockup[k].lp_units_locked, ntrn_per_share[k[1]])
    <3>1. /\ lockup[k].generator_ntrn_debt = 0 /\ ntrn_per_share[k[1]] = 0
          /\ lockup[k].lp_units_locked \in Nat
      BY <1>2, <2>1
    <3>2. MulFloor(lockup[k].lp_units_locked, 0) \in Nat
      <4>1. 0 \in Nat
        OBVIOUS
      <4> QED BY <3>1, <4>1, MulFloorNat
    <3> QED BY <3>1, <3>2
  <2>3. ASSUME NEW k \in LiveLockups PROVE Undrawn(k) = 0
    <3>1. PICK n \in Nat : n = lockup[k].lp_units_locked
      BY <1>2, <2>1
    <3>2. (n * 0) - (DECIMAL_FRACTIONAL * 0) = 0
      BY ScaleAssumption
    <3> QED BY <1>2, <2>1, <3>1, <3>2 DEF Undrawn
  <2>4. PICK f : f = [k \in DOMAIN lockup |-> Undrawn(k)]
    OBVIOUS
  <2>5. \A k \in LiveLockups : f[k] = 0
    BY <2>1, <2>3, <2>4
  <2>6. SumOver(f, LiveLockups) = 0
    BY <2>1, <2>5, SumZero
  <2>7. 0 <= DECIMAL_FRACTIONAL * reward_balance
    BY ScaleAssumption DEF LockdropTypeOK
  <2> QED BY <2>2, <2>4, <2>6, <2>7 DEF FractionsCovered
<1> QED BY <1>3, <1>4

\* The same after a step.
LEMMA FreshOKNext ==
    LockdropTypeOK' /\ LockupsKnown' /\ UnstakedOK' /\ ~PoolsInitialised'
        => StakedOK' /\ LockupsWhole' /\ FractionsCovered'
BY FreshOK, PTL

\* The book of the invariant's states.
LEMMA BookIs ==
    /\ LockdropTypeOK /\ LockupsKnown => BookOK(lockup)
    /\ LockdropTypeOK' /\ LockupsKnown' => BookOK(lockup')
BY DEF LockdropTypeOK, LockupsKnown, BookOK

\* A change of one lockup by the auction before anything is staked.
LEMMA LockupChanged ==
    ASSUME LockdropInv, ~PoolsInitialised, NEW key, NEW d,
           LockdropTypeOK', LockupsKnown', now' \in Nat,
           UnitsMoveAt(lockup, lockup', key, d),
           TotalsMoveAt(amount_in_lockups, amount_in_lockups',
                        total_user_lockup, total_user_lockup', key, d),
           PositionsAgree(lockup', positions'),
           \A k \in DOMAIN lockup' : /\ lockup'[k].astroport_lp_transferred = NONE
                                     /\ lockup'[k].generator_ntrn_debt = 0,
           UNCHANGED <<is_staked, ntrn_per_share, incentives_share, gen_deposit, lp_held>>
    PROVE  LockdropInv'
<1>1. Counted(lockup) /\ Counted(lockup')
  BY BookIs, BookCounted DEF LockdropInv
<1>2. UnitsAgree(lockup, amount_in_lockups, total_user_lockup)
  BY LedgersAre DEF LockdropInv
<1>3. UnitsAgree(lockup', amount_in_lockups', total_user_lockup')
  BY <1>1, <1>2, UnitsAgreeMove
<1>4. LedgersAgree'
  BY <1>3, LedgersAre
<1>5. UnstakedOK' /\ ~PoolsInitialised' /\ NothingHeld'
  BY DEF LockdropInv, UnstakedOK, PoolsInitialised, NothingHeld, ZeroPools
<1>6. StakedOK' /\ LockupsWhole' /\ FractionsCovered'
  BY <1>5, FreshOKNext
<1> QED BY <1>4, <1>5, <1>6 DEF LockdropInv

\* Nothing was returned and nothing drawn before anything is staked.
LEMMA FreshLockups ==
    ASSUME LockdropInv, ~PoolsInitialised, NEW k \in DOMAIN lockup
    PROVE  /\ lockup[k].astroport_lp_transferred = NONE
           /\ lockup[k].generator_ntrn_debt = 0
           /\ lockup[k] \in LockupRecords
<1>1. k[1] \in PoolType
  BY DEF LockdropInv, LockdropTypeOK, Keys
<1> QED BY <1>1 DEF LockdropInv, UnstakedOK, LockdropTypeOK, PoolsInitialised

\* SetTokenInfo as long as nobody has locked: there is nothing to forget.
LEMMA SetTokenInfoKeeps ==
    ASSUME LockdropInv, participants = {}, NEW s \in Senders, NEW g \in Generators,
           handle_set_token_info(s, g)
    PROVE  LockdropInv'
<1>1. DOMAIN lockup = {} /\ ~PoolsInitialised /\ lockup' = lockup
      /\ UNCHANGED <<lp_held, gen_deposit, participants, positions, total_user_lockup, now>>
  BY DEF LockdropInv, LockupsKnown, StakedOK, PoolsInitialised, handle_set_token_info,
         lockerVars, lockdropEnv
<1>2. lockdrop_config' \in [auction : AuctionAddrs,
                            generator : Generators \cup {NONE}, lockdrop_incentives : Nat]
  BY DEF LockdropInv, LockdropTypeOK, handle_set_token_info
<1>3. LockdropTypeOK'
  BY <1>2 DEF LockdropInv, LockdropTypeOK, handle_set_token_info, lockerVars, lockdropEnv,
              ZeroPools
<1>4. LockupsKnown'
  BY <1>1 DEF LockdropInv, LockupsKnown
<1>5. UnstakedOK' /\ ~PoolsInitialised' /\ NothingHeld'
  BY <1>1 DEF LockdropInv, UnstakedOK, PoolsInitialised, NothingHeld, handle_set_token_info,
              ZeroPools
<1>6. LedgersAgree'
  <2>1. /\ UnitsAgree(lockup, amount_in_lockups, total_user_lockup)
        /\ PositionsAgree(lockup, positions)
    BY LedgersAre DEF LockdropInv
  <2>2. \A p \in PoolType : {k \in LiveIn(lockup) : k[1] = p} = {}
    BY <1>1 DEF LiveIn
  <2>3. UnitsIn(lockup, {}) = 0
    BY SumEmpty DEF UnitsIn
  <2>4. \A p \in PoolType : amount_in_lockups'[p] = amount_in_lockups[p]
    BY <2>1, <2>2, <2>3 DEF UnitsAgree, handle_set_token_info, ZeroPools
  <2>5. UnitsAgree(lockup', amount_in_lockups', total_user_lockup')
    BY <1>1, <2>1, <2>4 DEF UnitsAgree
  <2> QED BY <1>1, <2>1, <2>5, LedgersAre
<1>7. StakedOK' /\ LockupsWhole' /\ FractionsCovered'
  BY <1>3, <1>4, <1>5, FreshOKNext
<1> QED BY <1>1, <1>3, <1>4, <1>5, <1>6, <1>7 DEF LockdropInv
-----------------------------------------------------------------------------
\* The weight of a lockup is a natural.
LEMMA WeightNat ==
    ASSUME NEW amount \in Nat, NEW d \in DOMAIN LockWeight
    PROVE  calculate_weight(amount, d) \in Nat
BY MulFloorNat, LockdropAmountAssumption DEF calculate_weight

\* The fields that an increase or a withdrawal changes, besides the records.
LEMMA TotalsChanged ==
    ASSUME LockdropTypeOK, NEW p \in PoolType, NEW u \in Users, NEW a \in Int, NEW w \in Int,
           amount_in_lockups[p] + a \in Nat, total_user_lockup[p][u] + a \in Nat,
           weighted_amount[p] + w \in Nat,
           amount_in_lockups' = [amount_in_lockups EXCEPT ![p] = @ + a],
           total_user_lockup' = [total_user_lockup EXCEPT ![p][u] = @ + a],
           weighted_amount' = [weighted_amount EXCEPT ![p] = @ + w],
           NEW d
    PROVE  /\ amount_in_lockups' \in [PoolType -> Nat]
           /\ total_user_lockup' \in [PoolType -> [Users -> Nat]]
           /\ weighted_amount' \in [PoolType -> Nat]
           /\ TotalsMoveAt(amount_in_lockups, amount_in_lockups',
                           total_user_lockup, total_user_lockup', <<p, u, d>>, a)
BY DEF LockdropTypeOK, TotalsMoveAt

\* IncreaseLockupFor, for a new lockup and for an old one.
LEMMA IncreaseKeeps ==
    ASSUME LockdropInv, ~PoolsInitialised, NEW s \in AuctionAddrs, NEW u \in Users,
           NEW p \in LockPools, NEW d \in LockDurations, NEW a \in Nat,
           handle_increase_lockup(s, u, p, d, a)
    PROVE  LockdropInv'
<1> DEFINE key == <<p, u, d>>
<1>0. /\ p \in PoolType /\ a \in Nat /\ d \in DOMAIN LockWeight /\ key \in Keys
      /\ LockdropTypeOK /\ LockupsKnown /\ now \in Nat
  BY LockdropAmountAssumption DEF LockdropInv, handle_increase_lockup, Keys
<1>1. /\ UNCHANGED <<is_staked, ntrn_per_share, incentives_share, gen_deposit, lp_held>>
      /\ now' = now
  BY DEF handle_increase_lockup, lockdropEnv
<1>2. /\ amount_in_lockups' = [amount_in_lockups EXCEPT ![p] = @ + a]
      /\ total_user_lockup' = [total_user_lockup EXCEPT ![p][u] = @ + a]
      /\ weighted_amount' = [weighted_amount EXCEPT ![p] = @ + calculate_weight(a, d)]
      /\ participants' = participants \cup {u}
  BY DEF handle_increase_lockup
<1>3. /\ amount_in_lockups' \in [PoolType -> Nat]
      /\ total_user_lockup' \in [PoolType -> [Users -> Nat]]
      /\ weighted_amount' \in [PoolType -> Nat]
      /\ TotalsMoveAt(amount_in_lockups, amount_in_lockups',
                      total_user_lockup, total_user_lockup', key, a)
  <2>1. PICK w \in Nat : w = calculate_weight(a, d)
    BY <1>0, WeightNat
  <2>2. /\ amount_in_lockups[p] + a \in Nat /\ total_user_lockup[p][u] + a \in Nat
        /\ weighted_amount[p] + w \in Nat /\ a \in Int /\ w \in Int
    BY <1>0, <2>1 DEF LockdropTypeOK
  <2> QED BY <1>0, <1>2, <2>1, <2>2, TotalsChanged
<1>4. /\ BookOK(lockup') /\ UnitsMoveAt(lockup, lockup', key, a)
      /\ DOMAIN lockup' = DOMAIN lockup \cup {key}
      /\ \A k \in DOMAIN lockup' : /\ lockup'[k].astroport_lp_transferred = NONE
                                   /\ lockup'[k].generator_ntrn_debt = 0
      /\ positions' \in [Users -> 0..MAX_POSITIONS_PER_USER]
      /\ PositionsAgree(lockup', positions')
  <2>0. /\ BookOK(lockup) /\ PositionsAgree(lockup, positions)
        /\ positions \in [Users -> 0..MAX_POSITIONS_PER_USER]
    BY <1>0, BookIs, LedgersAre DEF LockdropInv, LockdropTypeOK
  <2>1. CASE /\ key \in DOMAIN lockup
             /\ lockup' = [lockup EXCEPT ![key].lp_units_locked = @ + a]
             /\ UNCHANGED positions
    <3>1. PICK n \in Nat : n = lockup[key].lp_units_locked + a
      BY <1>0, <2>0, <2>1 DEF BookOK, LockupRecords
    <3>2. /\ DOMAIN lockup' = DOMAIN lockup
          /\ lockup'[key] = [lockup[key] EXCEPT !.lp_units_locked = n]
          /\ \A k \in DOMAIN lockup \ {key} : lockup'[k] = lockup[k]
      BY <2>1, <3>1
    <3>3. /\ lockup'[key] \in LockupRecords /\ lockup'[key].lp_units_locked = n
          /\ lockup'[key].astroport_lp_transferred = NONE
          /\ lockup'[key].generator_ntrn_debt = 0
          /\ lockup[key].astroport_lp_transferred = NONE
      BY <2>1, <3>2, FreshLockups DEF LockupRecords
    <3>4. BookOK(lockup')
      BY <2>0, <3>2, <3>3 DEF BookOK
    <3>5. UnitsMoveAt(lockup, lockup', key, a)
      BY <1>0, <2>1, <3>1, <3>2, <3>3 DEF UnitsMoveAt, LiveIn
    <3>6. PositionsAgree(lockup', positions')
      BY <2>0, <2>1, <3>2 DEF PositionsAgree
    <3>7. \A k \in DOMAIN lockup' : /\ lockup'[k].astroport_lp_transferred = NONE
                                     /\ lockup'[k].generator_ntrn_debt = 0
      BY <3>2, <3>3, FreshLockups
    <3> QED BY <2>0, <2>1, <3>2, <3>4, <3>5, <3>6, <3>7
  <2>2. CASE /\ key \notin DOMAIN lockup
             /\ positions[u] # MAX_POSITIONS_PER_USER
             /\ lockup' = [k \in DOMAIN lockup \cup {key} |->
                               IF k = key THEN NewLockup(a) ELSE lockup[k]]
             /\ positions' = [positions EXCEPT ![u] = @ + 1]
    <3>2. /\ DOMAIN lockup' = DOMAIN lockup \cup {key}
          /\ lockup'[key] = NewLockup(a)
          /\ \A k \in DOMAIN lockup : lockup'[k] = lockup[k] /\ k # key
      BY <2>2
    <3>3. /\ lockup'[key] \in LockupRecords /\ lockup'[key].lp_units_locked = a
          /\ lockup'[key].astroport_lp_transferred = NONE
          /\ lockup'[key].generator_ntrn_debt = 0
      BY <1>0, <3>2 DEF LockupRecords, NewLockup
    <3>4. BookOK(lockup')
      <4>1. IsFiniteSet(DOMAIN lockup')
        BY <2>0, <3>2, FS_AddElement DEF BookOK
      <4>2. DOMAIN lockup' \subseteq Keys /\ \A k \in DOMAIN lockup' : lockup'[k] \in LockupRecords
        BY <1>0, <2>0, <3>2, <3>3 DEF BookOK
      <4> QED BY <4>1, <4>2 DEF BookOK
    <3>5. UnitsMoveAt(lockup, lockup', key, a)
      BY <1>0, <2>2, <3>2, <3>3 DEF UnitsMoveAt, LiveIn
    <3>6. PositionsAgree(lockup', positions')
      <4> SUFFICES ASSUME NEW v \in Users
                   PROVE  positions'[v] = Cardinality({k \in DOMAIN lockup' : k[2] = v})
        BY DEF PositionsAgree
      <4> DEFINE K == {k \in DOMAIN lockup : k[2] = v}
                 K2 == {k \in DOMAIN lockup' : k[2] = v}
      <4>1. positions[v] = Cardinality(K) /\ IsFiniteSet(K)
        BY <2>0, FS_Subset DEF PositionsAgree, BookOK
      <4>2. CASE v = u
        <5>1. K2 = K \cup {key} /\ key \notin K
          BY <2>2, <3>2, <4>2
        <5>2. Cardinality(K2) = Cardinality(K) + 1
          BY <4>1, <5>1, FS_AddElement
        <5> QED BY <2>0, <2>2, <4>1, <4>2, <5>2
      <4>3. CASE v # u
        <5>1. K2 = K
          BY <2>2, <3>2, <4>3
        <5> QED BY <2>0, <2>2, <4>1, <4>3, <5>1
      <4> QED BY <4>2, <4>3
    <3>7. positions' \in [Users -> 0..MAX_POSITIONS_PER_USER]
      BY <2>0, <2>2, LockdropWindowAssumption
    <3> QED BY <3>2, <3>3, <3>4, <3>5, <3>6, <3>7, FreshLockups
  <2>3. \/ /\ key \in DOMAIN lockup
           /\ lockup' = [lockup EXCEPT ![key].lp_units_locked = @ + a]
           /\ UNCHANGED positions
        \/ /\ key \notin DOMAIN lockup
           /\ positions[u] # MAX_POSITIONS_PER_USER
           /\ lockup' = [k \in DOMAIN lockup \cup {key} |->
                             IF k = key THEN NewLockup(a) ELSE lockup[k]]
           /\ positions' = [positions EXCEPT ![u] = @ + 1]
    BY DEF handle_increase_lockup
  <2> QED BY <2>1, <2>2, <2>3
<1> HIDE DEF key
<1>5. LockdropTypeOK'
  BY <1>0, <1>1, <1>2, <1>3, <1>4
     DEF LockdropTypeOK, BookOK, handle_increase_lockup, lockdropEnv
<1>6. LockupsKnown'
  <2>1. key[2] = u /\ key[3] = d
    BY DEF key
  <2> QED BY <1>0, <1>2, <1>4, <2>1 DEF LockupsKnown, BookOK
<1> QED BY <1>0, <1>1, <1>3, <1>4, <1>5, <1>6, LockupChanged

\* WithdrawFromLockup, of a part and of all of a lockup.
LEMMA WithdrawKeeps ==
    ASSUME LockdropInv, ~PoolsInitialised, NEW s \in AuctionAddrs, NEW u \in Users,
           NEW p \in LockPools, NEW d \in LockDurations, NEW a \in Nat,
           handle_withdraw_from_lockup(s, u, p, d, a)
    PROVE  LockdropInv'
<1> DEFINE key == <<p, u, d>>
<1>0. /\ p \in PoolType /\ a \in Nat /\ key \in Keys /\ key \in DOMAIN lockup
      /\ LockdropTypeOK /\ LockupsKnown /\ now \in Nat
  BY LockdropAmountAssumption DEF LockdropInv, handle_withdraw_from_lockup, Keys
<1>1. /\ UNCHANGED <<is_staked, ntrn_per_share, incentives_share, gen_deposit, lp_held>>
      /\ UNCHANGED <<now, participants>>
  BY DEF handle_withdraw_from_lockup, lockdropEnv
<1>2. /\ amount_in_lockups' = [amount_in_lockups EXCEPT ![p] = @ - a]
      /\ total_user_lockup' = [total_user_lockup EXCEPT ![p][u] = @ - a]
      /\ weighted_amount' = [weighted_amount EXCEPT ![p] = @ - calculate_weight(a, d)]
      /\ WithdrawalAllowed(key, a)
  BY DEF handle_withdraw_from_lockup
<1>3. /\ d \in DOMAIN LockWeight
      /\ lockup[key] \in LockupRecords /\ lockup[key].lp_units_locked \in Nat
      /\ a <= lockup[key].lp_units_locked
      /\ lockup[key].astroport_lp_transferred = NONE
      /\ lockup[key].generator_ntrn_debt = 0
  BY <1>0, <1>2, FreshLockups DEF WithdrawalAllowed, LockupsKnown, LockupRecords
<1>4. /\ amount_in_lockups' \in [PoolType -> Nat]
      /\ total_user_lockup' \in [PoolType -> [Users -> Nat]]
      /\ weighted_amount' \in [PoolType -> Nat]
      /\ TotalsMoveAt(amount_in_lockups, amount_in_lockups',
                      total_user_lockup, total_user_lockup', key, -a)
  <2>1. PICK w \in Nat : w = calculate_weight(a, d)
    BY <1>0, <1>3, WeightNat
  <2>2. a <= amount_in_lockups[p] /\ a <= total_user_lockup[p][u] /\ w <= weighted_amount[p]
    BY <1>2, <2>1 DEF WithdrawalAllowed
  <2>3. PICK b \in Int, v \in Int : b = -a /\ v = -w
    BY <1>0, <2>1
  <2>4. /\ amount_in_lockups[p] \in Nat /\ total_user_lockup[p][u] \in Nat
        /\ weighted_amount[p] \in Nat
    BY <1>0 DEF LockdropTypeOK
  <2>5. /\ amount_in_lockups[p] + b \in Nat /\ total_user_lockup[p][u] + b \in Nat
        /\ weighted_amount[p] + v \in Nat
    BY <1>0, <2>1, <2>2, <2>3, <2>4
  <2>6. /\ amount_in_lockups[p] - a = amount_in_lockups[p] + b
        /\ total_user_lockup[p][u] - a = total_user_lockup[p][u] + b
        /\ weighted_amount[p] - w = weighted_amount[p] + v
    BY <1>0, <2>1, <2>3, <2>4
  <2>7. /\ amount_in_lockups' = [amount_in_lockups EXCEPT ![p] = @ + b]
        /\ total_user_lockup' = [total_user_lockup EXCEPT ![p][u] = @ + b]
        /\ weighted_amount' = [weighted_amount EXCEPT ![p] = @ + v]
    BY <1>2, <2>1, <2>6
  <2> QED BY <1>0, <2>3, <2>5, <2>7, TotalsChanged
<1>5. /\ BookOK(lockup') /\ UnitsMoveAt(lockup, lockup', key, -a)
      /\ DOMAIN lockup' \subseteq DOMAIN lockup
      /\ \A k \in DOMAIN lockup' : /\ lockup'[k].astroport_lp_transferred = NONE
                                   /\ lockup'[k].generator_ntrn_debt = 0
      /\ positions' \in [Users -> 0..MAX_POSITIONS_PER_USER]
      /\ PositionsAgree(lockup', positions')
  <2>0. /\ BookOK(lockup) /\ PositionsAgree(lockup, positions)
        /\ positions \in [Users -> 0..MAX_POSITIONS_PER_USER]
    BY <1>0, BookIs, LedgersAre DEF LockdropInv, LockdropTypeOK
  <2>1. CASE /\ lockup' = [lockup EXCEPT
                     ![key].lp_units_locked = @ - a,
                     ![key].withdrawal_flag = now >= LockCutoff]
             /\ UNCHANGED positions
    <3>1. PICK n \in Nat, flag \in BOOLEAN :
              n = lockup[key].lp_units_locked - a /\ flag = (now >= LockCutoff)
      <4>1. PICK m \in Nat : m = lockup[key].lp_units_locked
        BY <1>3
      <4>2. m - a \in Nat
        BY <1>0, <1>3, <4>1
      <4>3. (now >= LockCutoff) \in BOOLEAN
        OBVIOUS
      <4> QED BY <4>1, <4>2, <4>3
    <3>2. /\ DOMAIN lockup' = DOMAIN lockup
          /\ lockup'[key] = [lockup[key] EXCEPT !.lp_units_locked = n, !.withdrawal_flag = flag]
          /\ \A k \in DOMAIN lockup \ {key} : lockup'[k] = lockup[k]
      BY <1>0, <2>1, <3>1
    <3>3. /\ lockup'[key] \in LockupRecords /\ lockup'[key].lp_units_locked = n
          /\ lockup'[key].astroport_lp_transferred = NONE
          /\ lockup'[key].generator_ntrn_debt = 0
      BY <1>3, <3>1, <3>2 DEF LockupRecords
    <3>4. BookOK(lockup')
      BY <2>0, <3>2, <3>3 DEF BookOK
    <3>5. UnitsMoveAt(lockup, lockup', key, -a)
      <4>1. n = lockup[key].lp_units_locked + (-a) /\ -a \in Int
        BY <1>0, <1>3, <3>1
      <4> QED BY <1>0, <1>3, <3>2, <3>3, <4>1 DEF UnitsMoveAt, LiveIn
    <3>6. PositionsAgree(lockup', positions')
      BY <2>0, <2>1, <3>2 DEF PositionsAgree
    <3> QED BY <2>0, <2>1, <3>2, <3>3, <3>4, <3>5, <3>6, FreshLockups
  <2>2. CASE /\ a = lockup[key].lp_units_locked
             /\ positions[u] > 0
             /\ lockup' = [k \in DOMAIN lockup \ {key} |-> lockup[k]]
             /\ positions' = [positions EXCEPT ![u] = @ - 1]
    <3>2. /\ DOMAIN lockup' = DOMAIN lockup \ {key}
          /\ \A k \in DOMAIN lockup' : lockup'[k] = lockup[k]
      BY <2>2
    <3>4. BookOK(lockup')
      <4>1. IsFiniteSet(DOMAIN lockup')
        <5>1. DOMAIN lockup' \subseteq DOMAIN lockup
          BY <3>2
        <5> QED BY <2>0, <5>1, FS_Subset DEF BookOK
      <4> QED BY <4>1, <2>0, <3>2 DEF BookOK
    <3>5. UnitsMoveAt(lockup, lockup', key, -a)
      <4>1. lockup[key].lp_units_locked + (-a) = 0 /\ -a \in Int
        BY <1>0, <2>2
      <4> QED BY <1>0, <1>3, <3>2, <4>1 DEF UnitsMoveAt, LiveIn
    <3>6. PositionsAgree(lockup', positions')
      <4> SUFFICES ASSUME NEW v \in Users
                   PROVE  positions'[v] = Cardinality({k \in DOMAIN lockup' : k[2] = v})
        BY DEF PositionsAgree
      <4> DEFINE K == {k \in DOMAIN lockup : k[2] = v}
                 K2 == {k \in DOMAIN lockup' : k[2] = v}
      <4>1. positions[v] = Cardinality(K) /\ IsFiniteSet(K)
        BY <2>0, FS_Subset DEF PositionsAgree, BookOK
      <4>2. CASE v = u
        <5>1. K2 = K \ {key} /\ key \in K
          BY <1>0, <3>2, <4>2
        <5> HIDE DEF K, K2
        <5>2. Cardinality(K \ {key}) = Cardinality(K) - 1
          BY <4>1, <5>1, FS_RemoveElement
        <5>3. positions'[v] = positions[v] - 1
          BY <2>0, <2>2, <4>2
        <5> QED BY <4>1, <5>1, <5>2, <5>3 DEF K2
      <4>3. CASE v # u
        <5>1. K2 = K
          BY <3>2, <4>3
        <5> QED BY <2>0, <2>2, <4>1, <4>3, <5>1
      <4> QED BY <4>2, <4>3
    <3>7. positions' \in [Users -> 0..MAX_POSITIONS_PER_USER]
      BY <2>0, <2>2, LockdropWindowAssumption
    <3> QED BY <3>2, <3>4, <3>5, <3>6, <3>7, FreshLockups
  <2>3. \/ /\ lockup' = [lockup EXCEPT
                  ![key].lp_units_locked = @ - a,
                  ![key].withdrawal_flag = now >= LockCutoff]
           /\ UNCHANGED positions
        \/ /\ a = lockup[key].lp_units_locked
           /\ positions[u] > 0
           /\ lockup' = [k \in DOMAIN lockup \ {key} |-> lockup[k]]
           /\ positions' = [positions EXCEPT ![u] = @ - 1]
    BY DEF handle_withdraw_from_lockup
  <2> QED BY <2>1, <2>2, <2>3
<1> HIDE DEF key
<1>6. LockdropTypeOK'
  BY <1>0, <1>1, <1>4, <1>5
     DEF LockdropTypeOK, BookOK, handle_withdraw_from_lockup, lockdropEnv
<1>7. LockupsKnown'
  BY <1>0, <1>1, <1>5 DEF LockupsKnown, BookOK
<1> QED BY <1>0, <1>1, <1>4, <1>5, <1>6, <1>7, LockupChanged

\* InitializePool with the LP tokens of the lockups: from now on the stake is
\* what the lockups add up to.
LEMMA InitializeKeeps ==
    ASSUME LockdropInv, ~PoolsInitialised, NEW s \in AuctionAddrs,
           NEW share \in [PoolType -> Nat],
           handle_initialize_pool(s, share, amount_in_lockups)
    PROVE  LockdropInv'
<1> DEFINE funded == {p \in PoolType : amount_in_lockups[p] # 0}
           g == lockdrop_config.generator
<1>0. LockdropTypeOK /\ now \in Nat /\ LockupsKnown /\ UnstakedOK /\ share \in [PoolType -> Nat]
      /\ \A p \in PoolType : ~is_staked[p]
  BY LockdropAmountAssumption DEF LockdropInv, PoolsInitialised
<1>1. /\ UNCHANGED <<now, lockdrop_config, pools_set, amount_in_lockups, weighted_amount,
                     ntrn_per_share, gen_reserve, gen_pending, reward_balance>>
      /\ UNCHANGED <<incentives_balance, lp_held, received_ntrn, received_lp>>
      /\ UNCHANGED <<lockup, participants, positions, total_ntrn_rewards, ntrn_transferred,
                     total_user_lockup>>
  BY DEF handle_initialize_pool, lockerVars
<1>2. /\ incentives_share' \in [PoolType -> Nat]
      /\ is_staked' \in [PoolType -> BOOLEAN]
      /\ \A p \in PoolType : /\ p \in funded => incentives_share'[p] = share[p] /\ is_staked'[p]
                             /\ p \notin funded => incentives_share'[p] = incentives_share[p]
                                                   /\ ~is_staked'[p]
  BY <1>0 DEF handle_initialize_pool, LockdropTypeOK
<1>3. total_incentives_share' \in Nat
  <2>1. PICK a \in Nat, b \in Nat :
            /\ a = (IF "ATOM" \in funded THEN share["ATOM"] ELSE 0)
            /\ b = (IF "USDC" \in funded THEN share["USDC"] ELSE 0)
    BY <1>0 DEF PoolType
  <2>2. total_incentives_share' = total_incentives_share + a + b
    BY <2>1 DEF handle_initialize_pool
  <2> QED BY <1>0, <2>2 DEF LockdropTypeOK
<1>4. /\ gen_deposit' \in [Generators -> [PoolType -> Nat]]
      /\ \A p \in PoolType \ funded, h \in Generators : gen_deposit'[h][p] = 0
      /\ funded # {} => /\ g \in Generators
                        /\ \A p \in PoolType : gen_deposit'[g][p] = amount_in_lockups[p]
  <2>1. CASE funded = {}
    <3>1. gen_deposit' = gen_deposit
      BY <2>1 DEF handle_initialize_pool
    <3> QED BY <1>0, <2>1, <3>1 DEF LockdropTypeOK, UnstakedOK
  <2>2. CASE funded # {}
    <3>1. g \in Generators
      BY <1>0, <2>2 DEF handle_initialize_pool, LockdropTypeOK
    <3>2. gen_deposit' = [gen_deposit EXCEPT
                   ![g] = [p \in PoolType |-> gen_deposit[g][p] + amount_in_lockups[p]]]
      BY <2>2 DEF handle_initialize_pool
    <3>3. \A p \in PoolType : /\ gen_deposit[g][p] = 0 /\ amount_in_lockups[p] \in Nat
                              /\ gen_deposit[g][p] + amount_in_lockups[p] = amount_in_lockups[p]
      BY <1>0, <3>1 DEF UnstakedOK, LockdropTypeOK
    <3>4. gen_deposit' = [gen_deposit EXCEPT ![g] = [p \in PoolType |-> amount_in_lockups[p]]]
      BY <3>2, <3>3
    <3>5. /\ gen_deposit' \in [Generators -> [PoolType -> Nat]]
          /\ \A p \in PoolType : gen_deposit'[g][p] = amount_in_lockups[p]
          /\ \A h \in Generators \ {g} : gen_deposit'[h] = gen_deposit[h]
      BY <1>0, <3>1, <3>3, <3>4 DEF LockdropTypeOK
    <3>6. ASSUME NEW p \in PoolType \ funded, NEW h \in Generators
          PROVE  gen_deposit'[h][p] = 0
      BY <1>0, <3>5 DEF UnstakedOK
    <3> QED BY <3>1, <3>5, <3>6
  <2> QED BY <2>1, <2>2
<1>5. LockdropTypeOK'
  BY <1>0, <1>1, <1>2, <1>3, <1>4 DEF LockdropTypeOK
<1>6. LockupsKnown' /\ NothingHeld'
  BY <1>0, <1>1 DEF LockdropInv, LockupsKnown, NothingHeld
<1>7. UnstakedOK'
  <2> SUFFICES ASSUME NEW p \in PoolType, ~is_staked'[p]
               PROVE  /\ ntrn_per_share'[p] = 0 /\ incentives_share'[p] = 0
                      /\ \A h \in Generators : gen_deposit'[h][p] = 0
                      /\ \A k \in DOMAIN lockup' : k[1] = p =>
                             /\ lockup'[k].astroport_lp_transferred = NONE
                             /\ lockup'[k].generator_ntrn_debt = 0
    BY DEF UnstakedOK
  <2>1. p \notin funded
    BY <1>2
  <2> QED BY <1>0, <1>1, <1>2, <1>4, <2>1 DEF UnstakedOK
<1>8. StakedOK'
  <2> SUFFICES ASSUME NEW p \in PoolType, is_staked'[p]
               PROVE  lockdrop_config'.generator \in Generators /\ participants' # {}
    BY DEF StakedOK
  <2>1. p \in funded
    BY <1>2
  <2>2. amount_in_lockups[p] = UnitsIn(lockup, {k \in LiveIn(lockup) : k[1] = p})
    BY LedgersAre DEF LockdropInv, UnitsAgree
  <2>3. UnitsIn(lockup, {}) = 0
    BY SumEmpty DEF UnitsIn
  <2>4. PICK k \in DOMAIN lockup : k[1] = p
    BY <2>1, <2>2, <2>3 DEF LiveIn
  <2> QED BY <1>0, <1>1, <1>4, <2>1, <2>4 DEF LockupsKnown
<1>9. LedgersAgree' /\ FractionsCovered'
  <2>1. LedgersAgree'
    BY <1>1, LedgersAre DEF LockdropInv
  <2> QED BY <1>1, <2>1 DEF LockdropInv, FractionsCovered, LiveLockups, Undrawn
<1>10. LockupsWhole'
  <2>1. DOMAIN lockup' \ LiveLockups' = {}
    BY <1>1, FreshLockups DEF LiveLockups
  <2>2. ASSUME NEW p \in PoolType, is_staked'[p]
        PROVE  gen_deposit'[lockdrop_config'.generator][p] = amount_in_lockups'[p]
    BY <1>1, <1>2, <1>4, <2>2
  <2> QED BY <2>1, <2>2 DEF LockupsWhole
<1> QED BY <1>0, <1>1, <1>5, <1>6, <1>7, <1>8, <1>9, <1>10 DEF LockdropInv
-----------------------------------------------------------------------------
\* A product grows with a factor.
LEMMA Grows ==
    ASSUME NEW a \in Nat, NEW b \in Nat, NEW c \in Nat, b <= c
    PROVE  a * b <= a * c /\ a * b \in Nat /\ a * c \in Nat
OBVIOUS

\* A truncated quotient grows with the dividend.
LEMMA QuotientGrows ==
    ASSUME NEW a \in Nat, NEW b \in Nat, NEW d \in Nat \ {0}, a <= b
    PROVE  a \div d <= b \div d /\ a \div d \in Nat /\ b \div d \in Nat
OBVIOUS

\* A rounded product grows with a factor.
LEMMA MulFloorGrows ==
    ASSUME NEW a \in Nat, NEW b \in Nat, NEW c \in Nat, b <= c
    PROVE  MulFloor(a, b) <= MulFloor(a, c)
<1>1. PICK m \in Nat, n \in Nat, d \in Nat \ {0} :
          m = a * b /\ n = a * c /\ m <= n /\ d = DECIMAL_FRACTIONAL
  BY Grows, ScaleAssumption
<1>2. m \div d <= n \div d
  BY <1>1, QuotientGrows
<1> QED BY <1>1, <1>2 DEF MulFloor

\* The scale times a rounded product is at most the product.
LEMMA MulFloorBelow ==
    ASSUME NEW a \in Nat, NEW b \in Nat
    PROVE  DECIMAL_FRACTIONAL * MulFloor(a, b) <= a * b
<1>1. PICK n \in Nat, d \in Nat \ {0} : n = a * b /\ d = DECIMAL_FRACTIONAL
  BY Grows, ScaleAssumption
<1>2. d * (n \div d) <= n
  BY QuotientBelow
<1> QED BY <1>1, <1>2 DEF MulFloor

(***************************************************************************)
(* What the callbacks of a claim do to the sums, on plain vectors: L are    *)
(* the live lockups, units their units, of the ones in P, those of the      *)
(* pool, A is the sum; the rate of the pool rises by r, which the claimed   *)
(* rewards cover; key draws and may leave.                                  *)
(***************************************************************************)
Draws(L, P, L2, t, t2, units, A, r, rewards, drawn, key) ==
    /\ IsFiniteSet(L) /\ P \subseteq L /\ key \in P /\ (L2 = L \/ L2 = L \ {key})
    /\ A \in Nat /\ r \in Nat /\ rewards \in Nat /\ drawn \in Nat
    /\ \A k \in L : t[k] \in Int /\ t2[k] \in Int /\ units[k] \in Nat
    /\ A = SumOver(units, P)
    /\ r * A <= DECIMAL_FRACTIONAL * rewards
    /\ \A k \in L \ P : t2[k] = t[k]
    /\ \A k \in P \ {key} : t2[k] = t[k] + (r * units[k])
    /\ t2[key] = t[key] + (r * units[key]) - (DECIMAL_FRACTIONAL * drawn)
    /\ t2[key] >= 0

\* What may be drawn grows by at most what came in, less what was drawn.
LEMMA DrawsCovered ==
    ASSUME NEW L, NEW P, NEW L2, NEW t, NEW t2, NEW units, NEW A, NEW r, NEW rewards,
           NEW drawn, NEW key, Draws(L, P, L2, t, t2, units, A, r, rewards, drawn, key)
    PROVE  SumOver(t2, L2)
               <= SumOver(t, L) + (DECIMAL_FRACTIONAL * rewards) - (DECIMAL_FRACTIONAL * drawn)
<1> DEFINE e == [k \in L |-> IF k \in P THEN r * units[k] ELSE 0]
           ep == [k \in P |-> r * units[k]]
           t1 == [k \in L |-> t[k] + e[k]]
<1>0. /\ IsFiniteSet(L) /\ IsFiniteSet(P) /\ IsFiniteSet(L2) /\ P \in SUBSET L /\ key \in P
      /\ A \in Nat /\ r \in Nat /\ rewards \in Nat /\ drawn \in Nat /\ key \in L
  BY FS_Subset, FS_RemoveElement DEF Draws
<1>1. ASSUME NEW k \in P
      PROVE  /\ ep[k] = r * units[k] /\ e[k] = r * units[k]
             /\ ep[k] \in Nat /\ units[k] \in Nat /\ 1 * ep[k] <= r * units[k]
  <2>1. PICK n \in Nat : n = units[k] /\ k \in L
    BY <1>0 DEF Draws
  <2>2. r * n \in Nat /\ 1 * (r * n) <= r * n
    BY <1>0
  <2> QED BY <1>0, <2>1, <2>2
<1>2. \A k \in L \ P : e[k] = 0
  OBVIOUS
<1>3. \A k \in L : e[k] \in Int /\ t[k] \in Int /\ t1[k] = t[k] + e[k] /\ t1[k] \in Int
  <2>1. \A k \in P : e[k] \in Int
    BY <1>1
  <2>2. \A k \in L \ P : e[k] \in Int
    BY <1>2
  <2>3. \A k \in L : e[k] \in Int
    <3> HIDE DEF e
    <3> QED BY <2>1, <2>2
  <2> QED BY <2>3 DEF Draws
<1>4. /\ t2[key] = t1[key] - (DECIMAL_FRACTIONAL * drawn)
      /\ \A k \in L \ {key} : t2[k] = t1[k]
  <2>1. t2[key] = t1[key] - (DECIMAL_FRACTIONAL * drawn)
    <3>1. PICK x \in Int, y \in Int, z \in Int :
              x = t[key] /\ y = e[key] /\ z = DECIMAL_FRACTIONAL * drawn
      BY <1>0, <1>3, ScaleAssumption
    <3>2. t2[key] = x + y - z
      BY <1>0, <1>1, <3>1 DEF Draws
    <3>3. t1[key] = x + y
      BY <1>0, <1>3, <3>1
    <3> QED BY <3>1, <3>2, <3>3
  <2>2. ASSUME NEW k \in L \ {key} PROVE t2[k] = t1[k]
    <3>1. CASE k \in P
      BY <1>1, <1>3, <3>1 DEF Draws
    <3>2. CASE k \notin P
      BY <1>2, <1>3, <3>2 DEF Draws
    <3> QED BY <3>1, <3>2
  <2> QED BY <2>1, <2>2
<1> HIDE DEF e, ep, t1
<1>5. SumOver(e, L) = SumOver(ep, P)
  BY <1>0, <1>1, <1>2, SumExtend
<1>6. 1 * SumOver(ep, P) <= r * SumOver(units, P)
  <2>1. 1 \in Nat /\ \A k \in P : units[k] \in Nat /\ ep[k] \in Nat /\ 1 * ep[k] <= r * units[k]
    BY <1>1
  <2> QED BY <1>0, <2>1, SumOfParts
<1>7. SumOver(t1, L) = SumOver(t, L) + SumOver(e, L)
  BY <1>0, <1>3, SumAdd
<1>8. PICK c \in Nat : c = DECIMAL_FRACTIONAL * drawn
  BY <1>0, ScaleAssumption
<1>9. PICK d \in Int : /\ d <= -c
                       /\ MovesAt(L, t1, L2, t2, key, d)
  <2>0. t1[key] \in Int /\ t2[key] \in Int /\ t2[key] >= 0 /\ t2[key] = t1[key] - c
    BY <1>0, <1>3, <1>4, <1>8 DEF Draws
  <2>1. L2 \ {key} = L \ {key}
    BY DEF Draws
  <2>2. /\ \A y \in L : t1[y] \in Int
        /\ \A y \in L2 : t2[y] \in Int
        /\ \A y \in L \ {key} : t2[y] = t1[y]
    BY <1>3, <1>4 DEF Draws
  <2>3. CASE key \in L2
    <3>1. (IF key \in L2 THEN t2[key] ELSE 0) = (IF key \in L THEN t1[key] ELSE 0) + (-c)
          /\ -c \in Int
      BY <1>0, <1>8, <2>0, <2>3
    <3>2. MovesAt(L, t1, L2, t2, key, -c)
      BY <2>1, <2>2, <3>1 DEF MovesAt
    <3> QED BY <1>8, <3>1, <3>2
  <2>4. CASE key \notin L2
    <3>1. PICK x \in Int : x = -t1[key]
      BY <2>0
    <3>2. (IF key \in L2 THEN t2[key] ELSE 0) = (IF key \in L THEN t1[key] ELSE 0) + x
      BY <1>0, <2>0, <2>4, <3>1
    <3>3. x <= -c
      BY <1>8, <2>0, <3>1
    <3>4. MovesAt(L, t1, L2, t2, key, x)
      BY <2>1, <2>2, <3>2 DEF MovesAt
    <3> QED BY <3>3, <3>4
  <2> QED BY <2>3, <2>4
<1>10. SumOver(t2, L2) = SumOver(t1, L) + d
  BY <1>0, <1>9, SumMove
<1>11. PICK st \in Int, se \in Int, sp \in Int :
           st = SumOver(t, L) /\ se = SumOver(e, L) /\ sp = SumOver(ep, P)
  BY <1>0, <1>1, <1>3, SumInt
<1>12. PICK b \in Nat, n \in Nat : b = DECIMAL_FRACTIONAL * rewards /\ n = r * A /\ n <= b
  BY <1>0, ScaleAssumption DEF Draws
<1>13. sp <= n /\ se = sp
  BY <1>5, <1>6, <1>11, <1>12 DEF Draws
<1>14. SumOver(t2, L2) = (st + se) + d
  BY <1>7, <1>10, <1>11
<1>15. (st + se) + d <= st + b - c
  BY <1>8, <1>9, <1>12, <1>13
<1> QED BY <1>8, <1>11, <1>12, <1>14, <1>15
-----------------------------------------------------------------------------
\* The one time rewards are naturals: no division by zero.
LEMMA RewardNat ==
    ASSUME LockdropTypeOK, LockupsKnown
    PROVE  /\ \A k \in DOMAIN lockup : LockupReward(k) \in Nat
           /\ \A u \in Users : UserReward(u) \in Nat /\ IsFiniteSet(UserKeys(u))
<1>1. ASSUME NEW k \in DOMAIN lockup PROVE LockupReward(k) \in Nat
  <2>1. /\ lockup[k].ntrn_rewards \in Nat /\ lockup[k].lp_units_locked \in Nat
        /\ k[1] \in PoolType /\ k[3] \in DOMAIN LockWeight
    BY DEF LockdropTypeOK, LockupsKnown, LockupRecords, Keys
  <2>2. PICK w \in Nat : w = calculate_weight(lockup[k].lp_units_locked, k[3])
    BY <2>1, WeightNat
  <2>3. PICK p \in PoolType : p = k[1]
    BY <2>1
  <2>4. calculate_astro_incentives_for_lockup(w, p) \in Nat
    <3>1. CASE total_incentives_share = 0 \/ weighted_amount[p] = 0
      BY <3>1 DEF calculate_astro_incentives_for_lockup
    <3>2. CASE total_incentives_share # 0 /\ weighted_amount[p] # 0
      <4>1. PICK i \in Nat, s \in Nat, t \in Nat \ {0}, v \in Nat \ {0} :
                /\ i = lockdrop_config.lockdrop_incentives /\ s = incentives_share[p]
                /\ t = total_incentives_share /\ v = weighted_amount[p]
        BY <3>2 DEF LockdropTypeOK
      <4>2. s * w \in Nat /\ t * v \in Nat \ {0}
        OBVIOUS
      <4>3. FromRatio(s * w, t * v) \in Nat
        BY <4>2, FromRatioNat
      <4>4. MulFloor(i, FromRatio(s * w, t * v)) \in Nat
        BY <4>3, MulFloorNat
      <4> QED BY <3>2, <4>1, <4>4 DEF calculate_astro_incentives_for_lockup
    <3> QED BY <3>1, <3>2
  <2> QED BY <2>1, <2>2, <2>3, <2>4 DEF LockupReward
<1>2. ASSUME NEW u \in Users PROVE UserReward(u) \in Nat /\ IsFiniteSet(UserKeys(u))
  <2>1. IsFiniteSet(UserKeys(u)) /\ UserKeys(u) \subseteq DOMAIN lockup
    BY FS_Subset DEF UserKeys, LockupsKnown
  <2>2. PICK f : f = [k \in UserKeys(u) |-> LockupReward(k)]
    OBVIOUS
  <2>3. SumOver(f, UserKeys(u)) \in Nat
    BY <1>1, <2>1, <2>2, SumNat
  <2>4. total_ntrn_rewards[u] \in Nat
    BY DEF LockdropTypeOK
  <2> QED BY <2>1, <2>2, <2>3, <2>4 DEF UserReward
<1> QED BY <1>1, <1>2

\* The records after a claim of a user's lockup.
AfterClaim(u, key, pending, x) ==
    /\ DOMAIN lockup' = DOMAIN lockup
    /\ \A k \in DOMAIN lockup :
           /\ lockup'[k] \in LockupRecords
           /\ lockup'[k].lp_units_locked = lockup[k].lp_units_locked
           /\ lockup'[k].ntrn_rewards =
                  IF total_ntrn_rewards[u] = 0 /\ k[2] = u THEN LockupReward(k)
                  ELSE lockup[k].ntrn_rewards
    /\ \A k \in DOMAIN lockup \ {key} :
           /\ lockup'[k].generator_ntrn_debt = lockup[k].generator_ntrn_debt
           /\ lockup'[k].astroport_lp_transferred = lockup[k].astroport_lp_transferred
    /\ lockup'[key].generator_ntrn_debt = lockup[key].generator_ntrn_debt + pending
    /\ lockup'[key].astroport_lp_transferred = x

\* That is what the assignment to LOCKUP_INFO in a claim comes to.
LEMMA ClaimedBook ==
    ASSUME LockdropTypeOK, LockupsKnown, NEW u \in Users, NEW key \in DOMAIN lockup,
           NEW pending \in Nat, NEW x \in Nat \cup {NONE},
           lockup' = [RewardedLockups(u) EXCEPT
               ![key].generator_ntrn_debt = @ + pending,
               ![key].astroport_lp_transferred = x]
    PROVE  AfterClaim(u, key, pending, x)
<1>1. PICK R : R = RewardedLockups(u)
  OBVIOUS
<1>2. /\ DOMAIN R = DOMAIN lockup
      /\ \A k \in DOMAIN lockup :
             R[k] = IF total_ntrn_rewards[u] = 0 /\ k[2] = u
                    THEN [lockup[k] EXCEPT !.ntrn_rewards = LockupReward(k)]
                    ELSE lockup[k]
  BY <1>1 DEF RewardedLockups, UserKeys
<1>3. ASSUME NEW k \in DOMAIN lockup
      PROVE  /\ R[k] \in LockupRecords
             /\ R[k].lp_units_locked = lockup[k].lp_units_locked
             /\ R[k].generator_ntrn_debt = lockup[k].generator_ntrn_debt
             /\ R[k].astroport_lp_transferred = lockup[k].astroport_lp_transferred
             /\ R[k].ntrn_rewards =
                    IF total_ntrn_rewards[u] = 0 /\ k[2] = u THEN LockupReward(k)
                    ELSE lockup[k].ntrn_rewards
  <2>1. lockup[k] \in LockupRecords
    BY DEF LockdropTypeOK
  <2>2. PICK n \in Nat : n = LockupReward(k)
    BY RewardNat
  <2>3. CASE total_ntrn_rewards[u] = 0 /\ k[2] = u
    <3>1. R[k] = [lockup[k] EXCEPT !.ntrn_rewards = n]
      BY <1>2, <2>2, <2>3
    <3> QED BY <2>1, <2>2, <2>3, <3>1 DEF LockupRecords
  <2>4. CASE ~(total_ntrn_rewards[u] = 0 /\ k[2] = u)
    <3>1. R[k] = lockup[k]
      BY <1>2, <2>4
    <3> QED BY <2>1, <2>4, <3>1
  <2> QED BY <2>3, <2>4
<1>4. PICK n \in Nat : n = lockup[key].generator_ntrn_debt + pending
  BY DEF LockdropTypeOK, LockupRecords
<1>5. /\ lockup' = [R EXCEPT ![key].generator_ntrn_debt = @ + pending,
                             ![key].astroport_lp_transferred = x]
  BY <1>1
<1>6. /\ DOMAIN lockup' = DOMAIN R
      /\ \A k \in DOMAIN R \ {key} : lockup'[k] = R[k]
      /\ lockup'[key] = [R[key] EXCEPT !.generator_ntrn_debt = n, !.astroport_lp_transferred = x]
  BY <1>2, <1>3, <1>4, <1>5
<1>7. /\ lockup'[key] \in LockupRecords
      /\ lockup'[key].generator_ntrn_debt = n
      /\ lockup'[key].astroport_lp_transferred = x
      /\ lockup'[key].lp_units_locked = R[key].lp_units_locked
      /\ lockup'[key].ntrn_rewards = R[key].ntrn_rewards
  <2>1. PICK rec \in LockupRecords : rec = R[key]
    BY <1>3
  <2>2. PICK rec2 : rec2 = lockup'[key]
    OBVIOUS
  <2>3. rec2 = [rec EXCEPT !.generator_ntrn_debt = n, !.astroport_lp_transferred = x]
    BY <1>6, <2>1, <2>2
  <2>4. /\ rec2 \in LockupRecords
        /\ rec2.generator_ntrn_debt = n /\ rec2.astroport_lp_transferred = x
        /\ rec2.lp_units_locked = rec.lp_units_locked
        /\ rec2.ntrn_rewards = rec.ntrn_rewards
    BY <2>3 DEF LockupRecords
  <2> QED BY <2>1, <2>2, <2>4
<1>8. ASSUME NEW k \in DOMAIN lockup
      PROVE  /\ lockup'[k] \in LockupRecords
             /\ lockup'[k].lp_units_locked = lockup[k].lp_units_locked
             /\ lockup'[k].ntrn_rewards = R[k].ntrn_rewards
  BY <1>2, <1>3, <1>6, <1>7
<1>9. \A k \in DOMAIN lockup \ {key} :
          /\ lockup'[k].generator_ntrn_debt = lockup[k].generator_ntrn_debt
          /\ lockup'[k].astroport_lp_transferred = lockup[k].astroport_lp_transferred
  BY <1>2, <1>3, <1>6
<1> QED BY <1>2, <1>3, <1>4, <1>6, <1>7, <1>8, <1>9 DEF AfterClaim

(***************************************************************************)
(* What a claim comes to: the rate per share of the pool rises by r, the    *)
(* contract receives rewards and pays pending, and if the lockup is         *)
(* withdrawn its owner gets exactly its units out of the stake.             *)
(***************************************************************************)
ClaimsRewards(u, p, d, w, r, rewards, pending) ==
    LET key == <<p, u, d>>  units == lockup[key].lp_units_locked IN
    /\ key \in LiveLockups /\ amount_in_lockups[p] # 0
    /\ ~is_staked[p] => r = 0 /\ rewards = 0 /\ pending = 0 /\ ~w
    /\ r * amount_in_lockups[p] <= DECIMAL_FRACTIONAL * rewards
    /\ lockup[key].generator_ntrn_debt + pending <= MulFloor(units, ntrn_per_share[p] + r)
    /\ pending <= reward_balance + rewards
    /\ reward_balance' = reward_balance + rewards - pending
    /\ ntrn_per_share' = [ntrn_per_share EXCEPT ![p] = ntrn_per_share[p] + r]
    /\ lockup' = [RewardedLockups(u) EXCEPT
           ![key].generator_ntrn_debt = @ + pending,
           ![key].astroport_lp_transferred = IF w THEN units ELSE NONE]

\* The books of the LP tokens after a claim.
ClaimsLp(u, p, d, w) ==
    LET key == <<p, u, d>>  units == lockup[key].lp_units_locked
        g == lockdrop_config.generator
    IN  IF w
        THEN /\ units <= amount_in_lockups[p] /\ units <= total_user_lockup[p][u]
             /\ amount_in_lockups' = [amount_in_lockups EXCEPT ![p] = @ - units]
             /\ total_user_lockup' = [total_user_lockup EXCEPT ![p][u] = @ - units]
             /\ received_lp' = [received_lp EXCEPT ![u][p] = @ + units]
             /\ gen_deposit' = [gen_deposit EXCEPT ![g][p] = @ - units]
             /\ UNCHANGED lp_held
        ELSE UNCHANGED <<amount_in_lockups, total_user_lockup, received_lp, gen_deposit,
                         lp_held>>

\* The handler with its callbacks does this: the stake is the amount in lockups,
\* so the lockup's share of it is its units.
LEMMA ClaimIs ==
    ASSUME LockdropInv, NEW u \in Users, NEW p \in LockPools, NEW d \in LockDurations,
           NEW w \in BOOLEAN, handle_claim_rewards_and_unlock_for_lockup(u, p, d, w)
    PROVE  /\ \E r \in Nat, rewards \in Nat, pending \in Nat :
                  ClaimsRewards(u, p, d, w, r, rewards, pending)
           /\ ClaimsLp(u, p, d, w)
<1> DEFINE key == <<p, u, d>>
           g == lockdrop_config.generator
<1>0. /\ p \in PoolType /\ key \in DOMAIN lockup /\ key \in LiveLockups
      /\ key[1] = p /\ key[2] = u
      /\ LockdropTypeOK /\ LockupsKnown /\ StakedOK /\ LockupsWhole /\ NothingHeld
  BY LockdropAmountAssumption
     DEF LockdropInv, LiveLockups, handle_claim_rewards_and_unlock_for_lockup
<1>1. PICK A \in Nat \ {0}, units \in Nat, debt \in Nat, n \in Nat, b \in Nat :
          /\ A = amount_in_lockups[p] /\ units = lockup[key].lp_units_locked
          /\ debt = lockup[key].generator_ntrn_debt /\ n = ntrn_per_share[p]
          /\ b = reward_balance
  BY <1>0 DEF LockdropTypeOK, LockupRecords, handle_claim_rewards_and_unlock_for_lockup
<1>2. CASE is_staked[p]
  <2>1. /\ g \in Generators /\ gen_deposit[g][p] = A /\ PoolLpBalance(p) = A
    BY <1>0, <1>1, <1>2 DEF StakedOK, LockupsWhole, PoolLpBalance
  <2>2. LockupLpAmount(key) = units
    <3>1. (units * A) \div A = units
      OBVIOUS
    <3> QED BY <1>0, <1>1, <2>1, <3>1 DEF LockupLpAmount
  <2>3. PICK rewards \in Nat : rewards = PendingRewards(p)
    BY <1>0, <1>2, <2>1 DEF PendingRewards, LockdropTypeOK
  <2>4. PICK r \in Nat : /\ UpdatedPerShare(p) = n + r
                         /\ r * A <= DECIMAL_FRACTIONAL * rewards
    <3>1. CASE rewards = 0
      <4>1. UpdatedPerShare(p) = n + 0 /\ 0 * A <= DECIMAL_FRACTIONAL * rewards
        BY <1>1, <2>3, <3>1, ScaleAssumption DEF UpdatedPerShare
      <4> QED BY <4>1
    <3>2. CASE rewards # 0
      <4>1. PICK m \in Nat : m = rewards * DECIMAL_FRACTIONAL
        BY ScaleAssumption
      <4>2. A * (m \div A) <= m /\ m \div A \in Nat
        BY QuotientBelow
      <4>3. PICK r \in Nat : r = m \div A
        BY <4>2
      <4>4. r * A <= DECIMAL_FRACTIONAL * rewards
        BY <4>1, <4>2, <4>3, ScaleAssumption
      <4>5. UpdatedPerShare(p) = n + r
        BY <1>1, <2>1, <2>3, <3>2, <4>1, <4>3 DEF UpdatedPerShare, FromRatio
      <4> QED BY <4>4, <4>5
    <3> QED BY <3>1, <3>2
  <2>5. AccruedRewards(key, n + r) = MulFloor(units, n + r) /\ MulFloor(units, n + r) \in Nat
    <3>1. n + r \in Nat
      OBVIOUS
    <3> QED BY <2>2, <3>1, MulFloorNat DEF AccruedRewards
  <2>6. PICK pending \in Nat : /\ pending = AccruedRewards(key, UpdatedPerShare(p)) - debt
                               /\ debt + pending = MulFloor(units, n + r)
                               /\ pending <= b + rewards
                               /\ reward_balance' = b + rewards - pending
    <3>1. PICK c \in Nat : c = MulFloor(units, n + r)
      BY <2>5
    <3>2. c - debt >= 0 /\ c - debt <= b + rewards /\ reward_balance' = b + rewards - (c - debt)
      BY <1>1, <1>2, <2>3, <2>4, <2>5, <3>1 DEF handle_claim_rewards_and_unlock_for_lockup
    <3>3. c - debt \in Nat /\ debt + (c - debt) = c
      BY <3>2
    <3> QED BY <2>4, <2>5, <3>1, <3>2, <3>3
  <2>7. /\ ntrn_per_share' = [ntrn_per_share EXCEPT ![p] = n + r]
        /\ lockup' = [RewardedLockups(u) EXCEPT
               ![key].generator_ntrn_debt = @ + pending,
               ![key].astroport_lp_transferred = IF w THEN units ELSE NONE]
    BY <1>1, <1>2, <2>2, <2>4, <2>6 DEF handle_claim_rewards_and_unlock_for_lockup
  <2>8. debt + pending <= MulFloor(units, n + r)
    BY <2>5, <2>6
  <2>9. ClaimsRewards(u, p, d, w, r, rewards, pending)
    BY <1>0, <1>1, <1>2, <2>4, <2>6, <2>7, <2>8 DEF ClaimsRewards
  <2>10. ClaimsLp(u, p, d, w)
    BY <1>0, <1>1, <1>2, <2>2 DEF ClaimsLp, ReturnLp, handle_claim_rewards_and_unlock_for_lockup
  <2> QED BY <2>9, <2>10
<1>3. CASE ~is_staked[p]
  <2>1. PoolLpBalance(p) = 0 /\ PendingRewards(p) = 0 /\ UpdatedPerShare(p) = n
    BY <1>0, <1>1, <1>3
       DEF NothingHeld, ZeroPools, PoolLpBalance, PendingRewards, UpdatedPerShare
  <2>2. LockupLpAmount(key) = 0
    <3>1. (units * 0) \div A = 0
      OBVIOUS
    <3> QED BY <1>0, <1>1, <2>1, <3>1 DEF LockupLpAmount
  <2>3. ~w
    BY <2>2 DEF ReturnLp, handle_claim_rewards_and_unlock_for_lockup
  <2>4. debt + 0 <= MulFloor(units, n + 0)
    BY <1>0, <1>1 DEF LockdropInv, FractionsCovered
  <2>5. /\ ntrn_per_share' = [ntrn_per_share EXCEPT ![p] = n + 0]
        /\ reward_balance' = b + 0 - 0 /\ 0 <= b + 0
        /\ lockup' = [RewardedLockups(u) EXCEPT
               ![key].generator_ntrn_debt = @ + 0,
               ![key].astroport_lp_transferred = IF w THEN units ELSE NONE]
    <3>1. ntrn_per_share' = [ntrn_per_share EXCEPT ![p] = n + 0]
      <4>1. ntrn_per_share' = [ntrn_per_share EXCEPT ![p] = n] /\ n + 0 = n
        BY <2>1 DEF handle_claim_rewards_and_unlock_for_lockup
      <4> QED BY <4>1
    <3>2. reward_balance' = b + 0 - 0 /\ 0 <= b + 0
      <4>1. reward_balance' = reward_balance + 0 - 0
        BY <1>3, <2>1 DEF handle_claim_rewards_and_unlock_for_lockup
      <4> QED BY <1>1, <4>1
    <3>3. lockup' = [RewardedLockups(u) EXCEPT
               ![key].generator_ntrn_debt = @ + 0,
               ![key].astroport_lp_transferred = IF w THEN units ELSE NONE]
      <4>1. lockup' = [RewardedLockups(u) EXCEPT
               ![key].generator_ntrn_debt = @ + 0,
               ![key].astroport_lp_transferred = IF w THEN LockupLpAmount(key) ELSE NONE]
        BY <1>3 DEF handle_claim_rewards_and_unlock_for_lockup
      <4> QED BY <2>3, <4>1
    <3> QED BY <3>1, <3>2, <3>3
  <2>6. 0 * A <= DECIMAL_FRACTIONAL * 0
    BY ScaleAssumption
  <2>7. ClaimsRewards(u, p, d, w, 0, 0, 0)
    BY <1>0, <1>1, <1>3, <2>3, <2>4, <2>5, <2>6 DEF ClaimsRewards
  <2>8. ClaimsLp(u, p, d, w)
    BY <2>3 DEF ClaimsLp, handle_claim_rewards_and_unlock_for_lockup
  <2> QED BY <2>7, <2>8
<1> QED BY <1>2, <1>3

\* A claim keeps the types.
LEMMA ClaimTypes ==
    ASSUME LockdropInv, NEW u \in Users, NEW p \in LockPools, NEW d \in LockDurations,
           NEW w \in BOOLEAN, handle_claim_rewards_and_unlock_for_lockup(u, p, d, w)
    PROVE  LockdropTypeOK' /\ LockupsKnown' /\ now' \in Nat /\ DOMAIN lockup' = DOMAIN lockup
<1> DEFINE key == <<p, u, d>>
           g == lockdrop_config.generator
<1>0. /\ p \in PoolType /\ LockdropTypeOK /\ LockupsKnown /\ StakedOK /\ LockupsWhole
      /\ now \in Nat
  BY LockdropAmountAssumption DEF LockdropInv
<1>1. PICK r \in Nat, rewards \in Nat, pending \in Nat :
          ClaimsRewards(u, p, d, w, r, rewards, pending)
  BY ClaimIs
<1>2. ClaimsLp(u, p, d, w)
  BY ClaimIs
<1>3. key \in DOMAIN lockup /\ lockup[key].lp_units_locked \in Nat
  BY <1>0, <1>1 DEF ClaimsRewards, LiveLockups, LockdropTypeOK, LockupRecords
<1>4. /\ DOMAIN lockup' = DOMAIN lockup
      /\ \A k \in DOMAIN lockup : lockup'[k] \in LockupRecords
  <2>1. PICK x \in Nat \cup {NONE} : x = IF w THEN lockup[key].lp_units_locked ELSE NONE
    BY <1>3
  <2>2. lockup' = [RewardedLockups(u) EXCEPT
               ![key].generator_ntrn_debt = @ + pending,
               ![key].astroport_lp_transferred = x]
    BY <1>1, <2>1 DEF ClaimsRewards
  <2>3. AfterClaim(u, key, pending, x)
    BY <1>0, <1>3, <2>2, ClaimedBook
  <2> QED BY <2>3 DEF AfterClaim
<1>5. /\ reward_balance' \in Nat /\ ntrn_per_share' \in [PoolType -> Nat]
  <2>1. PICK b \in Nat, n \in Nat : b = reward_balance /\ n = ntrn_per_share[p]
    BY <1>0 DEF LockdropTypeOK
  <2>2. pending <= b + rewards /\ reward_balance' = b + rewards - pending
    BY <1>1, <2>1 DEF ClaimsRewards
  <2>3. b + rewards - pending \in Nat
    BY <2>2
  <2>4. PICK m \in Nat : m = n + r
    OBVIOUS
  <2>5. ntrn_per_share' = [ntrn_per_share EXCEPT ![p] = m]
    BY <1>1, <2>1, <2>4 DEF ClaimsRewards
  <2> QED BY <1>0, <2>2, <2>3, <2>5 DEF LockdropTypeOK
<1>6. /\ amount_in_lockups' \in [PoolType -> Nat]
      /\ total_user_lockup' \in [PoolType -> [Users -> Nat]]
      /\ received_lp' \in [Users -> [PoolType -> Nat]]
      /\ gen_deposit' \in [Generators -> [PoolType -> Nat]]
      /\ UNCHANGED lp_held
  <2>1. CASE ~w
    BY <1>0, <1>2, <2>1 DEF ClaimsLp, LockdropTypeOK
  <2>2. CASE w
    <3>1. /\ is_staked[p] /\ g \in Generators /\ gen_deposit[g][p] = amount_in_lockups[p]
      BY <1>0, <1>1, <2>2 DEF ClaimsRewards, StakedOK, LockupsWhole
    <3>2. PICK n \in Nat : n = lockup[key].lp_units_locked
      BY <1>3
    <3>3. /\ n <= amount_in_lockups[p] /\ n <= total_user_lockup[p][u]
          /\ amount_in_lockups' = [amount_in_lockups EXCEPT ![p] = @ - n]
          /\ total_user_lockup' = [total_user_lockup EXCEPT ![p][u] = @ - n]
          /\ received_lp' = [received_lp EXCEPT ![u][p] = @ + n]
          /\ gen_deposit' = [gen_deposit EXCEPT ![g][p] = @ - n]
          /\ UNCHANGED lp_held
      BY <1>2, <2>2, <3>2 DEF ClaimsLp
    <3>4. amount_in_lockups' \in [PoolType -> Nat]
      BY <1>0, <3>3 DEF LockdropTypeOK
    <3>5. total_user_lockup' \in [PoolType -> [Users -> Nat]]
      BY <1>0, <3>3 DEF LockdropTypeOK
    <3>6. received_lp' \in [Users -> [PoolType -> Nat]]
      BY <1>0, <3>3 DEF LockdropTypeOK
    <3>7. gen_deposit' \in [Generators -> [PoolType -> Nat]]
      BY <1>0, <3>1, <3>3 DEF LockdropTypeOK
    <3> QED BY <3>3, <3>4, <3>5, <3>6, <3>7
  <2> QED BY <2>1, <2>2
<1>7. gen_pending' \in [Generators -> [PoolType -> Nat]]
  <2>1. CASE is_staked[p]
    <3>1. g \in Generators
      BY <1>0, <2>1 DEF StakedOK
    <3>2. gen_pending' = [gen_pending EXCEPT ![g][p] = 0]
      BY <2>1 DEF handle_claim_rewards_and_unlock_for_lockup
    <3> QED BY <1>0, <3>1, <3>2 DEF LockdropTypeOK
  <2>2. CASE ~is_staked[p]
    BY <1>0, <2>2 DEF handle_claim_rewards_and_unlock_for_lockup, LockdropTypeOK
  <2> QED BY <2>1, <2>2
<1>8. PICK reward \in Nat : reward = UserReward(u)
  BY <1>0, RewardNat
<1>9. total_ntrn_rewards' \in [Users -> Nat]
  BY <1>0, <1>8 DEF handle_claim_rewards_and_unlock_for_lockup, LockdropTypeOK
<1>10. /\ incentives_balance' \in Nat /\ received_ntrn' \in [Users -> Nat]
       /\ ntrn_transferred' \in [Users -> BOOLEAN]
  <2>1. CASE ntrn_transferred[u]
    BY <1>0, <2>1 DEF handle_claim_rewards_and_unlock_for_lockup, LockdropTypeOK
  <2>2. CASE ~ntrn_transferred[u]
    <3>1. PayOneTimeReward(u, reward)
      BY <1>8, <2>2 DEF handle_claim_rewards_and_unlock_for_lockup
    <3> QED BY <1>0, <3>1 DEF PayOneTimeReward, LockdropTypeOK
  <2> QED BY <2>1, <2>2
<1>11. UNCHANGED <<now, lockdrop_config, pools_set, weighted_amount, incentives_share,
                   is_staked, total_incentives_share, participants, positions, gen_reserve>>
  BY DEF handle_claim_rewards_and_unlock_for_lockup
<1>12. LockdropTypeOK'
  BY <1>0, <1>4, <1>5, <1>6, <1>7, <1>9, <1>10, <1>11 DEF LockdropTypeOK
<1>13. LockupsKnown'
  BY <1>0, <1>4, <1>11 DEF LockupsKnown
<1> QED BY <1>0, <1>4, <1>11, <1>12, <1>13

\* The records of the invariant's states after a claim, for later use.
LEMMA ClaimRecords ==
    ASSUME LockdropInv, NEW u \in Users, NEW p \in LockPools, NEW d \in LockDurations,
           NEW w \in BOOLEAN, NEW r \in Nat, NEW rewards \in Nat, NEW pending \in Nat,
           ClaimsRewards(u, p, d, w, r, rewards, pending)
    PROVE  /\ <<p, u, d>> \in DOMAIN lockup
           /\ lockup[<<p, u, d>>].astroport_lp_transferred = NONE
           /\ AfterClaim(u, <<p, u, d>>, pending,
                         IF w THEN lockup[<<p, u, d>>].lp_units_locked ELSE NONE)
           /\ \A k \in DOMAIN lockup :
                  lockup[k].lp_units_locked \in Nat /\ lockup[k].generator_ntrn_debt \in Nat
<1> DEFINE key == <<p, u, d>>
<1>1. LockdropTypeOK /\ LockupsKnown
  BY DEF LockdropInv
<1>2. /\ key \in DOMAIN lockup /\ lockup[key].lp_units_locked \in Nat
      /\ lockup[key].astroport_lp_transferred = NONE
  BY <1>1 DEF ClaimsRewards, LiveLockups, LockdropTypeOK, LockupRecords
<1>3. PICK x \in Nat \cup {NONE} : x = IF w THEN lockup[key].lp_units_locked ELSE NONE
  BY <1>2
<1>4. lockup' = [RewardedLockups(u) EXCEPT
               ![key].generator_ntrn_debt = @ + pending,
               ![key].astroport_lp_transferred = x]
  BY <1>3 DEF ClaimsRewards
<1>5. \A k \in DOMAIN lockup :
          lockup[k].lp_units_locked \in Nat /\ lockup[k].generator_ntrn_debt \in Nat
  BY <1>1 DEF LockdropTypeOK, LockupRecords
<1>6. AfterClaim(u, key, pending, x)
  BY <1>1, <1>2, <1>4, ClaimedBook
<1> QED BY <1>2, <1>3, <1>5, <1>6

\* A claim keeps the ledgers and the stakes.
LEMMA ClaimBooks ==
    ASSUME LockdropInv, NEW u \in Users, NEW p \in LockPools, NEW d \in LockDurations,
           NEW w \in BOOLEAN, handle_claim_rewards_and_unlock_for_lockup(u, p, d, w)
    PROVE  LedgersAgree' /\ UnstakedOK' /\ StakedOK' /\ NothingHeld' /\ LockupsWhole'
<1> DEFINE key == <<p, u, d>>
           g == lockdrop_config.generator
<1>0. /\ p \in PoolType /\ LockdropTypeOK /\ LockupsKnown /\ StakedOK /\ LockupsWhole
      /\ UnstakedOK /\ NothingHeld /\ key[1] = p /\ key[2] = u
      /\ LockdropTypeOK' /\ LockupsKnown'
  BY LockdropAmountAssumption, ClaimTypes DEF LockdropInv
<1>1. PICK r \in Nat, rewards \in Nat, pending \in Nat :
          ClaimsRewards(u, p, d, w, r, rewards, pending)
  BY ClaimIs
<1>2. ClaimsLp(u, p, d, w)
  BY ClaimIs
<1>3. UNCHANGED <<lockdrop_config, incentives_share, is_staked, participants, positions>>
  BY DEF handle_claim_rewards_and_unlock_for_lockup
<1>4. /\ key \in DOMAIN lockup /\ lockup[key].astroport_lp_transferred = NONE
      /\ DOMAIN lockup' = DOMAIN lockup
      /\ \A k \in DOMAIN lockup : /\ lockup'[k].lp_units_locked = lockup[k].lp_units_locked
                                  /\ lockup[k].lp_units_locked \in Nat
      /\ \A k \in DOMAIN lockup \ {key} :
             /\ lockup'[k].generator_ntrn_debt = lockup[k].generator_ntrn_debt
             /\ lockup'[k].astroport_lp_transferred = lockup[k].astroport_lp_transferred
      /\ lockup'[key].generator_ntrn_debt = lockup[key].generator_ntrn_debt + pending
      /\ lockup'[key].astroport_lp_transferred
             = IF w THEN lockup[key].lp_units_locked ELSE NONE
  <2>1. /\ key \in DOMAIN lockup /\ lockup[key].astroport_lp_transferred = NONE
        /\ AfterClaim(u, key, pending, IF w THEN lockup[key].lp_units_locked ELSE NONE)
        /\ \A k \in DOMAIN lockup : lockup[k].lp_units_locked \in Nat
    BY <1>1, ClaimRecords
  <2> QED BY <2>1 DEF AfterClaim
<1>5. ~is_staked[p] => r = 0 /\ pending = 0 /\ ~w
  BY <1>1 DEF ClaimsRewards
<1>6. PICK units \in Nat : units = lockup[key].lp_units_locked
  BY <1>4
<1> HIDE DEF key
<1>7. LedgersAgree'
  <2>0. PICK e \in Int : e = IF w THEN -units ELSE 0
    OBVIOUS
  <2>1. UnitsMoveAt(lockup, lockup', key, e)
    <3>1. units + e = IF w THEN 0 ELSE units
      BY <2>0
    <3>2. key \in LiveIn(lockup) /\ (key \in LiveIn(lockup') <=> ~w)
      BY <1>4, <1>6, NoneAssumption DEF LiveIn
    <3>3. lockup'[key].lp_units_locked = units
      BY <1>4, <1>6
    <3>4. (IF key \in LiveIn(lockup') THEN lockup'[key].lp_units_locked ELSE 0)
              = (IF key \in LiveIn(lockup) THEN lockup[key].lp_units_locked ELSE 0) + e
      BY <1>6, <3>1, <3>2, <3>3
    <3> QED BY <1>4, <3>4 DEF UnitsMoveAt
  <2>2. TotalsMoveAt(amount_in_lockups, amount_in_lockups',
                     total_user_lockup, total_user_lockup', key, e)
    <3>1. CASE w
      <4>1. /\ amount_in_lockups' = [amount_in_lockups EXCEPT ![p] = @ - units]
            /\ total_user_lockup' = [total_user_lockup EXCEPT ![p][u] = @ - units]
        BY <1>2, <1>6, <3>1 DEF ClaimsLp, key
      <4>2. /\ amount_in_lockups[p] - units = amount_in_lockups[p] + e
            /\ total_user_lockup[p][u] - units = total_user_lockup[p][u] + e
        BY <1>0, <2>0, <3>1 DEF LockdropTypeOK
      <4> QED BY <1>0, <4>1, <4>2 DEF TotalsMoveAt, LockdropTypeOK
    <3>2. CASE ~w
      <4>1. UNCHANGED <<amount_in_lockups, total_user_lockup>> /\ e = 0
        BY <1>2, <2>0, <3>2 DEF ClaimsLp
      <4>2. \A q \in PoolType : /\ amount_in_lockups[q] + 0 = amount_in_lockups[q]
                                /\ \A v \in Users : total_user_lockup[q][v] + 0
                                                        = total_user_lockup[q][v]
        BY <1>0 DEF LockdropTypeOK
      <4> QED BY <4>1, <4>2 DEF TotalsMoveAt
    <3> QED BY <3>1, <3>2
  <2>3. /\ UnitsAgree(lockup, amount_in_lockups, total_user_lockup)
        /\ PositionsAgree(lockup, positions)
    BY LedgersAre DEF LockdropInv
  <2>4. Counted(lockup) /\ Counted(lockup')
    BY <1>0, BookIs, BookCounted
  <2>5. UnitsAgree(lockup', amount_in_lockups', total_user_lockup')
    BY <2>1, <2>2, <2>3, <2>4, UnitsAgreeMove
  <2>6. PositionsAgree(lockup', positions')
    BY <1>3, <1>4, <2>3 DEF PositionsAgree
  <2> QED BY <2>5, <2>6, LedgersAre
<1>8. StakedOK' /\ NothingHeld'
  BY <1>0, <1>2, <1>3 DEF StakedOK, NothingHeld, ClaimsLp
<1>9. UnstakedOK'
  <2> SUFFICES ASSUME NEW q \in PoolType, ~is_staked'[q]
               PROVE  /\ ntrn_per_share'[q] = 0 /\ incentives_share'[q] = 0
                      /\ \A h \in Generators : gen_deposit'[h][q] = 0
                      /\ \A k \in DOMAIN lockup' : k[1] = q =>
                             /\ lockup'[k].astroport_lp_transferred = NONE
                             /\ lockup'[k].generator_ntrn_debt = 0
    BY DEF UnstakedOK
  <2>1. ~is_staked[q]
    BY <1>3
  <2>2. ntrn_per_share' = [ntrn_per_share EXCEPT ![p] = ntrn_per_share[p] + r]
    BY <1>1 DEF ClaimsRewards
  <2>3. ntrn_per_share'[q] = 0
    BY <1>0, <1>5, <2>1, <2>2 DEF UnstakedOK, LockdropTypeOK
  <2>4. \A h \in Generators : gen_deposit'[h][q] = 0
    <3>1. CASE ~w
      BY <1>0, <1>2, <2>1, <3>1 DEF ClaimsLp, UnstakedOK
    <3>2. CASE w
      <4>1. q # p
        BY <1>5, <2>1, <3>2
      <4>2. gen_deposit' = [gen_deposit EXCEPT ![g][p] = @ - units]
        BY <1>2, <1>6, <3>2 DEF ClaimsLp, key
      <4> QED BY <1>0, <2>1, <4>1, <4>2 DEF UnstakedOK, LockdropTypeOK
    <3> QED BY <3>1, <3>2
  <2>5. ASSUME NEW k \in DOMAIN lockup', k[1] = q
        PROVE  /\ lockup'[k].astroport_lp_transferred = NONE
               /\ lockup'[k].generator_ntrn_debt = 0
    <3>1. k \in DOMAIN lockup /\ lockup[k].astroport_lp_transferred = NONE
          /\ lockup[k].generator_ntrn_debt = 0
      BY <1>0, <1>4, <2>1, <2>5 DEF UnstakedOK
    <3>2. CASE k = key
      BY <1>0, <1>4, <1>5, <2>1, <2>5, <3>1, <3>2
    <3>3. CASE k # key
      BY <1>4, <3>1, <3>3
    <3> QED BY <3>2, <3>3
  <2> QED BY <1>0, <1>3, <2>1, <2>3, <2>4, <2>5 DEF UnstakedOK
<1>10. LockupsWhole'
  <2>1. ASSUME NEW q \in PoolType, is_staked'[q]
        PROVE  gen_deposit'[lockdrop_config'.generator][q] = amount_in_lockups'[q]
    <3>0. is_staked[q] /\ lockdrop_config' = lockdrop_config /\ g \in Generators
          /\ gen_deposit[g][q] = amount_in_lockups[q]
      BY <1>0, <1>3, <2>1 DEF LockupsWhole, StakedOK
    <3>1. CASE ~w
      BY <1>2, <3>0, <3>1 DEF ClaimsLp
    <3>2. CASE w
      <4>1. /\ gen_deposit' = [gen_deposit EXCEPT ![g][p] = @ - units]
            /\ amount_in_lockups' = [amount_in_lockups EXCEPT ![p] = @ - units]
        BY <1>2, <1>6, <3>2 DEF ClaimsLp, key
      <4> QED BY <1>0, <3>0, <4>1 DEF LockdropTypeOK
    <3> QED BY <3>1, <3>2
  <2>2. ASSUME NEW k \in DOMAIN lockup' \ LiveLockups'
        PROVE  lockup'[k].astroport_lp_transferred = lockup'[k].lp_units_locked
    <3>1. k \in DOMAIN lockup /\ lockup'[k].astroport_lp_transferred # NONE
      BY <1>4, <2>2 DEF LiveLockups
    <3>2. CASE k = key
      BY <1>4, <3>1, <3>2
    <3>3. CASE k # key
      <4>1. k \in DOMAIN lockup \ LiveLockups
        BY <1>4, <3>1, <3>3 DEF LiveLockups
      <4> QED BY <1>0, <1>4, <3>3, <4>1 DEF LockupsWhole
    <3> QED BY <3>2, <3>3
  <2> QED BY <2>1, <2>2 DEF LockupsWhole
<1> QED BY <1>7, <1>8, <1>9, <1>10

\* A claim keeps the generator rewards covered.
LEMMA ClaimFractions ==
    ASSUME LockdropInv, NEW u \in Users, NEW p \in LockPools, NEW d \in LockDurations,
           NEW w \in BOOLEAN, handle_claim_rewards_and_unlock_for_lockup(u, p, d, w)
    PROVE  FractionsCovered'
<1> DEFINE key == <<p, u, d>>
           D == DOMAIN lockup
           P == {k \in LiveLockups : k[1] = p}
           t == [k \in D |-> Undrawn(k)]
           t2 == [k \in D |-> Undrawn(k)']
           units == [k \in D |-> lockup[k].lp_units_locked]
           debt == [k \in D |-> lockup[k].generator_ntrn_debt]
           F == DECIMAL_FRACTIONAL
<1>0. /\ p \in PoolType /\ LockdropTypeOK /\ LockupsKnown /\ FractionsCovered /\ LedgersAgree
      /\ key[1] = p /\ LockdropTypeOK'
  BY LockdropAmountAssumption, ClaimTypes DEF LockdropInv
<1>1. PICK r \in Nat, rewards \in Nat, pending \in Nat :
          ClaimsRewards(u, p, d, w, r, rewards, pending)
  BY ClaimIs
<1>2. /\ key \in D /\ lockup[key].astroport_lp_transferred = NONE
      /\ AfterClaim(u, key, pending, IF w THEN lockup[key].lp_units_locked ELSE NONE)
      /\ \A k \in D : lockup[k].lp_units_locked \in Nat /\ lockup[k].generator_ntrn_debt \in Nat
  BY <1>1, ClaimRecords
<1>3. /\ \A k \in D : units[k] \in Nat /\ debt[k] \in Nat /\ k[1] \in PoolType
      /\ DOMAIN lockup' = D
      /\ \A k \in D : lockup'[k].lp_units_locked = units[k]
      /\ \A k \in D \ {key} :
             /\ lockup'[k].generator_ntrn_debt = debt[k]
             /\ lockup'[k].astroport_lp_transferred = lockup[k].astroport_lp_transferred
      /\ lockup'[key].generator_ntrn_debt = debt[key] + pending
      /\ lockup'[key].astroport_lp_transferred = IF w THEN units[key] ELSE NONE
  <2>1. \A k \in D : k[1] \in PoolType
    BY <1>0 DEF LockdropTypeOK, Keys
  <2> QED BY <1>2, <2>1 DEF AfterClaim
<1>4. PICK n \in Nat : n = ntrn_per_share[p]
  BY <1>0 DEF LockdropTypeOK
<1>5. /\ ntrn_per_share'[p] = n + r
      /\ \A q \in PoolType \ {p} : ntrn_per_share'[q] = ntrn_per_share[q]
      /\ \A q \in PoolType : ntrn_per_share[q] \in Nat
  <2>1. ntrn_per_share' = [ntrn_per_share EXCEPT ![p] = n + r]
    BY <1>1, <1>4 DEF ClaimsRewards
  <2> QED BY <1>0, <2>1 DEF LockdropTypeOK
<1>6. debt[key] + pending <= MulFloor(units[key], n + r)
  BY <1>1, <1>2, <1>4 DEF ClaimsRewards
<1>7. /\ LiveLockups \subseteq D /\ P \subseteq LiveLockups /\ key \in P
      /\ LiveLockups' = IF w THEN LiveLockups \ {key} ELSE LiveLockups
      /\ IsFiniteSet(LiveLockups)
  <2>1. LiveLockups \subseteq D /\ P \subseteq LiveLockups /\ key \in P
    BY <1>0, <1>2 DEF LiveLockups
  <2>2. (IF w THEN units[key] ELSE NONE) = NONE <=> ~w
    BY <1>2, <1>3, NoneAssumption
  <2>3. LiveLockups' = IF w THEN LiveLockups \ {key} ELSE LiveLockups
    BY <1>2, <1>3, <2>2 DEF LiveLockups
  <2>4. IsFiniteSet(LiveLockups)
    BY <1>0, <2>1, FS_Subset DEF LockupsKnown
  <2> QED BY <2>1, <2>3, <2>4
<1>8. ASSUME NEW k \in D
      PROVE  /\ t[k] = (units[k] * ntrn_per_share[k[1]]) - (F * debt[k])
             /\ t2[k] = (units[k] * ntrn_per_share'[k[1]]) - (F * lockup'[k].generator_ntrn_debt)
  BY <1>3 DEF Undrawn
<1> HIDE DEF t, t2, units, debt, D, P, key
<1>9. ASSUME NEW k \in D
      PROVE  /\ t[k] \in Int /\ t2[k] \in Int
             /\ k[1] # p => t2[k] = t[k]
             /\ k[1] = p /\ k # key => t2[k] = t[k] + (r * units[k])
  <2>1. PICK x \in Nat, y \in Nat, m \in Nat, y2 \in Nat, m2 \in Nat :
            /\ x = units[k] /\ y = debt[k] /\ m = ntrn_per_share[k[1]]
            /\ m2 = ntrn_per_share'[k[1]] /\ y2 = lockup'[k].generator_ntrn_debt
    <3>1. /\ ntrn_per_share[k[1]] \in Nat /\ ntrn_per_share'[k[1]] \in Nat
      BY <1>3, <1>5
    <3>2. lockup'[k].generator_ntrn_debt \in Nat
      BY <1>2, <1>3
    <3> QED BY <1>3, <3>1, <3>2
  <2>2. t[k] = (x * m) - (F * y) /\ t2[k] = (x * m2) - (F * y2)
    BY <1>8, <2>1
  <2>3. x * m \in Nat /\ F * y \in Nat /\ x * m2 \in Nat /\ F * y2 \in Nat /\ r * x \in Nat
    BY ScaleAssumption
  <2>4. t[k] \in Int /\ t2[k] \in Int
    BY <2>2, <2>3
  <2>5. CASE k[1] # p
    <3>1. m2 = m /\ y2 = y
      BY <1>0, <1>3, <1>5, <2>1, <2>5 DEF key
    <3> QED BY <2>2, <2>4, <2>5, <3>1
  <2>6. CASE k[1] = p /\ k # key
    <3>1. m2 = m + r /\ y2 = y
      BY <1>3, <1>4, <1>5, <2>1, <2>6
    <3>2. x * (m + r) = (x * m) + (r * x)
      OBVIOUS
    <3>3. t2[k] = t[k] + (r * x)
      BY <2>2, <2>3, <3>1, <3>2
    <3> QED BY <2>1, <2>4, <2>6, <3>3
  <2>7. CASE k = key
    BY <1>0, <2>4, <2>7
  <2> QED BY <2>5, <2>6, <2>7
<1>10. /\ t2[key] = t[key] + (r * units[key]) - (F * pending)
       /\ t2[key] >= 0
  <2>1. PICK x \in Nat, y \in Nat, c \in Nat, m \in Nat :
            /\ x = units[key] /\ y = debt[key] /\ m = n + r /\ c = MulFloor(x, m)
    <3>1. PICK x \in Nat, y \in Nat, m \in Nat :
              x = units[key] /\ y = debt[key] /\ m = n + r
      BY <1>2, <1>3
    <3>2. MulFloor(x, m) \in Nat
      BY MulFloorNat
    <3> QED BY <3>1, <3>2
  <2>2. /\ t[key] = (x * n) - (F * y)
        /\ t2[key] = (x * m) - (F * (y + pending))
    BY <1>0, <1>2, <1>3, <1>4, <1>5, <1>8, <2>1
  <2>3. x * m = (x * n) + (r * x)
    BY <2>1
  <2>4. F * (y + pending) = (F * y) + (F * pending)
    BY ScaleAssumption
  <2>5. x * n \in Nat /\ r * x \in Nat /\ F * y \in Nat /\ F * pending \in Nat
    BY ScaleAssumption
  <2>6. t2[key] = t[key] + (r * x) - (F * pending)
    <3>1. PICK xn \in Nat, rx \in Nat, fy \in Nat, fp \in Nat :
              xn = x * n /\ rx = r * x /\ fy = F * y /\ fp = F * pending
      BY <2>5
    <3>2. t[key] = xn - fy /\ t2[key] = (xn + rx) - (fy + fp)
      BY <2>2, <2>3, <2>4, <3>1
    <3>3. t2[key] = t[key] + rx - fp
      BY <3>2
    <3> QED BY <3>1, <3>3
  <2>7. F * (y + pending) <= F * c /\ F * c \in Nat
    <3>1. PICK z \in Nat, ff \in Nat : z = y + pending /\ ff = F
      BY ScaleAssumption
    <3>2. z <= c
      BY <1>6, <2>1, <3>1
    <3>3. ff * z <= ff * c /\ ff * c \in Nat
      BY <3>2, Grows
    <3> QED BY <3>1, <3>3
  <2>8. F * c <= x * m
    BY <2>1, MulFloorBelow
  <2>9. t2[key] >= 0
    BY <2>2, <2>3, <2>4, <2>5, <2>7, <2>8
  <2> QED BY <2>1, <2>6, <2>9
<1>11. PICK A \in Nat : A = amount_in_lockups[p] /\ A = SumOver(units, P)
  <2>1. amount_in_lockups[p] = UnitsOf(P)
    BY <1>0 DEF LedgersAgree, P
  <2> QED BY <1>0, <2>1 DEF UnitsOf, units, LockdropTypeOK, D
<1>12. Draws(LiveLockups, P, LiveLockups', t, t2, units, A, r, rewards, pending, key)
  <2>1. r * A <= F * rewards
    BY <1>1, <1>11 DEF ClaimsRewards
  <2>2. LiveLockups' = LiveLockups \/ LiveLockups' = LiveLockups \ {key}
    BY <1>7
  <2>3. \A k \in LiveLockups : t[k] \in Int /\ t2[k] \in Int /\ units[k] \in Nat
    BY <1>3, <1>7, <1>9
  <2>4. \A k \in LiveLockups \ P : t2[k] = t[k]
    BY <1>7, <1>9 DEF P
  <2>5. \A k \in P \ {key} : t2[k] = t[k] + (r * units[k])
    BY <1>7, <1>9 DEF P
  <2> QED BY <1>7, <1>10, <1>11, <2>1, <2>2, <2>3, <2>4, <2>5 DEF Draws
<1>13. SumOver(t2, LiveLockups') <= SumOver(t, LiveLockups) + (F * rewards) - (F * pending)
  BY <1>12, DrawsCovered
<1>14. SumOver(t2, LiveLockups') <= F * reward_balance'
  <2>1. PICK b \in Nat, b2 \in Nat : b = reward_balance /\ b2 = reward_balance'
    BY <1>0 DEF LockdropTypeOK
  <2>2. b2 = b + rewards - pending
    BY <1>1, <2>1 DEF ClaimsRewards
  <2>3. F * b2 = (F * b) + (F * rewards) - (F * pending)
    BY <2>2, ScaleAssumption
  <2>4. PICK st \in Int, st2 \in Int :
            st = SumOver(t, LiveLockups) /\ st2 = SumOver(t2, LiveLockups')
    <3>1. \A k \in LiveLockups : t[k] \in Int
      BY <1>7, <1>9
    <3>2. IsFiniteSet(LiveLockups') /\ \A k \in LiveLockups' : t2[k] \in Int
      BY <1>7, <1>9, FS_RemoveElement
    <3> QED BY <1>7, <3>1, <3>2, SumInt
  <2>5. st <= F * b
    BY <1>0, <2>1, <2>4 DEF FractionsCovered, t, D
  <2>6. F * b \in Nat /\ F * rewards \in Nat /\ F * pending \in Nat
    BY ScaleAssumption
  <2>7. st2 <= st + (F * rewards) - (F * pending)
    BY <1>13, <2>4
  <2>8. st2 <= F * b2
    BY <2>3, <2>5, <2>6, <2>7
  <2> QED BY <2>1, <2>4, <2>8
<1>15. ASSUME NEW k \in LiveLockups'
       PROVE  lockup'[k].generator_ntrn_debt
                  <= MulFloor(lockup'[k].lp_units_locked, ntrn_per_share'[k[1]])
  <2>0. k \in LiveLockups /\ k \in D
    BY <1>7
  <2>1. CASE k = key
    BY <1>0, <1>2, <1>3, <1>5, <1>6, <2>1
  <2>2. CASE k # key
    <3>1. PICK m \in Nat, m2 \in Nat, x \in Nat, y \in Nat :
              /\ m = ntrn_per_share[k[1]] /\ m2 = ntrn_per_share'[k[1]]
              /\ x = units[k] /\ y = debt[k]
      <4>1. ntrn_per_share[k[1]] \in Nat /\ ntrn_per_share'[k[1]] \in Nat
        BY <1>3, <1>5, <2>0
      <4> QED BY <1>3, <2>0, <4>1
    <3>2. m <= m2
      BY <1>3, <1>4, <1>5, <2>0, <3>1
    <3>3. y <= MulFloor(x, m)
      BY <1>0, <2>0, <3>1 DEF FractionsCovered, units, debt, D
    <3>4. MulFloor(x, m) <= MulFloor(x, m2) /\ MulFloor(x, m) \in Nat /\ MulFloor(x, m2) \in Nat
      BY <3>2, MulFloorGrows, MulFloorNat
    <3>5. y <= MulFloor(x, m2)
      BY <3>3, <3>4
    <3> QED BY <1>3, <2>0, <2>2, <3>1, <3>5
  <2> QED BY <2>1, <2>2
<1>16. t2 = [k \in DOMAIN lockup |-> Undrawn(k)]'
  BY <1>3 DEF t2, D
<1> QED BY <1>14, <1>15, <1>16 DEF FractionsCovered

\* A claim keeps the invariant.
LEMMA ClaimKeeps ==
    ASSUME LockdropInv, NEW u \in Users, NEW p \in LockPools, NEW d \in LockDurations,
           NEW w \in BOOLEAN, handle_claim_rewards_and_unlock_for_lockup(u, p, d, w)
    PROVE  LockdropInv'
BY ClaimTypes, ClaimBooks, ClaimFractions DEF LockdropInv

\* Every step keeps the invariant.
LEMMA LockdropInvStep == LockdropInv /\ [UnboundedNext]_lockdropVars => LockdropInv'
<1> SUFFICES ASSUME LockdropInv, [UnboundedNext]_lockdropVars PROVE LockdropInv'
  OBVIOUS
<1>1. CASE UNCHANGED lockdropVars
  <2>0. /\ UNCHANGED <<now, lockdrop_config, pools_set, amount_in_lockups, weighted_amount,
                       incentives_share, is_staked, ntrn_per_share, total_incentives_share>>
        /\ UNCHANGED <<lockup, participants, positions, total_ntrn_rewards,
                       ntrn_transferred, total_user_lockup, gen_deposit, gen_reserve>>
        /\ UNCHANGED <<gen_pending, reward_balance, incentives_balance, lp_held,
                       received_ntrn, received_lp>>
    BY <1>1 DEF lockdropVars, poolVars, lockerVars, lockdropEnv
  <2>1. LockdropTypeOK' /\ now' \in Nat
    BY <2>0 DEF LockdropInv, LockdropTypeOK
  <2>2. lockdrop_config'.generator = lockdrop_config.generator
    BY <2>0
  <2> QED BY <2>0, <2>1, <2>2, StaysOK
<1>2. CASE LockdropTick
  BY <1>2, SimpleSteps
<1>3. CASE LockdropSetup
  <2>1. ASSUME NEW g \in Generators, NEW p \in PoolType, NEW amount \in Accruals,
               GeneratorAccrues(g, p, amount)
        PROVE  LockdropInv'
    BY <2>1, SimpleSteps
  <2>2. ASSUME NEW s \in Senders, NEW m \in LockdropUpdateMsgs, handle_update_config(s, m)
        PROVE  LockdropInv'
    BY <2>2, SimpleSteps
  <2>3. ASSUME NEW s \in Senders, NEW g \in Generators, participants = {},
               handle_set_token_info(s, g)
        PROVE  LockdropInv'
    BY <2>3, SetTokenInfoKeeps
  <2>4. ASSUME NEW amount \in Incentives, handle_increasing_ntrn_incentives(amount)
        PROVE  LockdropInv'
    BY <2>4, SimpleSteps
  <2> QED BY <1>3, <2>1, <2>2, <2>3, <2>4 DEF LockdropSetup
<1>4. ASSUME NEW u \in Users, NEW p \in LockPools, NEW d \in LockDurations, NEW w \in BOOLEAN,
             handle_claim_rewards_and_unlock_for_lockup(u, p, d, w)
      PROVE  LockdropInv'
  BY <1>4, ClaimKeeps
<1>5. CASE AnyAuctionCalls
  <2>0. ~PoolsInitialised
    BY <1>5 DEF AnyAuctionCalls, PoolsInitialised
  <2>1. ASSUME NEW s \in AuctionAddrs, NEW u \in Users, NEW p \in LockPools,
               NEW d \in LockDurations, NEW a \in Nat,
               handle_increase_lockup(s, u, p, d, a)
        PROVE  LockdropInv'
    BY <2>0, <2>1, IncreaseKeeps
  <2>2. ASSUME NEW s \in AuctionAddrs, NEW u \in Users, NEW p \in LockPools,
               NEW d \in LockDurations, NEW a \in Nat,
               handle_withdraw_from_lockup(s, u, p, d, a)
        PROVE  LockdropInv'
    BY <2>0, <2>2, WithdrawKeeps
  <2>3. ASSUME NEW s \in AuctionAddrs, NEW share \in [PoolType -> Nat],
               handle_initialize_pool(s, share, amount_in_lockups)
        PROVE  LockdropInv'
    BY <2>0, <2>3, InitializeKeeps
  <2> QED BY <1>5, <2>1, <2>2, <2>3 DEF AnyAuctionCalls
<1> QED BY <1>1, <1>2, <1>3, <1>4, <1>5 DEF UnboundedNext, LockdropStep

\* The invariant holds of the lockdrop.
LEMMA LockdropInvariant == UnboundedSpec => []LockdropInv
<1>1. LockdropInit => LockdropInv
  BY LockdropInvInit
<1>2. LockdropInv /\ [UnboundedNext]_lockdropVars => LockdropInv'
  BY LockdropInvStep
<1> QED BY <1>1, <1>2, PTL DEF UnboundedSpec
-----------------------------------------------------------------------------
\* Type correctness of the lockdrop: no ledger, balance or stake goes below
\* zero, and no user has more positions than MAX_POSITIONS_PER_USER.
THEOREM LockdropTypeCorrect == LockdropSpec => []LockdropTypeOK
<1>1. LockdropInv => LockdropTypeOK
  BY DEF LockdropInv
<1> QED BY <1>1, LockdropInvariant, BoundedIsUnbounded, PTL

\* amount_in_lockups, TOTAL_USER_LOCKUP_AMOUNT, LOCKUP_INFO and the position
\* counter agree after any sequence of increases, withdrawals and claims.
THEOREM LedgersAgreeAlways == LockdropSpec => []LedgersAgree
<1>1. LockdropInv => LedgersAgree
  BY DEF LockdropInv
<1> QED BY <1>1, LockdropInvariant, BoundedIsUnbounded, PTL

\* Whoever has claimed or left, the stake is what the lockups add up to, and a
\* lockup that was returned was returned in full.
THEOREM LockupsWholeAlways == LockdropSpec => []LockupsWhole
<1>1. LockdropInv => LockupsWhole
  BY DEF LockdropInv
<1> QED BY <1>1, LockdropInvariant, BoundedIsUnbounded, PTL

\* Rounded down for every lockup, what may be drawn is covered all the more.
LEMMA CoveredWhenRounded == LockdropInv => GeneratorRewardsCovered
<1> SUFFICES ASSUME LockdropInv PROVE GeneratorRewardsCovered
  OBVIOUS
<1> DEFINE D == DOMAIN lockup
           v == [k \in D |-> MulFloor(lockup[k].lp_units_locked, ntrn_per_share[k[1]])
                                 - lockup[k].generator_ntrn_debt]
           t == [k \in D |-> Undrawn(k)]
           F == DECIMAL_FRACTIONAL
<1>1. /\ LockdropTypeOK /\ LockupsKnown /\ FractionsCovered
      /\ LiveLockups \subseteq D /\ IsFiniteSet(LiveLockups)
  BY FS_Subset DEF LockdropInv, LiveLockups, LockupsKnown
<1>2. ASSUME NEW k \in LiveLockups
      PROVE  t[k] \in Nat /\ v[k] \in Nat /\ F * v[k] <= 1 * t[k]
  <2>1. k \in D /\ k[1] \in PoolType
    BY <1>1 DEF LockdropTypeOK, Keys
  <2>2. PICK x \in Nat, n \in Nat, y \in Nat :
            /\ x = lockup[k].lp_units_locked /\ n = ntrn_per_share[k[1]]
            /\ y = lockup[k].generator_ntrn_debt
    BY <1>1, <2>1 DEF LockdropTypeOK, LockupRecords
  <2>3. PICK c \in Nat : c = MulFloor(x, n)
    BY MulFloorNat
  <2>4. y <= c
    BY <1>1, <2>2, <2>3 DEF FractionsCovered
  <2>5. v[k] = c - y /\ t[k] = (x * n) - (F * y)
    BY <2>1, <2>2, <2>3 DEF Undrawn
  <2>6. F * c <= x * n
    BY <2>3, MulFloorBelow
  <2>7. PICK z \in Nat, fz \in Nat, fy \in Nat, fc \in Nat, xn \in Nat :
            /\ z = c - y /\ fz = F * z /\ fy = F * y /\ fc = F * c /\ xn = x * n
    BY <2>4, ScaleAssumption
  <2>8. fc = fz + fy
    <3>1. c = z + y
      BY <2>7
    <3>2. F * (z + y) = (F * z) + (F * y)
      BY ScaleAssumption
    <3> QED BY <2>7, <3>1, <3>2
  <2>9. xn - fy \in Nat /\ fz <= 1 * (xn - fy)
    BY <2>6, <2>7, <2>8
  <2> QED BY <2>5, <2>7, <2>9
<1>3. SumOver(t, LiveLockups) <= F * reward_balance
  BY <1>1 DEF FractionsCovered
<1> HIDE DEF v, t
<1>4. F * SumOver(v, LiveLockups) <= 1 * SumOver(t, LiveLockups)
  <2>1. F \in Nat /\ 1 \in Nat
    BY ScaleAssumption
  <2>2. \A k \in LiveLockups : t[k] \in Nat /\ v[k] \in Nat /\ F * v[k] <= 1 * t[k]
    BY <1>2
  <2> QED BY <1>1, <2>1, <2>2, SumOfParts
<1>5. PICK sv \in Nat, st \in Nat, b \in Nat, ff \in Nat \ {0} :
          /\ sv = SumOver(v, LiveLockups) /\ st = SumOver(t, LiveLockups)
          /\ b = reward_balance /\ ff = F
  <2>1. reward_balance \in Nat
    BY <1>1 DEF LockdropTypeOK
  <2> QED BY <1>1, <1>2, <2>1, SumNat, ScaleAssumption
<1>6. sv <= b
  <2>1. ff * sv <= 1 * st /\ st <= ff * b
    BY <1>3, <1>4, <1>5
  <2>2. ff * sv <= ff * b
    BY <2>1
  <2> QED BY <2>2, ProductCancel
<1> QED BY <1>1, <1>5, <1>6 DEF GeneratorRewardsCovered, FractionsCovered, v

\* The rewards already claimed from the generator pay whatever the lockups may
\* still draw, in any order, for any amounts and any scale of a Decimal.
THEOREM GeneratorRewardsCoveredAlways == LockdropSpec => []GeneratorRewardsCovered
BY CoveredWhenRounded, LockdropInvariant, BoundedIsUnbounded, PTL
-----------------------------------------------------------------------------
\* What the one time reward of a lockup depends on has not changed, except that
\* the reward may have been stored.
RewardInputsKept ==
    /\ UNCHANGED <<weighted_amount, incentives_share, total_incentives_share>>
    /\ lockdrop_config'.lockdrop_incentives = lockdrop_config.lockdrop_incentives
    /\ DOMAIN lockup' = DOMAIN lockup
    /\ \A k \in DOMAIN lockup :
           /\ lockup'[k].lp_units_locked = lockup[k].lp_units_locked
           /\ \/ lockup'[k].ntrn_rewards = lockup[k].ntrn_rewards
              \/ lockup'[k].ntrn_rewards = LockupReward(k)

\* Then the reward has not changed: a stored reward is the computed one.
LEMMA RewardKept ==
    ASSUME RewardInputsKept, NEW k \in DOMAIN lockup
    PROVE  LockupReward(k)' = LockupReward(k)
<1> DEFINE computed == calculate_astro_incentives_for_lockup(
                           calculate_weight(lockup[k].lp_units_locked, k[3]), k[1])
<1>1. PICK w : w = calculate_weight(lockup[k].lp_units_locked, k[3])
  OBVIOUS
<1>2. calculate_weight(lockup'[k].lp_units_locked, k[3]) = w
  BY <1>1 DEF RewardInputsKept
<1>3. calculate_astro_incentives_for_lockup(w, k[1])'
          = calculate_astro_incentives_for_lockup(w, k[1])
  BY DEF RewardInputsKept, calculate_astro_incentives_for_lockup
<1>4. LockupReward(k)' = IF lockup'[k].ntrn_rewards # 0 THEN lockup'[k].ntrn_rewards
                         ELSE calculate_astro_incentives_for_lockup(w, k[1])
  BY <1>2, <1>3 DEF LockupReward
<1>5. LockupReward(k) = IF lockup[k].ntrn_rewards # 0 THEN lockup[k].ntrn_rewards
                        ELSE calculate_astro_incentives_for_lockup(w, k[1])
  BY <1>1 DEF LockupReward
<1> QED BY <1>4, <1>5 DEF RewardInputsKept

\* A claim stores rewards and changes nothing else that they depend on.
LEMMA ClaimKeepsInputs ==
    ASSUME LockdropInv, NEW u \in Users, NEW p \in LockPools, NEW d \in LockDurations,
           NEW w \in BOOLEAN, handle_claim_rewards_and_unlock_for_lockup(u, p, d, w)
    PROVE  RewardInputsKept
<1>1. PICK r \in Nat, rewards \in Nat, pending \in Nat :
          ClaimsRewards(u, p, d, w, r, rewards, pending)
  BY ClaimIs
<1>2. PICK x : AfterClaim(u, <<p, u, d>>, pending, x)
  BY <1>1, ClaimRecords
<1>3. /\ UNCHANGED <<weighted_amount, incentives_share, total_incentives_share>>
      /\ UNCHANGED lockdrop_config
  BY DEF handle_claim_rewards_and_unlock_for_lockup
<1>4. /\ DOMAIN lockup' = DOMAIN lockup
      /\ \A k \in DOMAIN lockup :
             /\ lockup'[k].lp_units_locked = lockup[k].lp_units_locked
             /\ \/ lockup'[k].ntrn_rewards = lockup[k].ntrn_rewards
                \/ lockup'[k].ntrn_rewards = LockupReward(k)
  BY <1>2 DEF AfterClaim
<1> QED BY <1>3, <1>4 DEF RewardInputsKept

\* Once a pool is staked and the windows have ended no step changes them.
LEMMA InputsKept ==
    ASSUME LockdropInv, [UnboundedNext]_lockdropVars, now >= WindowsEnd, PoolsInitialised
    PROVE  RewardInputsKept
<1> USE DEF lockdropVars, poolVars, lockerVars, lockdropEnv
<1>0. /\ participants # {} /\ WindowsEnd \in Nat /\ now \in Nat
      /\ lockdrop_config \in [auction : AuctionAddrs, generator : Generators \cup {NONE},
                              lockdrop_incentives : Nat]
  BY LockdropWindowAssumption
     DEF LockdropInv, LockdropTypeOK, StakedOK, PoolsInitialised, WindowsEnd, LockCutoff
<1>1. CASE UNCHANGED lockdropVars
  BY <1>1 DEF RewardInputsKept
<1>2. CASE LockdropTick
  BY <1>2 DEF LockdropTick, RewardInputsKept
<1>3. CASE LockdropSetup
  <2>1. ASSUME NEW g \in Generators, NEW p \in PoolType, NEW amount \in Accruals,
               GeneratorAccrues(g, p, amount)
        PROVE  RewardInputsKept
    BY <2>1 DEF GeneratorAccrues, RewardInputsKept
  <2>2. ASSUME NEW s \in Senders, NEW m \in LockdropUpdateMsgs, handle_update_config(s, m)
        PROVE  RewardInputsKept
    BY <1>0, <2>2 DEF handle_update_config, RewardInputsKept
  <2>3. ~ (participants = {})
    BY <1>0
  <2>4. ~ (\E amount \in Incentives : handle_increasing_ntrn_incentives(amount))
    BY <1>0 DEF handle_increasing_ntrn_incentives
  <2> QED BY <1>3, <2>1, <2>2, <2>3, <2>4 DEF LockdropSetup
<1>4. ASSUME NEW u \in Users, NEW p \in LockPools, NEW d \in LockDurations, NEW w \in BOOLEAN,
             handle_claim_rewards_and_unlock_for_lockup(u, p, d, w)
      PROVE  RewardInputsKept
  BY <1>4, ClaimKeepsInputs
<1>5. ~AnyAuctionCalls
  BY DEF AnyAuctionCalls, PoolsInitialised
<1> QED BY <1>1, <1>2, <1>3, <1>4, <1>5 DEF UnboundedNext, LockdropStep

\* The one time reward of a lockup is the same for whoever claims first, leaves
\* or waits, whatever the lockups and weights are.
THEOREM RewardStableAlways == LockdropSpec => RewardStable
<1> DEFINE Same == (now >= WindowsEnd /\ PoolsInitialised) =>
                       \A k \in DOMAIN lockup :
                           k \in DOMAIN lockup' /\ LockupReward(k)' = LockupReward(k)
<1>1. LockdropInv /\ [UnboundedNext]_lockdropVars => [Same]_lockdropVars
  <2> SUFFICES ASSUME LockdropInv, [UnboundedNext]_lockdropVars PROVE Same
    OBVIOUS
  <2> SUFFICES ASSUME now >= WindowsEnd, PoolsInitialised, NEW k \in DOMAIN lockup
               PROVE  k \in DOMAIN lockup' /\ LockupReward(k)' = LockupReward(k)
    OBVIOUS
  <2>1. RewardInputsKept
    BY InputsKept
  <2> QED BY <2>1, RewardKept DEF RewardInputsKept
<1>2. RewardStable <=> [][Same]_lockdropVars
  BY DEF RewardStable
<1> HIDE DEF Same
<1> QED BY <1>1, <1>2, LockdropInvariant, BoundedIsUnbounded, PTL DEF UnboundedSpec
-----------------------------------------------------------------------------
(***************************************************************************)
(* The one time rewards are covered as long as the lockups of a pool weigh  *)
(* no more than the pool's total says. They may: the weight of a lockup     *)
(* that grew in two steps is rounded once, the two weights that the total   *)
(* received were rounded one by one.                                        *)
(***************************************************************************)
\* The weight of a lockup.
WeightOf(k) == calculate_weight(lockup[k].lp_units_locked, k[3])

\* The reward that follows from it.
Computed(k) == calculate_astro_incentives_for_lockup(WeightOf(k), k[1])

\* The keys of a pool.
PoolKeys(p) == {k \in DOMAIN lockup : k[1] = p}

\* The lockups of a pool, the ones returned included, weigh at most what its
\* total says.
WeightsWithin ==
    \A p \in PoolType :
        SumOver([k \in DOMAIN lockup |-> WeightOf(k)], PoolKeys(p)) <= weighted_amount[p]

\* The pools' shares make up the total.
SharesAdd ==
    total_incentives_share = incentives_share["ATOM"] + incentives_share["USDC"]

\* What the lockups of a user are worth.
ComputedFor(u) == SumOver([k \in DOMAIN lockup |-> Computed(k)], UserKeys(u))

\* A reward that was stored is the one that follows from the weights.
StoredOK ==
    /\ \A k \in DOMAIN lockup : lockup[k].ntrn_rewards \in {0, Computed(k)}
    /\ \A u \in Users : total_ntrn_rewards[u] \in {0, ComputedFor(u)}

\* No reward has been stored.
NothingStored ==
    /\ \A k \in DOMAIN lockup : lockup[k].ntrn_rewards = 0
    /\ \A u \in Users : total_ntrn_rewards[u] = 0

\* The contract has all the incentives it was sent.
FullyFunded == lockdrop_config.lockdrop_incentives <= incentives_balance

\* The incentives or the shares may still change.
RewardsOpen == now < WindowsEnd \/ ~PoolsInitialised

\* As long as they may, no reward was stored or paid.
NothingPaid ==
    RewardsOpen => NothingStored /\ FullyFunded

\* The inductive invariant of the rewards, with LockdropInv.
RewardInv ==
    SharesAdd /\ StoredOK /\ NothingPaid /\ (WeightsWithin => RewardsCovered)

\* Rounded down twice, a lockup's reward is at most its part of the incentives.
LEMMA ComputedBelow ==
    ASSUME NEW i \in Nat, NEW s \in Nat, NEW w \in Nat, NEW t \in Nat \ {0}, NEW v \in Nat \ {0}
    PROVE  (t * v) * MulFloor(i, FromRatio(s * w, t * v)) <= (i * s) * w
<1>1. PICK D \in Nat \ {0}, m \in Nat \ {0}, n \in Nat :
          D = DECIMAL_FRACTIONAL /\ m = t * v /\ n = s * w
  BY ScaleAssumption
<1>2. PICK nd \in Nat : nd = n * D
  OBVIOUS
<1>3. PICK q \in Nat : q = FromRatio(s * w, t * v) /\ m * q <= nd
  BY <1>1, <1>2, QuotientBelow DEF FromRatio
<1>4. PICK c \in Nat : c = MulFloor(i, q) /\ D * c <= i * q
  BY <1>1, MulFloorNat, MulFloorBelow
<1>5. m * (D * c) <= m * (i * q)
  <2>1. D * c \in Nat /\ i * q \in Nat
    OBVIOUS
  <2> QED BY <1>4, <2>1, Grows
<1>6. i * (m * q) <= i * nd
  <2>1. m * q \in Nat
    OBVIOUS
  <2> QED BY <1>3, <2>1, Grows
<1>7. D * (m * c) <= D * (i * n)
  <2>1. m * (D * c) = D * (m * c) /\ m * (i * q) = i * (m * q) /\ i * (n * D) = D * (i * n)
    OBVIOUS
  <2>2. PICK a1 \in Nat, a2 \in Nat, a3 \in Nat :
            a1 = D * (m * c) /\ a2 = i * (m * q) /\ a3 = D * (i * n)
    OBVIOUS
  <2>3. a1 <= a2 /\ a2 <= a3
    BY <1>2, <1>5, <1>6, <2>1, <2>2
  <2> QED BY <2>2, <2>3
<1>8. m * c <= i * n
  <2>1. m * c \in Int /\ i * n \in Int
    OBVIOUS
  <2> QED BY <1>7, <2>1, ProductCancel
<1>9. i * (s * w) = (i * s) * w
  OBVIOUS
<1> QED BY <1>1, <1>3, <1>4, <1>8, <1>9

\* The weights and the rewards that follow from them are naturals, and a reward
\* times the divisor is at most the product it was divided from.
LEMMA ComputedIs ==
    ASSUME LockdropTypeOK, LockupsKnown, NEW k \in DOMAIN lockup
    PROVE  /\ k[1] \in PoolType /\ WeightOf(k) \in Nat /\ Computed(k) \in Nat
           /\ (total_incentives_share * weighted_amount[k[1]]) * Computed(k)
                  <= (lockdrop_config.lockdrop_incentives * incentives_share[k[1]]) * WeightOf(k)
           /\ total_incentives_share = 0 \/ weighted_amount[k[1]] = 0 => Computed(k) = 0
<1>1. PICK p \in PoolType : p = k[1] /\ k[3] \in DOMAIN LockWeight
                            /\ lockup[k].lp_units_locked \in Nat
  BY DEF LockdropTypeOK, LockupsKnown, LockupRecords, Keys
<1>2. PICK w \in Nat : w = WeightOf(k)
  BY <1>1, WeightNat DEF WeightOf
<1>3. PICK i \in Nat, s \in Nat, t \in Nat, v \in Nat :
          /\ i = lockdrop_config.lockdrop_incentives /\ s = incentives_share[p]
          /\ t = total_incentives_share /\ v = weighted_amount[p]
  BY DEF LockdropTypeOK
<1>4. Computed(k) = IF t = 0 \/ v = 0 THEN 0 ELSE MulFloor(i, FromRatio(s * w, t * v))
  BY <1>1, <1>2, <1>3 DEF Computed, calculate_astro_incentives_for_lockup
<1>5. CASE t = 0 \/ v = 0
  <2>1. Computed(k) = 0
    BY <1>4, <1>5
  <2>2. (t * v) * 0 <= (i * s) * w
    OBVIOUS
  <2> QED BY <1>1, <1>2, <1>3, <2>1, <2>2
<1>6. CASE t # 0 /\ v # 0
  <2>1. Computed(k) = MulFloor(i, FromRatio(s * w, t * v))
    BY <1>4, <1>6
  <2>2. s * w \in Nat /\ t * v \in Nat \ {0}
    BY <1>6
  <2>3. FromRatio(s * w, t * v) \in Nat
    BY <2>2, FromRatioNat
  <2>4. MulFloor(i, FromRatio(s * w, t * v)) \in Nat
    BY <2>3, MulFloorNat
  <2>5. (t * v) * MulFloor(i, FromRatio(s * w, t * v)) <= (i * s) * w
    BY <1>6, ComputedBelow
  <2> QED BY <1>1, <1>2, <1>3, <1>6, <2>1, <2>4, <2>5
<1> QED BY <1>5, <1>6

\* A pool's lockups get at most the pool's part of the incentives.
LEMMA PoolBudget ==
    ASSUME LockdropTypeOK, LockupsKnown, WeightsWithin, NEW p \in PoolType
    PROVE  total_incentives_share * SumOver([k \in DOMAIN lockup |-> Computed(k)], PoolKeys(p))
               <= lockdrop_config.lockdrop_incentives * incentives_share[p]
<1>1. PICK K : K = PoolKeys(p) /\ IsFiniteSet(K) /\ K \subseteq DOMAIN lockup
               /\ \A k \in K : k[1] = p
  <2>1. PoolKeys(p) \subseteq DOMAIN lockup /\ \A k \in PoolKeys(p) : k[1] = p
    BY DEF PoolKeys
  <2>2. IsFiniteSet(PoolKeys(p))
    BY <2>1, FS_Subset DEF LockupsKnown
  <2> QED BY <2>1, <2>2
<1>2. PICK c, w : /\ c = [k \in DOMAIN lockup |-> Computed(k)]
                  /\ w = [k \in DOMAIN lockup |-> WeightOf(k)]
  OBVIOUS
<1>3. PICK i \in Nat, s \in Nat, t \in Nat, v \in Nat :
          /\ i = lockdrop_config.lockdrop_incentives /\ s = incentives_share[p]
          /\ t = total_incentives_share /\ v = weighted_amount[p]
  BY DEF LockdropTypeOK
<1>4. PICK m \in Nat, n \in Nat : m = t * v /\ n = i * s
  OBVIOUS
<1>5. \A k \in K : /\ w[k] \in Nat /\ c[k] \in Nat /\ m * c[k] <= n * w[k]
                   /\ t = 0 \/ v = 0 => c[k] = 0
  BY <1>1, <1>2, <1>3, <1>4, ComputedIs
<1>6. PICK C \in Nat : C = SumOver(c, K)
  BY <1>1, <1>5, SumNat
<1>7. m * C <= n * v
  <2>1. m * SumOver(c, K) <= n * SumOver(w, K)
    BY <1>1, <1>5, SumOfParts
  <2>2. PICK W \in Nat : W = SumOver(w, K)
    BY <1>1, <1>5, SumNat
  <2>3. W <= v
    BY <1>1, <1>2, <1>3, <2>2 DEF WeightsWithin
  <2>4. n * W <= n * v /\ n * W \in Nat /\ n * v \in Nat /\ m * C \in Nat
    BY <2>3, Grows
  <2>5. m * C <= n * W
    BY <1>6, <2>1, <2>2
  <2> QED BY <2>4, <2>5
<1>8. t * C <= n
  <2>1. CASE v = 0
    <3>1. C = 0
      BY <1>1, <1>5, <1>6, <2>1, SumZero
    <3>2. t * 0 <= n
      OBVIOUS
    <3> QED BY <3>1, <3>2
  <2>2. CASE v # 0
    <3>1. v * (t * C) <= v * n
      <4>1. (t * v) * C = v * (t * C) /\ n * v = v * n
        OBVIOUS
      <4> QED BY <1>4, <1>7, <4>1
    <3>2. t * C \in Int /\ n \in Int
      OBVIOUS
    <3> QED BY <2>2, <3>1, <3>2, ProductCancel
  <2> QED BY <2>1, <2>2
<1> QED BY <1>1, <1>2, <1>3, <1>4, <1>6, <1>8

\* All lockups together get at most the incentives.
LEMMA ComputedBudget ==
    ASSUME LockdropTypeOK, LockupsKnown, WeightsWithin, SharesAdd
    PROVE  SumOver([k \in DOMAIN lockup |-> Computed(k)], DOMAIN lockup)
               <= lockdrop_config.lockdrop_incentives
<1>1. PICK D, A, U : D = DOMAIN lockup /\ A = PoolKeys("ATOM") /\ U = PoolKeys("USDC")
  OBVIOUS
<1>2. IsFiniteSet(D) /\ A \in SUBSET D /\ U \in SUBSET D /\ D \ A = U
  BY <1>1 DEF LockupsKnown, PoolKeys, LockdropTypeOK, Keys, PoolType
<1>3. IsFiniteSet(A) /\ IsFiniteSet(U)
  BY <1>2, FS_Subset
<1>4. PICK c : c = [k \in DOMAIN lockup |-> Computed(k)]
  OBVIOUS
<1>5. \A k \in D : c[k] \in Nat /\ (total_incentives_share = 0 => c[k] = 0)
  BY <1>1, <1>4, ComputedIs
<1>6. PICK CA \in Nat, CU \in Nat : CA = SumOver(c, A) /\ CU = SumOver(c, U)
  BY <1>2, <1>3, <1>5, SumNat
<1>7. SumOver(c, D) = CA + CU
  BY <1>2, <1>5, <1>6, SumSplit
<1>8. PICK i \in Nat, t \in Nat, a \in Nat, u \in Nat :
          /\ i = lockdrop_config.lockdrop_incentives /\ t = total_incentives_share
          /\ a = incentives_share["ATOM"] /\ u = incentives_share["USDC"] /\ t = a + u
  BY DEF LockdropTypeOK, SharesAdd, PoolType
<1>9. t * CA <= i * a /\ t * CU <= i * u
  BY <1>1, <1>4, <1>6, <1>8, PoolBudget DEF PoolType
<1>10. CASE t = 0
  <2>1. SumOver(c, D) = 0
    BY <1>2, <1>5, <1>8, <1>10, SumZero
  <2> QED BY <1>1, <1>4, <1>8, <2>1
<1>11. CASE t # 0
  <2>1. t * (CA + CU) <= t * i
    <3>1. PICK x1 \in Nat, x2 \in Nat, y1 \in Nat, y2 \in Nat :
              /\ x1 = t * CA /\ x2 = t * CU /\ y1 = i * a /\ y2 = i * u
      OBVIOUS
    <3>2. t * (CA + CU) = x1 + x2 /\ i * (a + u) = y1 + y2
      BY <3>1, Distributive
    <3>3. t * i = y1 + y2
      <4>1. i * t = t * i
        OBVIOUS
      <4> QED BY <1>8, <3>2, <4>1
    <3> QED BY <1>9, <3>1, <3>2, <3>3
  <2>2. CA + CU \in Int /\ i \in Int
    OBVIOUS
  <2>3. CA + CU <= i
    BY <1>11, <2>1, <2>2, ProductCancel
  <2> QED BY <1>1, <1>4, <1>7, <1>8, <2>3
<1> QED BY <1>10, <1>11

\* What a user is still promised, or has been paid, is what the user's lockups
\* are worth: stored or not makes no difference.
LEMMA UserRewardIs ==
    ASSUME LockdropTypeOK, LockupsKnown, StoredOK
    PROVE  /\ \A k \in DOMAIN lockup : LockupReward(k) = Computed(k)
           /\ \A u \in Users : UserReward(u) = ComputedFor(u)
<1>1. ASSUME NEW k \in DOMAIN lockup PROVE LockupReward(k) = Computed(k)
  BY DEF StoredOK, LockupReward, Computed, WeightOf
<1>2. ASSUME NEW u \in Users PROVE UserReward(u) = ComputedFor(u)
  <2>1. PICK K : K = UserKeys(u) /\ IsFiniteSet(K) /\ K \subseteq DOMAIN lockup
    BY RewardNat DEF UserKeys
  <2>2. PICK f, c : /\ f = [k \in UserKeys(u) |-> LockupReward(k)]
                    /\ c = [k \in DOMAIN lockup |-> Computed(k)]
    OBVIOUS
  <2>3. \A k \in K : f[k] = c[k]
    BY <1>1, <2>1, <2>2
  <2>4. SumOver(f, K) = SumOver(c, K)
    BY <2>1, <2>3, SumEqual
  <2>5. ComputedFor(u) = SumOver(c, K)
    BY <2>1, <2>2 DEF ComputedFor
  <2>6. UserReward(u) = IF total_ntrn_rewards[u] # 0 THEN total_ntrn_rewards[u]
                        ELSE SumOver(f, K)
    BY <2>1, <2>2 DEF UserReward
  <2>7. total_ntrn_rewards[u] = 0 \/ total_ntrn_rewards[u] = ComputedFor(u)
    BY DEF StoredOK
  <2> QED BY <2>4, <2>5, <2>6, <2>7
<1> QED BY <1>1, <1>2

\* Any set of users is promised at most the incentives.
LEMMA UsersBudget ==
    LockdropTypeOK /\ LockupsKnown /\ WeightsWithin /\ SharesAdd /\ StoredOK
        => \A S \in SUBSET Users :
               SumOver([u \in Users |-> UserReward(u)], S) <= lockdrop_config.lockdrop_incentives
<1> SUFFICES ASSUME LockdropTypeOK, LockupsKnown, WeightsWithin, SharesAdd, StoredOK,
                    NEW S \in SUBSET Users
             PROVE  SumOver([u \in Users |-> UserReward(u)], S)
                        <= lockdrop_config.lockdrop_incentives
  OBVIOUS
<1>1. PICK D, c, owner, h : /\ D = DOMAIN lockup
                            /\ c = [k \in DOMAIN lockup |-> Computed(k)]
                            /\ owner = [k \in DOMAIN lockup |-> k[2]]
                            /\ h = [u \in Users |-> UserReward(u)]
  OBVIOUS
<1>2. IsFiniteSet(D) /\ IsFiniteSet(S)
  BY <1>1, FS_Subset, UsersAssumption DEF LockupsKnown
<1>3. \A k \in D : c[k] \in Nat /\ c[k] \in Int
  BY <1>1, ComputedIs
<1>4. ASSUME NEW u \in S PROVE h[u] = SumOver(c, Belonging(D, owner, {u}))
  <2>1. Belonging(D, owner, {u}) = UserKeys(u)
    BY <1>1 DEF Belonging, UserKeys
  <2>2. h[u] = ComputedFor(u)
    BY <1>1, UserRewardIs
  <2> QED BY <1>1, <2>1, <2>2 DEF ComputedFor
<1>5. SumOver(h, S) = SumOver(c, Belonging(D, owner, S))
  <2>1. OwnedBy(S, D, owner, c, h)
    BY <1>3, <1>4 DEF OwnedBy
  <2> QED BY <1>2, <2>1, SumByOwner
<1>6. Belonging(D, owner, S) \in SUBSET D
  BY DEF Belonging
<1>7. SumOver(c, Belonging(D, owner, S)) <= SumOver(c, D)
  BY <1>2, <1>3, <1>6, SumSubset
<1>8. SumOver(c, D) <= lockdrop_config.lockdrop_incentives
  BY <1>1, ComputedBudget
<1>9. /\ SumOver(c, D) \in Int /\ SumOver(c, Belonging(D, owner, S)) \in Int
      /\ lockdrop_config.lockdrop_incentives \in Int
  <2>1. IsFiniteSet(Belonging(D, owner, S))
    BY <1>2, <1>6, FS_Subset
  <2>2. \A k \in Belonging(D, owner, S) : c[k] \in Int
    BY <1>3, <1>6
  <2>3. SumOver(c, D) \in Int
    BY <1>2, <1>3, SumInt
  <2>4. SumOver(c, Belonging(D, owner, S)) \in Int
    BY <2>1, <2>2, SumInt
  <2>5. lockdrop_config.lockdrop_incentives \in Int
    BY DEF LockdropTypeOK
  <2> QED BY <2>3, <2>4, <2>5
<1> QED BY <1>1, <1>5, <1>7, <1>8, <1>9

\* Nothing stored: what the invariant says of the stored rewards holds, and if
\* the contract has the incentives it can pay everybody.
LEMMA OpenOK ==
    LockdropTypeOK /\ LockupsKnown /\ SharesAdd /\ NothingStored /\ FullyFunded => RewardInv
<1> SUFFICES ASSUME LockdropTypeOK, LockupsKnown, SharesAdd, NothingStored, FullyFunded
             PROVE  RewardInv
  OBVIOUS
<1>1. StoredOK
  BY DEF StoredOK, NothingStored
<1>2. NothingPaid
  BY DEF NothingPaid
<1>3. ASSUME WeightsWithin PROVE RewardsCovered
  <2>1. PICK S : S = {u \in Users : ~ntrn_transferred[u]} /\ S \in SUBSET Users
    OBVIOUS
  <2>2. PICK h : h = [u \in Users |-> UserReward(u)]
    OBVIOUS
  <2>3. SumOver(h, S) <= lockdrop_config.lockdrop_incentives
    BY <1>1, <1>3, <2>1, <2>2, UsersBudget
  <2>4. SumOver(h, S) \in Int
    <3>1. IsFiniteSet(S)
      BY <2>1, FS_Subset, UsersAssumption
    <3>2. \A u \in S : h[u] \in Int
      BY <2>1, <2>2, RewardNat
    <3> QED BY <3>1, <3>2, SumInt
  <2>5. lockdrop_config.lockdrop_incentives \in Int /\ incentives_balance \in Int
    BY DEF LockdropTypeOK
  <2>6. SumOver(h, S) <= incentives_balance
    BY <2>3, <2>4, <2>5 DEF FullyFunded
  <2> QED BY <2>1, <2>2, <2>6 DEF RewardsCovered
<1> QED BY <1>1, <1>2, <1>3 DEF RewardInv

\* The same after a step.
LEMMA OpenOKNext ==
    LockdropTypeOK' /\ LockupsKnown' /\ SharesAdd' /\ NothingStored' /\ FullyFunded'
        => RewardInv'
BY OpenOK, PTL

\* IncreaseLockupFor and WithdrawFromLockup store no reward.
LEMMA LockupStoresNothing ==
    ASSUME LockdropTypeOK, NothingStored,
           NEW s \in AuctionAddrs, NEW u \in Users, NEW p \in LockPools,
           NEW d \in LockDurations, NEW a \in Nat,
           \/ handle_increase_lockup(s, u, p, d, a)
           \/ handle_withdraw_from_lockup(s, u, p, d, a)
    PROVE  NothingStored'
<1>1. \A k \in DOMAIN lockup : lockup[k] \in LockupRecords /\ lockup[k].ntrn_rewards = 0
  BY DEF LockdropTypeOK, NothingStored
<1>2. UNCHANGED total_ntrn_rewards
  BY DEF handle_increase_lockup, handle_withdraw_from_lockup
<1>3. \E key, x, w :
         \/ lockup' = [lockup EXCEPT ![key].lp_units_locked = x]
         \/ lockup' = [k \in DOMAIN lockup \cup {key} |->
                          IF k = key THEN NewLockup(a) ELSE lockup[k]]
         \/ lockup' = [k \in DOMAIN lockup \ {key} |-> lockup[k]]
         \/ lockup' = [lockup EXCEPT ![key].lp_units_locked = x, ![key].withdrawal_flag = w]
  <2>1. CASE handle_increase_lockup(s, u, p, d, a)
    BY <2>1 DEF handle_increase_lockup
  <2>2. CASE handle_withdraw_from_lockup(s, u, p, d, a)
    BY <2>2 DEF handle_withdraw_from_lockup
  <2> QED BY <2>1, <2>2
<1>4. \A k \in DOMAIN lockup' : lockup'[k].ntrn_rewards = 0
  <2>1. PICK key, x, w :
           \/ lockup' = [lockup EXCEPT ![key].lp_units_locked = x]
           \/ lockup' = [k \in DOMAIN lockup \cup {key} |->
                            IF k = key THEN NewLockup(a) ELSE lockup[k]]
           \/ lockup' = [k \in DOMAIN lockup \ {key} |-> lockup[k]]
           \/ lockup' = [lockup EXCEPT ![key].lp_units_locked = x, ![key].withdrawal_flag = w]
    BY <1>3
  <2>2. CASE lockup' = [lockup EXCEPT ![key].lp_units_locked = x]
    BY <1>1, <2>2 DEF LockupRecords
  <2>3. CASE lockup' = [k \in DOMAIN lockup \cup {key} |->
                          IF k = key THEN NewLockup(a) ELSE lockup[k]]
    BY <1>1, <2>3 DEF NewLockup
  <2>4. CASE lockup' = [k \in DOMAIN lockup \ {key} |-> lockup[k]]
    BY <1>1, <2>4
  <2>5. CASE lockup' = [lockup EXCEPT ![key].lp_units_locked = x, ![key].withdrawal_flag = w]
    BY <1>1, <2>5 DEF LockupRecords
  <2> QED BY <2>1, <2>2, <2>3, <2>4, <2>5
<1> QED BY <1>2, <1>4 DEF NothingStored

\* The steps that change the incentives, the pools or the lockups come while the
\* rewards are open, and leave the contract with all incentives.
LEMMA OpenSteps ==
    ASSUME LockdropInv, RewardInv, LockdropInv',
           \/ \E amount \in Incentives : handle_increasing_ntrn_incentives(amount)
           \/ /\ participants = {}
              /\ \E s \in Senders, g \in Generators : handle_set_token_info(s, g)
           \/ AnyAuctionCalls
    PROVE  RewardInv'
<1> USE DEF poolVars, lockerVars, lockdropEnv
<1>0. /\ LockdropTypeOK /\ LockupsKnown /\ UnstakedOK /\ LockdropTypeOK' /\ LockupsKnown'
      /\ SharesAdd /\ NothingPaid
  BY DEF LockdropInv, RewardInv
<1>1. CASE \E amount \in Incentives : handle_increasing_ntrn_incentives(amount)
  <2>1. PICK amount \in Incentives : handle_increasing_ntrn_incentives(amount)
    BY <1>1
  <2>2. NothingStored /\ FullyFunded
    BY <1>0, <2>1 DEF handle_increasing_ntrn_incentives, NothingPaid, RewardsOpen
  <2>3. UNCHANGED <<lockup, incentives_share, total_incentives_share, total_ntrn_rewards>>
    BY <2>1 DEF handle_increasing_ntrn_incentives
  <2>4. SharesAdd' /\ NothingStored'
    BY <1>0, <2>2, <2>3 DEF SharesAdd, NothingStored
  <2>5. FullyFunded'
    <3>1. PICK i \in Nat, b \in Nat, n \in Nat :
              /\ i = lockdrop_config.lockdrop_incentives /\ b = incentives_balance
              /\ n = amount /\ i <= b
      BY <1>0, <2>2, LockdropAmountAssumption DEF LockdropTypeOK, FullyFunded
    <3>2. lockdrop_config'.lockdrop_incentives = i + n /\ incentives_balance' = b + n
      BY <1>0, <2>1, <3>1 DEF handle_increasing_ntrn_incentives, LockdropTypeOK
    <3> QED BY <3>1, <3>2 DEF FullyFunded
  <2> QED BY <1>0, <2>4, <2>5, OpenOKNext
<1>2. CASE /\ participants = {}
           /\ \E s \in Senders, g \in Generators : handle_set_token_info(s, g)
  <2>1. PICK s \in Senders, g \in Generators : handle_set_token_info(s, g)
    BY <1>2
  <2>2. DOMAIN lockup = {} /\ ~PoolsInitialised
    BY <1>2 DEF LockdropInv, LockupsKnown, StakedOK, PoolsInitialised
  <2>3. NothingStored /\ FullyFunded
    BY <1>0, <2>2 DEF NothingPaid, RewardsOpen
  <2>4. /\ UNCHANGED <<lockup, total_ntrn_rewards, incentives_balance, total_incentives_share>>
        /\ incentives_share' = ZeroPools
        /\ lockdrop_config'.lockdrop_incentives = lockdrop_config.lockdrop_incentives
    BY <1>0, <2>1 DEF handle_set_token_info, LockdropTypeOK
  <2>5. NothingStored' /\ FullyFunded'
    BY <2>3, <2>4 DEF NothingStored, FullyFunded
  <2>6. SharesAdd'
    <3>1. incentives_share["ATOM"] = 0 /\ incentives_share["USDC"] = 0
      BY <1>0, <2>2 DEF UnstakedOK, PoolsInitialised, PoolType
    <3> QED BY <1>0, <2>4, <3>1 DEF SharesAdd, ZeroPools, PoolType
  <2> QED BY <1>0, <2>5, <2>6, OpenOKNext
<1>3. CASE AnyAuctionCalls
  <2>0. ~PoolsInitialised
    BY <1>3 DEF AnyAuctionCalls, PoolsInitialised
  <2>1. NothingStored /\ FullyFunded
    BY <1>0, <2>0 DEF NothingPaid, RewardsOpen
  <2>2. ASSUME NEW s \in AuctionAddrs, NEW u \in Users, NEW p \in LockPools,
               NEW d \in LockDurations, NEW a \in Nat,
               \/ handle_increase_lockup(s, u, p, d, a)
               \/ handle_withdraw_from_lockup(s, u, p, d, a)
        PROVE  RewardInv'
    <3>1. NothingStored'
      BY <1>0, <2>1, <2>2, LockupStoresNothing
    <3>2. UNCHANGED <<lockdrop_config, incentives_share, total_incentives_share,
                      incentives_balance>>
      BY <2>2 DEF handle_increase_lockup, handle_withdraw_from_lockup
    <3>3. SharesAdd' /\ FullyFunded'
      BY <1>0, <2>1, <3>2 DEF SharesAdd, FullyFunded
    <3> QED BY <1>0, <3>1, <3>3, OpenOKNext
  <2>3. ASSUME NEW s \in AuctionAddrs, NEW share \in [PoolType -> Nat],
               handle_initialize_pool(s, share, amount_in_lockups)
        PROVE  RewardInv'
    <3>1. UNCHANGED <<lockup, total_ntrn_rewards, incentives_balance, lockdrop_config>>
      BY <2>3 DEF handle_initialize_pool
    <3>2. NothingStored' /\ FullyFunded'
      BY <1>0, <2>1, <3>1 DEF NothingStored, FullyFunded
    <3>3. PICK sa \in Nat, su \in Nat : sa = share["ATOM"] /\ su = share["USDC"]
      BY LockdropAmountAssumption DEF PoolType
    <3>4. incentives_share["ATOM"] = 0 /\ incentives_share["USDC"] = 0
      BY <1>0, <2>0 DEF UnstakedOK, PoolsInitialised, PoolType
    <3>5. total_incentives_share = 0
      BY <1>0, <3>4 DEF SharesAdd
    <3>6. PICK fa \in BOOLEAN, fu \in BOOLEAN :
              /\ fa = (amount_in_lockups["ATOM"] # 0) /\ fu = (amount_in_lockups["USDC"] # 0)
      OBVIOUS
    <3>7. /\ incentives_share'["ATOM"] = IF fa THEN sa ELSE 0
          /\ incentives_share'["USDC"] = IF fu THEN su ELSE 0
          /\ total_incentives_share' = 0 + (IF fa THEN sa ELSE 0) + (IF fu THEN su ELSE 0)
      BY <2>3, <3>3, <3>4, <3>5, <3>6 DEF handle_initialize_pool, PoolType
    <3>8. SharesAdd'
      BY <3>3, <3>6, <3>7 DEF SharesAdd
    <3> QED BY <1>0, <3>2, <3>8, OpenOKNext
  <2> QED BY <1>3, <2>2, <2>3 DEF AnyAuctionCalls
<1> QED BY <1>1, <1>2, <1>3

\* What RewardInv says of stored rewards, as one predicate.
RewardsAreComputed ==
    /\ \A k \in DOMAIN lockup : LockupReward(k) = Computed(k)
    /\ \A u \in Users : UserReward(u) = ComputedFor(u)

\* UserRewardIs, in a state and in the next.
LEMMA RewardsComputed ==
    /\ LockdropTypeOK /\ LockupsKnown /\ StoredOK => RewardsAreComputed
    /\ LockdropTypeOK' /\ LockupsKnown' /\ StoredOK' => RewardsAreComputed'
<1>1. LockdropTypeOK /\ LockupsKnown /\ StoredOK => RewardsAreComputed
  BY UserRewardIs DEF RewardsAreComputed
<1> QED BY <1>1, PTL

\* Without a staked pool there are no shares and the rewards are zero.
LEMMA NoShares ==
    LockdropTypeOK /\ LockupsKnown /\ UnstakedOK /\ SharesAdd /\ StoredOK /\ ~PoolsInitialised
        => NothingStored /\ \A u \in Users : UserReward(u) = 0
<1> SUFFICES ASSUME LockdropTypeOK, LockupsKnown, UnstakedOK, SharesAdd, StoredOK,
                    ~PoolsInitialised
             PROVE  NothingStored /\ \A u \in Users : UserReward(u) = 0
  OBVIOUS
<1>1. total_incentives_share = 0
  BY DEF UnstakedOK, PoolsInitialised, PoolType, SharesAdd
<1>2. \A k \in DOMAIN lockup : Computed(k) = 0
  BY <1>1, ComputedIs
<1>3. ASSUME NEW u \in Users PROVE ComputedFor(u) = 0
  <2>1. PICK K, c : /\ K = UserKeys(u) /\ IsFiniteSet(K) /\ K \subseteq DOMAIN lockup
                    /\ c = [k \in DOMAIN lockup |-> Computed(k)]
    BY RewardNat DEF UserKeys
  <2>2. \A k \in K : c[k] = 0
    BY <1>2, <2>1
  <2>3. SumOver(c, K) = 0
    BY <2>1, <2>2, SumZero
  <2> QED BY <2>1, <2>3 DEF ComputedFor
<1>4. NothingStored
  BY <1>2, <1>3 DEF StoredOK, NothingStored
<1> QED BY <1>3, <1>4, RewardsComputed DEF RewardsAreComputed

\* The same after a step.
LEMMA NoSharesNext ==
    LockdropTypeOK' /\ LockupsKnown' /\ UnstakedOK' /\ SharesAdd' /\ StoredOK'
        /\ ~PoolsInitialised' => NothingStored'
<1>1. LockdropTypeOK /\ LockupsKnown /\ UnstakedOK /\ SharesAdd /\ StoredOK
          /\ ~PoolsInitialised => NothingStored
  BY NoShares
<1> QED BY <1>1, PTL

\* A step that changes nothing the rewards depend on, and no total except that
\* a user's reward may have been stored.
LEMMA RewardsSame ==
    ASSUME LockdropInv, RewardInv, LockdropInv', RewardInputsKept,
           \A u \in Users : \/ total_ntrn_rewards'[u] = total_ntrn_rewards[u]
                            \/ total_ntrn_rewards'[u] = UserReward(u)
    PROVE  /\ WeightsWithin' <=> WeightsWithin
           /\ SharesAdd' /\ StoredOK'
           /\ \A u \in Users : UserReward(u)' = UserReward(u)
<1>0. /\ LockdropTypeOK /\ LockupsKnown /\ LockdropTypeOK' /\ LockupsKnown'
      /\ SharesAdd /\ StoredOK
  BY DEF LockdropInv, RewardInv
<1>1. DOMAIN lockup' = DOMAIN lockup
  BY DEF RewardInputsKept
<1>2. ASSUME NEW k \in DOMAIN lockup
      PROVE  WeightOf(k)' = WeightOf(k) /\ Computed(k)' = Computed(k)
  <2>1. WeightOf(k)' = WeightOf(k)
    BY DEF WeightOf, RewardInputsKept
  <2>2. PICK w : w = WeightOf(k)
    OBVIOUS
  <2>3. calculate_astro_incentives_for_lockup(w, k[1])'
            = calculate_astro_incentives_for_lockup(w, k[1])
    BY DEF RewardInputsKept, calculate_astro_incentives_for_lockup
  <2>4. Computed(k)' = calculate_astro_incentives_for_lockup(w, k[1])'
    BY <2>1, <2>2 DEF Computed, calculate_astro_incentives_for_lockup
  <2> QED BY <2>1, <2>2, <2>3, <2>4 DEF Computed
<1>3. /\ [k \in DOMAIN lockup |-> WeightOf(k)]' = [k \in DOMAIN lockup |-> WeightOf(k)]
      /\ [k \in DOMAIN lockup |-> Computed(k)]' = [k \in DOMAIN lockup |-> Computed(k)]
  BY <1>1, <1>2
<1>4. /\ \A p \in PoolType : PoolKeys(p)' = PoolKeys(p)
      /\ \A u \in Users : UserKeys(u)' = UserKeys(u)
  BY <1>1 DEF PoolKeys, UserKeys
<1>5. WeightsWithin' <=> WeightsWithin
  <2>1. ASSUME NEW p \in PoolType
        PROVE  /\ SumOver([k \in DOMAIN lockup |-> WeightOf(k)], PoolKeys(p))'
                      = SumOver([k \in DOMAIN lockup |-> WeightOf(k)], PoolKeys(p))
               /\ weighted_amount'[p] = weighted_amount[p]
    BY <1>3, <1>4 DEF RewardInputsKept
  <2> QED BY <2>1 DEF WeightsWithin
<1>6. SharesAdd'
  BY <1>0 DEF SharesAdd, RewardInputsKept
<1>7. ASSUME NEW u \in Users PROVE ComputedFor(u)' = ComputedFor(u)
  BY <1>3, <1>4 DEF ComputedFor
<1>8. RewardsAreComputed
  BY <1>0, RewardsComputed
<1>9. StoredOK'
  <2>1. ASSUME NEW k \in DOMAIN lockup' PROVE lockup'[k].ntrn_rewards \in {0, Computed(k)'}
    <3>1. k \in DOMAIN lockup /\ LockupReward(k) = Computed(k)
      BY <1>1, <1>8 DEF RewardsAreComputed
    <3>2. lockup[k].ntrn_rewards \in {0, Computed(k)}
      BY <1>0, <3>1 DEF StoredOK
    <3>3. lockup'[k].ntrn_rewards \in {0, Computed(k)}
      BY <3>1, <3>2 DEF RewardInputsKept
    <3> QED BY <1>2, <3>1, <3>3
  <2>2. ASSUME NEW u \in Users PROVE total_ntrn_rewards'[u] \in {0, ComputedFor(u)'}
    <3>1. UserReward(u) = ComputedFor(u) /\ total_ntrn_rewards[u] \in {0, ComputedFor(u)}
      BY <1>0, <1>8 DEF RewardsAreComputed, StoredOK
    <3> QED BY <1>7, <3>1
  <2> QED BY <2>1, <2>2 DEF StoredOK
<1>10. RewardsAreComputed'
  BY <1>0, <1>9, RewardsComputed
<1>11. \A u \in Users : UserReward(u)' = UserReward(u)
  BY <1>7, <1>8, <1>10 DEF RewardsAreComputed
<1> QED BY <1>5, <1>6, <1>9, <1>11

\* The clock, the generator's rewards and the configuration.
LEMMA QuietSteps ==
    ASSUME LockdropInv, RewardInv, LockdropInv', RewardInputsKept, now' >= now,
           UNCHANGED <<lockup, total_ntrn_rewards, ntrn_transferred, incentives_balance,
                       is_staked>>
    PROVE  RewardInv'
<1>1. /\ WeightsWithin' => WeightsWithin
      /\ SharesAdd' /\ StoredOK'
      /\ \A u \in Users : UserReward(u)' = UserReward(u)
  BY RewardsSame
<1>2. NothingPaid'
  <2>1. RewardsOpen' => RewardsOpen
    <3>1. now \in Nat /\ now' \in Nat /\ WindowsEnd \in Nat
      BY LockdropWindowAssumption DEF LockdropInv, WindowsEnd, LockCutoff
    <3>2. PoolsInitialised' <=> PoolsInitialised
      BY DEF PoolsInitialised
    <3>3. now' < WindowsEnd => now < WindowsEnd
      BY <3>1
    <3> QED BY <3>2, <3>3 DEF RewardsOpen, WindowsEnd, LockCutoff
  <2>2. NothingStored => NothingStored'
    BY DEF NothingStored
  <2>3. FullyFunded => FullyFunded'
    BY DEF FullyFunded, RewardInputsKept
  <2> QED BY <2>1, <2>2, <2>3 DEF NothingPaid, RewardInv
<1>3. ASSUME WeightsWithin' PROVE RewardsCovered'
  <2>0. RewardsCovered
    BY <1>1, <1>3 DEF RewardInv
  <2>1. [u \in Users |-> UserReward(u)]' = [u \in Users |-> UserReward(u)]
    BY <1>1
  <2>2. PoolsInitialised' <=> PoolsInitialised
    BY DEF PoolsInitialised
  <2> QED BY <2>0, <2>1, <2>2 DEF RewardsCovered
<1> QED BY <1>1, <1>2, <1>3 DEF RewardInv

\* A claim pays the user's reward once, and stores it.
LEMMA ClaimPays ==
    ASSUME LockdropInv, RewardInv, LockdropInv',
           NEW u \in Users, NEW p \in LockPools, NEW d \in LockDurations,
           NEW w \in BOOLEAN, handle_claim_rewards_and_unlock_for_lockup(u, p, d, w)
    PROVE  RewardInv'
<1>0. /\ LockdropTypeOK /\ LockupsKnown /\ UnstakedOK /\ StoredOK /\ SharesAdd
      /\ LockdropTypeOK' /\ LockupsKnown' /\ UnstakedOK' /\ now \in Nat
  BY DEF LockdropInv, RewardInv
<1>1. /\ UNCHANGED <<now, is_staked, lockdrop_config>> /\ now >= WindowsEnd
      /\ total_ntrn_rewards' = [total_ntrn_rewards EXCEPT ![u] = UserReward(u)]
      /\ IF ntrn_transferred[u] THEN UNCHANGED <<incentives_balance, ntrn_transferred>>
         ELSE PayOneTimeReward(u, UserReward(u))
  BY DEF handle_claim_rewards_and_unlock_for_lockup
<1>2. RewardInputsKept
  BY ClaimKeepsInputs
<1>3. \A v \in Users : \/ total_ntrn_rewards'[v] = total_ntrn_rewards[v]
                       \/ total_ntrn_rewards'[v] = UserReward(v)
  BY <1>0, <1>1 DEF LockdropTypeOK
<1>4. /\ WeightsWithin' => WeightsWithin
      /\ SharesAdd' /\ StoredOK'
      /\ \A v \in Users : UserReward(v)' = UserReward(v)
  BY <1>2, <1>3, RewardsSame
<1>5. PICK reward \in Nat, b \in Nat : reward = UserReward(u) /\ b = incentives_balance
  BY <1>0, RewardNat DEF LockdropTypeOK
<1>6. PoolsInitialised' <=> PoolsInitialised
  BY <1>1 DEF PoolsInitialised
<1>7. NothingPaid'
  <2> SUFFICES ASSUME RewardsOpen' PROVE NothingStored' /\ FullyFunded'
    BY DEF NothingPaid
  <2>1. ~PoolsInitialised /\ ~PoolsInitialised'
    <3>1. WindowsEnd \in Nat
      BY LockdropWindowAssumption DEF WindowsEnd, LockCutoff
    <3>2. ~(now' < WindowsEnd)
      BY <1>0, <1>1, <3>1
    <3> QED BY <1>6, <3>2 DEF RewardsOpen, WindowsEnd, LockCutoff
  <2>2. NothingStored'
    BY <1>0, <1>4, <2>1, NoSharesNext
  <2>3. reward = 0
    BY <1>0, <1>5, <2>1, NoShares
  <2>4. incentives_balance' = b
    BY <1>1, <1>5, <2>3 DEF PayOneTimeReward
  <2>5. FullyFunded
    BY <2>1 DEF RewardInv, NothingPaid, RewardsOpen
  <2> QED BY <1>1, <1>5, <2>2, <2>4, <2>5 DEF FullyFunded
<1>8. ASSUME WeightsWithin' PROVE RewardsCovered'
  <2>0. RewardsCovered
    BY <1>4, <1>8 DEF RewardInv
  <2> SUFFICES ASSUME PoolsInitialised'
               PROVE  SumOver([v \in Users |-> UserReward(v)]',
                              {v \in Users : ~ntrn_transferred'[v]}) <= incentives_balance'
    BY DEF RewardsCovered
  <2>1. PICK h, S, S2 : /\ h = [v \in Users |-> UserReward(v)]
                        /\ S = {v \in Users : ~ntrn_transferred[v]}
                        /\ S2 = {v \in Users : ~ntrn_transferred'[v]}
    OBVIOUS
  <2>2. [v \in Users |-> UserReward(v)]' = h
    BY <1>4, <2>1
  <2>3. SumOver(h, S) <= b
    BY <1>5, <1>6, <2>0, <2>1 DEF RewardsCovered
  <2>4. CASE ntrn_transferred[u]
    BY <1>1, <1>5, <2>1, <2>2, <2>3, <2>4
  <2>5. CASE ~ntrn_transferred[u]
    <3>1. /\ incentives_balance' = b - reward
          /\ ntrn_transferred' = [ntrn_transferred EXCEPT ![u] = TRUE]
      BY <1>1, <1>5, <2>5 DEF PayOneTimeReward
    <3>2. S2 = S \ {u} /\ u \in S /\ S \subseteq Users
      BY <1>0, <2>1, <2>5, <3>1 DEF LockdropTypeOK
    <3>3. IsFiniteSet(S)
      BY <3>2, FS_Subset, UsersAssumption
    <3>4. \A v \in S : h[v] \in Int
      BY <1>0, <2>1, <3>2, RewardNat
    <3>5. SumOver(h, S) = h[u] + SumOver(h, S \ {u}) /\ SumOver(h, S \ {u}) \in Int
      BY <3>2, <3>3, <3>4, SumRemove
    <3>6. h[u] = reward
      BY <1>5, <2>1
    <3>7. SumOver(h, S2) <= b - reward
      BY <2>3, <3>2, <3>5, <3>6
    <3> QED BY <2>1, <2>2, <3>1, <3>7
  <2> QED BY <2>4, <2>5
<1> QED BY <1>4, <1>7, <1>8 DEF RewardInv

\* Nothing was sent and nothing locked.
LEMMA RewardInvInit == LockdropInit => RewardInv
<1> SUFFICES ASSUME LockdropInit PROVE RewardInv
  OBVIOUS
<1>1. LockdropTypeOK /\ LockupsKnown
  BY LockdropInvInit DEF LockdropInv
<1>2. DOMAIN lockup = {}
  BY DEF LockdropInit
<1>3. SharesAdd /\ NothingStored /\ FullyFunded
  BY <1>2 DEF SharesAdd, NothingStored, FullyFunded, LockdropInit, ZeroPools, PoolType
<1> QED BY <1>1, <1>3, OpenOK

\* Every step keeps the invariant of the rewards.
LEMMA RewardInvStep ==
    LockdropInv /\ LockdropInv' /\ RewardInv /\ [UnboundedNext]_lockdropVars => RewardInv'
<1> SUFFICES ASSUME LockdropInv, LockdropInv', RewardInv, [UnboundedNext]_lockdropVars
             PROVE  RewardInv'
  OBVIOUS
<1> USE DEF poolVars, lockerVars, lockdropEnv
<1>0. /\ now \in Nat
      /\ lockdrop_config \in [auction : AuctionAddrs, generator : Generators \cup {NONE},
                              lockdrop_incentives : Nat]
  BY DEF LockdropInv, LockdropTypeOK
<1>1. CASE UNCHANGED lockdropVars
  <2>1. /\ UNCHANGED <<lockup, total_ntrn_rewards, ntrn_transferred, incentives_balance,
                       is_staked>>
        /\ UNCHANGED <<now, lockdrop_config, weighted_amount, incentives_share,
                       total_incentives_share>>
    BY <1>1 DEF lockdropVars
  <2>2. RewardInputsKept /\ now' >= now
    BY <1>0, <2>1 DEF RewardInputsKept
  <2> QED BY <2>1, <2>2, QuietSteps
<1>2. CASE LockdropTick
  <2>1. /\ UNCHANGED <<lockup, total_ntrn_rewards, ntrn_transferred, incentives_balance,
                       is_staked>>
        /\ UNCHANGED <<lockdrop_config, weighted_amount, incentives_share,
                       total_incentives_share>>
        /\ now' = now + 1
    BY <1>2 DEF LockdropTick, NextBlock
  <2>2. RewardInputsKept /\ now' >= now
    BY <1>0, <2>1 DEF RewardInputsKept
  <2> QED BY <2>1, <2>2, QuietSteps
<1>3. CASE LockdropSetup
  <2>1. ASSUME NEW g \in Generators, NEW p \in PoolType, NEW amount \in Accruals,
               GeneratorAccrues(g, p, amount)
        PROVE  RewardInv'
    <3>1. /\ UNCHANGED <<lockup, total_ntrn_rewards, ntrn_transferred, incentives_balance,
                         is_staked>>
          /\ UNCHANGED <<now, lockdrop_config, weighted_amount, incentives_share,
                         total_incentives_share>>
      BY <2>1 DEF GeneratorAccrues
    <3>2. RewardInputsKept /\ now' >= now
      BY <1>0, <3>1 DEF RewardInputsKept
    <3> QED BY <3>1, <3>2, QuietSteps
  <2>2. ASSUME NEW s \in Senders, NEW m \in LockdropUpdateMsgs, handle_update_config(s, m)
        PROVE  RewardInv'
    <3>1. /\ UNCHANGED <<lockup, total_ntrn_rewards, ntrn_transferred, incentives_balance,
                         is_staked>>
          /\ UNCHANGED <<now, weighted_amount, incentives_share, total_incentives_share>>
          /\ lockdrop_config'.lockdrop_incentives = lockdrop_config.lockdrop_incentives
      BY <1>0, <2>2 DEF handle_update_config
    <3>2. RewardInputsKept /\ now' >= now
      BY <1>0, <3>1 DEF RewardInputsKept
    <3> QED BY <3>1, <3>2, QuietSteps
  <2>3. ASSUME \/ \E amount \in Incentives : handle_increasing_ntrn_incentives(amount)
               \/ /\ participants = {}
                  /\ \E s \in Senders, g \in Generators : handle_set_token_info(s, g)
        PROVE  RewardInv'
    BY <2>3, OpenSteps
  <2> QED BY <1>3, <2>1, <2>2, <2>3 DEF LockdropSetup
<1>4. ASSUME NEW u \in Users, NEW p \in LockPools, NEW d \in LockDurations, NEW w \in BOOLEAN,
             handle_claim_rewards_and_unlock_for_lockup(u, p, d, w)
      PROVE  RewardInv'
  BY <1>4, ClaimPays
<1>5. CASE AnyAuctionCalls
  BY <1>5, OpenSteps
<1> QED BY <1>1, <1>2, <1>3, <1>4, <1>5 DEF UnboundedNext, LockdropStep

\* The invariant of the rewards holds of the lockdrop.
LEMMA RewardInvariant == UnboundedSpec => []RewardInv
<1>1. LockdropInit => RewardInv
  BY RewardInvInit
<1>2. LockdropInv /\ LockdropInv' /\ RewardInv /\ [UnboundedNext]_lockdropVars => RewardInv'
  BY RewardInvStep
<1> QED BY <1>1, <1>2, LockdropInvariant, PTL DEF UnboundedSpec

\* For any lock weights: unless the lockups of a pool weigh more than its total
\* says, the contract's NTRN pays the one time reward of everybody who has not
\* been paid, in whatever order users claim and leave.
THEOREM RewardsCoveredAlways == LockdropSpec => [](WeightsWithin => RewardsCovered)
<1>1. RewardInv => (WeightsWithin => RewardsCovered)
  BY DEF RewardInv
<1> QED BY <1>1, RewardInvariant, BoundedIsUnbounded, PTL
-----------------------------------------------------------------------------
(***************************************************************************)
(* When the lockups weigh no more than the totals: as long as no top-up of  *)
(* a lockup completes a unit of weight that neither the top-up nor what was *)
(* locked before has by itself. A withdrawal never harms, and neither does  *)
(* a lockup that is new.                                                    *)
(***************************************************************************)
TopUpExact ==
    \A k \in DOMAIN lockup \cap DOMAIN lockup' :
        LET before == lockup[k].lp_units_locked
            after  == lockup'[k].lp_units_locked
        IN  before <= after =>
                calculate_weight(after, k[3])
                    <= calculate_weight(before, k[3]) + calculate_weight(after - before, k[3])

\* What is taken out of a lockup weighs, by itself, at most what the lockup
\* weighs less.
LEMMA WeightsOfParts ==
    ASSUME NEW d \in DOMAIN LockWeight, NEW a \in Nat, NEW b \in Nat
    PROVE  calculate_weight(a, d) + calculate_weight(b, d) <= calculate_weight(a + b, d)
<1>1. PICK D \in Nat \ {0}, q \in Nat : D = DECIMAL_FRACTIONAL /\ q = LockWeight[d]
  BY ScaleAssumption, LockdropAmountAssumption
<1>2. PICK m \in Nat, n \in Nat : m = a * q /\ n = b * q
  OBVIOUS
<1>3. (a + b) * q = m + n
  BY <1>2
<1>4. m \div D + n \div D <= (m + n) \div D
  <2>1. PICK x \in Nat, y \in Nat, z \in Nat :
            x = m \div D /\ y = n \div D /\ z = (m + n) \div D
    OBVIOUS
  <2>2. D * x <= m /\ D * y <= n /\ m + n < D * (z + 1)
    BY <2>1
  <2>3. D * (x + y) = D * x + D * y
    OBVIOUS
  <2>4. PICK p1 \in Nat, p2 \in Nat, p3 \in Nat, p4 \in Nat :
            p1 = D * x /\ p2 = D * y /\ p3 = D * (x + y) /\ p4 = D * (z + 1)
    OBVIOUS
  <2>5. p3 < p4
    BY <2>2, <2>3, <2>4
  <2>6. ~(z + 1 <= x + y)
    <3>1. z + 1 <= x + y => D * (z + 1) <= D * (x + y)
      BY Grows
    <3> QED BY <2>4, <2>5, <3>1
  <2> QED BY <2>1, <2>6
<1> QED BY <1>1, <1>2, <1>3, <1>4 DEF calculate_weight, MulFloor

\* The lockup key changes, comes or goes, and its weight moves by x or less;
\* that of its pool moves by x.
WeightMovesAt(key, x) ==
    /\ x \in Int /\ DOMAIN lockup' \ {key} = DOMAIN lockup \ {key}
    /\ \A k \in DOMAIN lockup \ {key} :
           lockup'[k].lp_units_locked = lockup[k].lp_units_locked
    /\ (IF key \in DOMAIN lockup' THEN calculate_weight(lockup'[key].lp_units_locked, key[3])
        ELSE 0)
           <= (IF key \in DOMAIN lockup
               THEN calculate_weight(lockup[key].lp_units_locked, key[3]) ELSE 0) + x
    /\ \A p \in PoolType : weighted_amount'[p] =
           IF p = key[1] THEN weighted_amount[p] + x ELSE weighted_amount[p]

\* Then the lockups still weigh no more than the totals say.
LEMMA WeightsMove ==
    ASSUME LockdropTypeOK, LockupsKnown, WeightsWithin, LockdropTypeOK', LockupsKnown',
           NEW key, NEW x, WeightMovesAt(key, x)
    PROVE  WeightsWithin'
<1> SUFFICES ASSUME NEW p \in PoolType
             PROVE  SumOver([k \in DOMAIN lockup' |-> WeightOf(k)'], PoolKeys(p)')
                        <= weighted_amount'[p]
  BY DEF WeightsWithin
<1>1. PICK f, g, A, B : /\ f = [k \in DOMAIN lockup |-> WeightOf(k)]
                        /\ g = [k \in DOMAIN lockup' |-> WeightOf(k)']
                        /\ A = PoolKeys(p) /\ B = PoolKeys(p)'
  OBVIOUS
<1>2. A \subseteq DOMAIN lockup /\ B \subseteq DOMAIN lockup' /\ A \ {key} = B \ {key}
  BY <1>1 DEF PoolKeys, WeightMovesAt
<1>3. IsFiniteSet(A) /\ IsFiniteSet(B)
  BY <1>2, FS_Subset DEF LockupsKnown
<1>4. \A k \in DOMAIN lockup : f[k] \in Int
  BY <1>1, ComputedIs
<1>5. \A k \in DOMAIN lockup' : g[k] \in Int
  <2> SUFFICES ASSUME NEW k \in DOMAIN lockup' PROVE g[k] \in Int
    OBVIOUS
  <2>1. lockup'[k].lp_units_locked \in Nat /\ k[3] \in DOMAIN LockWeight
    BY DEF LockdropTypeOK, LockupsKnown, LockupRecords
  <2>2. calculate_weight(lockup'[k].lp_units_locked, k[3]) \in Nat
    BY <2>1, WeightNat
  <2> QED BY <1>1, <2>2 DEF WeightOf
<1>6. \A y \in A \ {key} : g[y] = f[y]
  BY <1>1, <1>2 DEF WeightOf, WeightMovesAt
<1>7. PICK F \in Int, v \in Int : F = SumOver(f, A) /\ v = weighted_amount[p] /\ F <= v
  <2>1. SumOver(f, A) \in Int
    BY <1>2, <1>3, <1>4, SumInt
  <2>2. weighted_amount[p] \in Int
    BY DEF LockdropTypeOK
  <2>3. SumOver(f, A) <= weighted_amount[p]
    BY <1>1 DEF WeightsWithin
  <2> QED BY <2>1, <2>2, <2>3
<1>8. CASE key[1] = p
  <2>1. PICK a \in Int, b \in Int : /\ a = (IF key \in A THEN f[key] ELSE 0)
                                  /\ b = (IF key \in B THEN g[key] ELSE 0)
    BY <1>2, <1>4, <1>5
  <2>2. b <= a + x /\ x \in Int
    BY <1>1, <1>8, <2>1 DEF PoolKeys, WeightOf, WeightMovesAt
  <2>3. PICK y \in Int : y = b - a
    OBVIOUS
  <2>4. b = a + y /\ y <= x
    BY <2>2, <2>3
  <2>5. MovesAt(A, f, B, g, key, y)
    BY <1>2, <1>4, <1>5, <1>6, <2>1, <2>4 DEF MovesAt
  <2>6. SumOver(g, B) = F + y
    BY <1>3, <1>7, <2>5, SumMove
  <2>7. weighted_amount'[p] = v + x
    BY <1>7, <1>8 DEF WeightMovesAt
  <2>8. F + y <= v + x
    BY <1>7, <2>2, <2>4
  <2> QED BY <1>1, <2>6, <2>7, <2>8
<1>9. CASE key[1] # p
  <2>0. key \notin A /\ key \notin B
    BY <1>1, <1>9 DEF PoolKeys
  <2>1. A = B /\ \A y \in A : f[y] = g[y]
    BY <1>2, <1>6, <2>0
  <2>2. SumOver(f, A) = SumOver(g, A)
    BY <1>3, <2>1, SumEqual
  <2> QED BY <1>1, <1>7, <1>9, <2>1, <2>2 DEF WeightMovesAt
<1> QED BY <1>8, <1>9

\* IncreaseLockupFor with an exact top-up, and WithdrawFromLockup.
LEMMA LockupMovesWeights ==
    ASSUME LockdropInv, LockdropInv', WeightsWithin, TopUpExact,
           NEW s \in AuctionAddrs, NEW u \in Users, NEW p \in LockPools,
           NEW d \in LockDurations, NEW a \in Nat,
           \/ handle_increase_lockup(s, u, p, d, a)
           \/ handle_withdraw_from_lockup(s, u, p, d, a)
    PROVE  WeightsWithin'
<1>1. PICK key : key = <<p, u, d>>
  OBVIOUS
<1>2. /\ LockdropTypeOK /\ LockupsKnown /\ LockdropTypeOK' /\ LockupsKnown'
      /\ p \in PoolType /\ key[1] = p /\ key[3] = d
  BY <1>1, LockdropAmountAssumption DEF LockdropInv
<1>3. d \in DOMAIN LockWeight
  BY <1>1, <1>2 DEF LockupsKnown, handle_increase_lockup, handle_withdraw_from_lockup
<1>4. PICK x \in Nat : x = calculate_weight(a, d)
  BY <1>3, WeightNat
<1>5. \A k \in DOMAIN lockup : lockup[k] \in LockupRecords /\ lockup[k].lp_units_locked \in Nat
  BY <1>2 DEF LockdropTypeOK, LockupRecords
<1>6. CASE handle_increase_lockup(s, u, p, d, a)
  <2>1. \A q \in PoolType : weighted_amount'[q] =
            IF q = key[1] THEN weighted_amount[q] + x ELSE weighted_amount[q]
    BY <1>2, <1>4, <1>6 DEF handle_increase_lockup, LockdropTypeOK
  <2>2. CASE /\ key \in DOMAIN lockup
             /\ lockup' = [lockup EXCEPT ![key].lp_units_locked = @ + a]
    <3>1. PICK n \in Nat : n = lockup[key].lp_units_locked
      BY <1>5, <2>2
    <3>2. /\ DOMAIN lockup' = DOMAIN lockup
          /\ \A k \in DOMAIN lockup \ {key} : lockup'[k] = lockup[k]
          /\ lockup'[key].lp_units_locked = n + a
      BY <1>5, <2>2, <3>1 DEF LockupRecords
    <3>3. n <= n + a /\ (n + a) - n = a
      OBVIOUS
    <3>4. calculate_weight(n + a, d) <= calculate_weight(n, d) + x
      BY <1>2, <1>4, <2>2, <3>1, <3>2, <3>3 DEF TopUpExact
    <3>5. WeightMovesAt(key, x)
      BY <1>2, <2>1, <2>2, <3>1, <3>2, <3>4 DEF WeightMovesAt
    <3> QED BY <1>2, <3>5, WeightsMove
  <2>3. CASE /\ key \notin DOMAIN lockup
             /\ lockup' = [k \in DOMAIN lockup \cup {key} |->
                               IF k = key THEN NewLockup(a) ELSE lockup[k]]
    <3>1. /\ DOMAIN lockup' \ {key} = DOMAIN lockup \ {key} /\ key \in DOMAIN lockup'
          /\ \A k \in DOMAIN lockup \ {key} :
                 lockup'[k].lp_units_locked = lockup[k].lp_units_locked
          /\ lockup'[key].lp_units_locked = a
      BY <2>3 DEF NewLockup
    <3>2. calculate_weight(lockup'[key].lp_units_locked, key[3]) = x /\ x <= 0 + x
      BY <1>2, <1>4, <3>1
    <3>3. WeightMovesAt(key, x)
      BY <2>1, <2>3, <3>1, <3>2 DEF WeightMovesAt
    <3> QED BY <1>2, <3>3, WeightsMove
  <2> QED BY <1>1, <1>6, <2>2, <2>3 DEF handle_increase_lockup
<1>7. CASE handle_withdraw_from_lockup(s, u, p, d, a)
  <2>1. PICK n \in Nat : n = lockup[key].lp_units_locked /\ key \in DOMAIN lockup /\ a <= n
    BY <1>1, <1>5, <1>7 DEF handle_withdraw_from_lockup, WithdrawalAllowed
  <2>2. \A q \in PoolType : weighted_amount'[q] =
            IF q = key[1] THEN weighted_amount[q] + (-x) ELSE weighted_amount[q]
    BY <1>2, <1>4, <1>7 DEF handle_withdraw_from_lockup, LockdropTypeOK
  <2>3. -x \in Int
    OBVIOUS
  <2>4. CASE /\ a = lockup[key].lp_units_locked
             /\ lockup' = [k \in DOMAIN lockup \ {key} |-> lockup[k]]
    <3>1. /\ DOMAIN lockup' \ {key} = DOMAIN lockup \ {key} /\ key \notin DOMAIN lockup'
          /\ \A k \in DOMAIN lockup \ {key} :
                 lockup'[k].lp_units_locked = lockup[k].lp_units_locked
      BY <2>4
    <3>2. calculate_weight(lockup[key].lp_units_locked, key[3]) = x /\ 0 <= x + (-x)
      BY <1>2, <1>4, <2>4
    <3>3. WeightMovesAt(key, -x)
      BY <2>1, <2>2, <2>3, <3>1, <3>2 DEF WeightMovesAt
    <3> QED BY <1>2, <2>3, <3>3, WeightsMove
  <2>5. CASE lockup' = [lockup EXCEPT ![key].lp_units_locked = @ - a,
                                      ![key].withdrawal_flag = now >= LockCutoff]
    <3>1. /\ DOMAIN lockup' \ {key} = DOMAIN lockup \ {key} /\ key \in DOMAIN lockup'
          /\ \A k \in DOMAIN lockup \ {key} :
                 lockup'[k].lp_units_locked = lockup[k].lp_units_locked
          /\ lockup'[key] = [lockup[key] EXCEPT !.lp_units_locked = n - a,
                                                !.withdrawal_flag = now >= LockCutoff]
      BY <2>1, <2>5
    <3>2. lockup'[key].lp_units_locked = n - a
      BY <1>5, <2>1, <3>1 DEF LockupRecords
    <3>3. PICK r \in Nat : r = n - a /\ r + a = n
      BY <2>1
    <3>4. PICK y \in Nat, z \in Nat : y = calculate_weight(r, d) /\ z = calculate_weight(n, d)
      BY <1>3, WeightNat
    <3>5. y <= z + (-x)
      <4>1. y + x <= z
        BY <1>3, <1>4, <3>3, <3>4, WeightsOfParts
      <4> QED BY <4>1
    <3>6. WeightMovesAt(key, -x)
      BY <1>2, <2>1, <2>2, <2>3, <3>1, <3>2, <3>3, <3>4, <3>5 DEF WeightMovesAt
    <3> QED BY <1>2, <2>3, <3>6, WeightsMove
  <2> QED BY <1>1, <1>7, <2>4, <2>5 DEF handle_withdraw_from_lockup
<1> QED BY <1>6, <1>7

\* As long as the top-ups are exact, every step keeps the weights within.
LEMMA WeightsStep ==
    LockdropInv /\ LockdropInv' /\ WeightsWithin
        /\ [UnboundedNext]_lockdropVars /\ [TopUpExact]_lockdropVars => WeightsWithin'
<1> SUFFICES ASSUME LockdropInv, LockdropInv', WeightsWithin,
                    [UnboundedNext]_lockdropVars, [TopUpExact]_lockdropVars
             PROVE  WeightsWithin'
  OBVIOUS
<1> USE DEF poolVars, lockerVars, lockdropEnv
<1>1. ASSUME weighted_amount' = weighted_amount, DOMAIN lockup' = DOMAIN lockup,
             \A k \in DOMAIN lockup : lockup'[k].lp_units_locked = lockup[k].lp_units_locked
      PROVE  WeightsWithin'
  <2>1. /\ [k \in DOMAIN lockup |-> WeightOf(k)]' = [k \in DOMAIN lockup |-> WeightOf(k)]
        /\ \A p \in PoolType : PoolKeys(p)' = PoolKeys(p)
    BY <1>1 DEF WeightOf, PoolKeys
  <2>2. ASSUME NEW p \in PoolType
        PROVE  SumOver([k \in DOMAIN lockup |-> WeightOf(k)], PoolKeys(p))'
                   = SumOver([k \in DOMAIN lockup |-> WeightOf(k)], PoolKeys(p))
    BY <2>1
  <2> QED BY <1>1, <2>2 DEF WeightsWithin
<1>2. CASE UNCHANGED <<lockup, weighted_amount>>
  BY <1>1, <1>2
<1>3. CASE LockdropSetup
  <2>1. ASSUME participants = {}, NEW s \in Senders, NEW g \in Generators,
               handle_set_token_info(s, g)
        PROVE  WeightsWithin'
    <3>1. DOMAIN lockup' = {} /\ weighted_amount' = ZeroPools
      BY <2>1 DEF handle_set_token_info, LockdropInv, LockupsKnown
    <3>2. \A p \in PoolType : PoolKeys(p)' = {} /\ weighted_amount'[p] = 0
      BY <3>1 DEF PoolKeys, ZeroPools
    <3> QED BY <3>2, SumEmpty DEF WeightsWithin
  <2>2. \/ UNCHANGED <<lockup, weighted_amount>>
        \/ /\ participants = {}
           /\ \E s \in Senders, g \in Generators : handle_set_token_info(s, g)
    BY <1>3 DEF LockdropSetup, GeneratorAccrues, handle_update_config,
                handle_increasing_ntrn_incentives
  <2> QED BY <1>2, <2>1, <2>2
<1>4. ASSUME NEW u \in Users, NEW p \in LockPools, NEW d \in LockDurations, NEW w \in BOOLEAN,
             handle_claim_rewards_and_unlock_for_lockup(u, p, d, w)
      PROVE  WeightsWithin'
  <2>1. RewardInputsKept
    BY <1>4, ClaimKeepsInputs
  <2> QED BY <1>1, <2>1 DEF RewardInputsKept
<1>5. ASSUME NEW s \in AuctionAddrs, NEW u \in Users, NEW p \in LockPools,
             NEW d \in LockDurations, NEW a \in Nat,
             \/ handle_increase_lockup(s, u, p, d, a)
             \/ handle_withdraw_from_lockup(s, u, p, d, a)
      PROVE  WeightsWithin'
  <2>1. TopUpExact \/ UNCHANGED lockdropVars
    OBVIOUS
  <2>2. CASE UNCHANGED lockdropVars
    BY <1>2, <2>2 DEF lockdropVars
  <2>3. CASE TopUpExact
    BY <1>5, <2>3, LockupMovesWeights
  <2> QED BY <2>1, <2>2, <2>3
<1>6. ASSUME NEW s \in AuctionAddrs, NEW share, handle_initialize_pool(s, share, amount_in_lockups)
      PROVE  WeightsWithin'
  <2>1. UNCHANGED <<lockup, weighted_amount>>
    BY <1>6 DEF handle_initialize_pool
  <2> QED BY <1>2, <2>1
<1>7. CASE LockdropTick \/ UNCHANGED lockdropVars
  BY <1>2, <1>7 DEF LockdropTick, lockdropVars
<1> QED BY <1>3, <1>4, <1>5, <1>6, <1>7 DEF UnboundedNext, LockdropStep, AnyAuctionCalls

\* The weights stay within the totals in a run of exact top-ups.
LEMMA WeightsStayWithin ==
    UnboundedSpec /\ [][TopUpExact]_lockdropVars => []WeightsWithin
<1>1. LockdropInit => WeightsWithin
  <2> SUFFICES ASSUME LockdropInit PROVE WeightsWithin
    OBVIOUS
  <2>1. \A p \in PoolType : PoolKeys(p) = {} /\ weighted_amount[p] = 0
    BY DEF LockdropInit, PoolKeys, ZeroPools
  <2> QED BY <2>1, SumEmpty DEF WeightsWithin
<1> QED BY <1>1, WeightsStep, LockdropInvariant, PTL DEF UnboundedSpec

\* Whole weights make every top-up exact.
LEMMA WholeTopUps ==
    ASSUME \A d \in DOMAIN LockWeight : \E j \in Nat : LockWeight[d] = j * DECIMAL_FRACTIONAL,
           LockdropInv, LockdropInv'
    PROVE  TopUpExact
<1>1. ASSUME NEW d \in DOMAIN LockWeight, NEW a \in Nat, NEW b \in Nat, a <= b
      PROVE  calculate_weight(b, d) <= calculate_weight(a, d) + calculate_weight(b - a, d)
  <2>1. PICK j \in Nat, D \in Nat \ {0} : D = DECIMAL_FRACTIONAL /\ LockWeight[d] = j * D
    BY ScaleAssumption
  <2>2. ASSUME NEW n \in Nat PROVE calculate_weight(n, d) = n * j
    <3>1. PICK m \in Nat : m = n * j
      OBVIOUS
    <3>2. n * (j * D) = m * D
      BY <3>1
    <3>3. (m * D) \div D = m
      OBVIOUS
    <3> QED BY <2>1, <3>1, <3>2, <3>3 DEF calculate_weight, MulFloor
  <2>3. PICK c \in Nat : c = b - a /\ b = a + c
    BY <1>1
  <2>4. b * j = a * j + c * j
    BY <2>3
  <2>5. /\ calculate_weight(b, d) = b * j /\ calculate_weight(a, d) = a * j
        /\ calculate_weight(c, d) = c * j
    BY <2>2
  <2> QED BY <2>3, <2>4, <2>5
<1>2. ASSUME NEW k \in DOMAIN lockup \cap DOMAIN lockup'
      PROVE  /\ lockup[k].lp_units_locked \in Nat /\ lockup'[k].lp_units_locked \in Nat
             /\ k[3] \in DOMAIN LockWeight
  BY DEF LockdropInv, LockdropTypeOK, LockupsKnown, LockupRecords
<1> QED BY <1>1, <1>2 DEF TopUpExact

\* For any lock weights, in a run in which no top-up of a lockup gains a unit of
\* weight by rounding, the contract's NTRN pays the one time reward of everybody
\* who has not been paid.
THEOREM ExactTopUpsCovered ==
    LockdropSpec /\ [][TopUpExact]_lockdropVars => []RewardsCovered
<1>1. RewardInv /\ WeightsWithin => RewardsCovered
  BY DEF RewardInv
<1> QED BY <1>1, RewardInvariant, WeightsStayWithin, BoundedIsUnbounded, PTL
=============================================================================
