----------------------------- MODULE TgeCommon -----------------------------
(***************************************************************************)
(* What the contracts of the token generation event share: the two pool    *)
(* types, the fixed point arithmetic of cosmwasm_std::Decimal (external),   *)
(* and the withdrawal schedule that the auction applies to deposits and     *)
(* the lockdrop applies to lockups.                                         *)
(*                                                                         *)
(* A Decimal is an integer numerator over DECIMAL_FRACTIONAL (10^18 in      *)
(* cosmwasm_std); the scale is a parameter because only the direction of    *)
(* the rounding matters to the properties.                                  *)
(***************************************************************************)
EXTENDS Integers, FiniteSets, Folds, Functions

CONSTANTS
    DECIMAL_FRACTIONAL,  \* the scale of a Decimal
    NONE,                \* Option::None
    Users,               \* users, numbered in address order
    OWNER, MANAGER,      \* owner and token_info_manager given at instantiation
    MAX_TIME             \* bound: the last block time explored

ASSUME ScaleAssumption == DECIMAL_FRACTIONAL \in Nat \ {0}
ASSUME NoneAssumption  == NONE \notin Nat
ASSUME UsersAssumption == Users \subseteq Nat /\ IsFiniteSet(Users)
ASSUME TimeAssumption  == MAX_TIME \in Nat

VARIABLE now   \* env.block.time.seconds()

PoolType == {"ATOM", "USDC"}

\* Who may send a message.
Senders == Users \cup {OWNER, MANAGER}

\* A later block.
NextBlock == now < MAX_TIME /\ now' = now + 1

\* Decimal::from_ratio(a, b): truncates. The callers exclude b = 0 (a panic).
FromRatio(a, b) == (a * DECIMAL_FRACTIONAL) \div b

\* Uint128 * Decimal: truncates.
MulFloor(n, d) == (n * d) \div DECIMAL_FRACTIONAL

\* Uint128 / Decimal, through Decimal::from_str(n) / d and to_uint_floor.
DivFloor(n, d) ==
    ((n * DECIMAL_FRACTIONAL * DECIMAL_FRACTIONAL) \div d) \div DECIMAL_FRACTIONAL

\* The sum of f over the finite set S.
SumOver(f, S) == FoldFunctionOnSet(+, 0, f, S)

(***************************************************************************)
(* The share of a position that may be withdrawn at time t when the window *)
(* that accepts new funds ends at cutoff: all of it before cutoff, half of  *)
(* it in the first half of the withdrawal window, then linearly from one    *)
(* half down to nothing.                                                    *)
(***************************************************************************)
WithdrawalPercent(t, cutoff, window) ==
    LET second == cutoff + window \div 2
        final  == cutoff + window
    IN  IF t < cutoff THEN FromRatio(100, 100)
        ELSE IF t <= second THEN FromRatio(50, 100)
        ELSE IF t < final
             THEN FromRatio(50 * (final - t), 100 * (final - second))
        ELSE FromRatio(0, 100)
=============================================================================
