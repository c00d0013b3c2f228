----------------------------- MODULE MCVesting -----------------------------
(***************************************************************************)
(* Instances of VestingLp for TLC.                                          *)
(***************************************************************************)
EXTENDS VestingLp, TLC

Point(t, a) == [time |-> t, amount |-> a]
Linear(t0, a0, t1, a1) == [start_point |-> Point(t0, a0), end_point |-> Point(t1, a1)]
Cliff(t, a) == [start_point |-> Point(t, a), end_point |-> NONE]

\* A schedule that vests in unequal steps; one account with a cliff and one
\* with both kinds.
MCRequests == {
    1 :> <<Linear(0, 0, 2, 3)>>,
    (1 :> <<Cliff(1, 1)>>) @@ (2 :> <<Cliff(2, 1), Linear(1, 1, 3, 2)>>)}

\* A pair that brings one token of each kind for an LP token, and one of which
\* a single LP token is dust.
MCSharePrices == {[ntrn |-> 1, paired |-> 1, lp |-> 1], [ntrn |-> 1, paired |-> 2, lp |-> 2]}
\* Accounts that come without tokens: one like any other, one that was paid
\* more than it grants, and one whose start amount is above its end amount.
MCDirectInfos == {
    [schedules |-> <<Linear(0, 0, 2, 3)>>, released_amount |-> 0],
    [schedules |-> <<Cliff(1, 1)>>, released_amount |-> 2],
    [schedules |-> <<Linear(1, 2, 1, 1)>>, released_amount |-> 0]}
=============================================================================
