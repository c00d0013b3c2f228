------------------------------ MODULE Oracle ------------------------------
(***************************************************************************)
(* The TWAP oracle of a pair. The pair (external) adds the current price to *)
(* a cumulative price every second, modulo the width of Uint128; the oracle *)
(* keeps the cumulative price and the average since the update before.      *)
(*                                                                         *)
(* Prices are in units of 1/TWAP_PRECISION. The two directions of the pair  *)
(* are treated alike; one is modelled. One second is one block.             *)
(***************************************************************************)
EXTENDS TgeCommon

CONSTANTS
    UINT,             \* 2^128: the cumulative price is kept modulo this
    TWAP_PRECISION,   \* one, as a price
    ONE,              \* 10^precision of the token asked about
    Prices,           \* prices the pair may have
    CUMULATIVE,       \* the cumulative price of the pair to begin with
    Periods,          \* values of config.period
    OracleManagers,   \* addresses that may be the manager
    ConsultAmounts    \* amounts of QueryMsg::Consult

ASSUME OracleAssumption ==
    /\ UINT \in Nat \ {0} /\ TWAP_PRECISION \in Nat \ {0} /\ ONE \in Nat \ {0}
    /\ Prices \subseteq Nat \ {0} /\ CUMULATIVE \in 0..(UINT - 1)
    /\ Periods \subseteq Nat /\ MANAGER \in OracleManagers
    /\ ConsultAmounts \subseteq Nat
    /\ \A p \in Prices : p * MAX_TIME < UINT

VARIABLES
    oracle_config,     \* manager, period, and whether asset_infos and pair are set
    price_last,        \* PRICE_LAST
    spot, cumulative,  \* the pair: its price and its cumulative price
    seen, averaged     \* history: the prices since the last update, and those
                       \* of the interval that the stored average is over

oracleVars == <<oracle_config, price_last, spot, cumulative, seen, averaged>>

OracleInit ==
    /\ oracle_config \in [manager : {MANAGER}, period : Periods, pair : {FALSE}]
    /\ price_last = NONE
    /\ spot \in Prices
    /\ cumulative = CUMULATIVE
    /\ seen = {spot} /\ averaged = {}

\* A second passes at the current price.
PairTick ==
    /\ cumulative' = (cumulative + spot) % UINT
    /\ seen' = seen \cup {spot}
    /\ UNCHANGED <<oracle_config, price_last, spot, averaged>>

\* A trade.
PairSwap(price) ==
    /\ spot' = price
    /\ UNCHANGED <<oracle_config, price_last, cumulative, seen, averaged>>

update_period(sender, period) ==
    /\ sender = OWNER
    /\ oracle_config' = [oracle_config EXCEPT !.period = period]
    /\ UNCHANGED <<price_last, spot, cumulative, seen, averaged>>

update_manager(sender, manager) ==
    /\ sender = OWNER
    /\ oracle_config' = [oracle_config EXCEPT !.manager = manager]
    /\ UNCHANGED <<price_last, spot, cumulative, seen, averaged>>

set_asset_infos(sender) ==
    /\ sender = oracle_config.manager
    /\ ~oracle_config.pair
    /\ oracle_config' = [oracle_config EXCEPT !.pair = TRUE]
    /\ UNCHANGED <<price_last, spot, cumulative, seen, averaged>>

\* Fault: the difference of the cumulative prices does not wrap.
PriceIncrease_Absolute(price, last) == IF price >= last THEN price - last ELSE last - price

\* Uint128::wrapping_sub.
PriceIncrease(price, last) == (price - last) % UINT

\* The first update stores no average; a later one in the same second, which
\* a period of 0 allows, divides by zero and panics.
update ==
    /\ oracle_config.pair
    /\ \/ /\ price_last = NONE
          /\ price_last' = [cumulative |-> cumulative, average |-> 0, timestamp |-> now]
          /\ averaged' = {}
       \/ /\ price_last # NONE
          /\ now - price_last.timestamp >= oracle_config.period
          /\ now # price_last.timestamp
          /\ price_last' = [cumulative |-> cumulative, timestamp |-> now,
                 average |-> FromRatio(PriceIncrease(cumulative, price_last.cumulative),
                                       now - price_last.timestamp)]
          /\ averaged' = seen
    /\ seen' = {}
    /\ UNCHANGED <<oracle_config, spot, cumulative>>

\* What the pair's simulation of a swap of one whole token may return
\* (external): the value at the spot price, less spread and commission.
SimulatedReturns == 0..((ONE * spot) \div TWAP_PRECISION)

\* An average of zero stands for none: the pair is asked to simulate a swap.
consult(amount, return_amount) ==
    IF price_last.average = 0
    THEN (return_amount * amount) \div ONE
    ELSE MulFloor(amount, price_last.average) \div TWAP_PRECISION

OracleStep ==
    \/ \E price \in Prices : PairSwap(price)
    \/ \E s \in Senders, period \in Periods : update_period(s, period)
    \/ \E s \in Senders, m \in OracleManagers : update_manager(s, m)
    \/ \E s \in Senders : set_asset_infos(s)
    \/ update

OracleNext ==
    \/ OracleStep /\ UNCHANGED now
    \/ NextBlock /\ PairTick

OracleSpec == now \in 0..MAX_TIME /\ OracleInit /\ [][OracleNext]_<<now, oracleVars>>
-----------------------------------------------------------------------------
\* With an average, Consult answers the value of the amount at prices the pair
\* really had: between the least and the greatest of the interval averaged
\* over, also when the cumulative price wrapped around in it or the owner
\* changed the period. Without one, spread and commission come off, and it
\* answers no more than the value at the spot price.
ConsultWithinPrices ==
    price_last # NONE =>
        \A amount \in ConsultAmounts, return_amount \in SimulatedReturns :
            LET answer == consult(amount, return_amount)
                Value(p) == (amount * p) \div TWAP_PRECISION
            IN  IF price_last.average = 0 THEN answer <= Value(spot)
                ELSE /\ \E p \in averaged : Value(p) <= answer
                     /\ \E p \in averaged : answer <= Value(p)
=============================================================================
