----------------------------- MODULE FeedProofs -----------------------------
(***************************************************************************)
(* Theorems about the price feed and the oracle, for any symbols, requests, *)
(* prices and periods.                                                      *)
(***************************************************************************)
EXTENDS PriceFeed, Oracle, TgeTheorems

\* What RatesOfOneAnswer rests on: the configuration is one of those that can
\* be set, so that an update of it is what is read afterwards.
FeedConfigOK == feed_config \in [owner : FeedOwners, symbols : SymbolLists]

\* The inductive invariant of the price feed.
FeedInv == FeedConfigOK /\ RatesOfOneAnswer

\* The answer to a request for the configured symbols.
LEMMA AnswerStored ==
    ASSUME NEW answer, NEW id, answer.asked = feed_config.symbols,
           rates' = RatesAfter(answer, id), UNCHANGED <<now, feed_config>>
    PROVE  RatesOfOneAnswer'
<1>1. PICK list : list = feed_config.symbols
  OBVIOUS
<1>2. PICK place : place = [s \in {list[i] : i \in DOMAIN list} |->
                                CHOOSE i \in DOMAIN list : list[i] = s]
  OBVIOUS
<1>3. Range(list) = DOMAIN place
  BY <1>2 DEF Range
<1>4. ASSUME NEW s \in Range(list) PROVE list[place[s]] = s
  <2>1. \E i \in DOMAIN list : list[i] = s
    BY DEF Range
  <2> QED BY <1>2, <1>3, <2>1
<1>5. rates' = [s \in DOMAIN rates \cup DOMAIN place |->
                   IF s \in DOMAIN place
                   THEN [of |-> list[place[s]], resolved |-> answer.resolved,
                         resolve_time |-> now, request_id |-> id]
                   ELSE rates[s]]
  BY <1>1, <1>2 DEF RatesAfter
<1>6. ASSUME NEW s \in Range(list)
      PROVE  s \in DOMAIN rates'
             /\ rates'[s] = [of |-> s, resolved |-> answer.resolved,
                             resolve_time |-> now, request_id |-> id]
  BY <1>3, <1>4, <1>5
<1>7. feed_config'.symbols = list
  BY <1>1
<1>8. RatesKnown'
  BY <1>6, <1>7 DEF RatesKnown, Range
<1>9. ASSUME NEW s \in Range(list)
      PROVE  /\ rates'[s].of = s /\ rates'[s].request_id = id
             /\ rates'[s].resolve_time = now
             /\ rates'[s].resolved = answer.resolved
  <2>1. PICK x : x = answer.resolved
    OBVIOUS
  <2>2. rates'[s] = [of |-> s, resolved |-> x, resolve_time |-> now, request_id |-> id]
    BY <1>6, <2>1
  <2> QED BY <2>1, <2>2
<1> QED BY <1>7, <1>8, <1>9 DEF RatesOfOneAnswer, Range

\* A step that leaves the rates alone, and the symbols wherever they are still
\* said to be settled.
LEMMA RatesKept ==
    ASSUME RatesOfOneAnswer, rates' = rates,
           settled' => settled /\ feed_config'.symbols = feed_config.symbols
    PROVE  RatesOfOneAnswer'
BY DEF RatesOfOneAnswer, RatesKnown, Range

\* Every step of the feed keeps it.
LEMMA FeedStep ==
    ASSUME FeedInv, [PriceFeedNext]_<<now, feedVars>>
    PROVE  FeedInv'
<1> USE DEF FeedInv, FeedConfigOK
<1>1. CASE UNCHANGED feedVars
  BY <1>1, RatesKept DEF feedVars
<1>2. CASE ibc_channel_connect \/ try_request
  BY <1>2, RatesKept DEF ibc_channel_connect, try_request
<1>3. ASSUME NEW s \in Senders, NEW symbols \in SymbolLists, try_update_config(s, symbols)
      PROVE  FeedInv'
  BY <1>3, RatesKept DEF try_update_config
<1>4. ASSUME NEW s \in Senders, NEW o \in FeedOwners, try_update_owner(s, o)
      PROVE  FeedInv'
  BY <1>4, RatesKept DEF try_update_owner
<1>5. ASSUME NEW id, NEW status, BandResolves(id, status) \/ ibc_packet_timeout(id)
      PROVE  FeedInv'
  BY <1>5, RatesKept DEF BandResolves, ibc_packet_timeout
<1>6. ASSUME NEW id, do_ibc_packet_receive(id), now' = now
      PROVE  FeedInv'
  <2>1. PICK answer : answer = requests[id]
    OBVIOUS
  <2>2. feed_config' = feed_config
    BY <1>6 DEF do_ibc_packet_receive
  <2>3. CASE UNCHANGED <<rates, settled>>
    BY <2>2, <2>3, RatesKept
  <2>4. CASE rates' = RatesAfter(answer, id) /\ settled' = (answer.asked = feed_config.symbols)
    <3>1. CASE answer.asked = feed_config.symbols
      BY <1>6, <2>2, <2>4, <3>1, AnswerStored
    <3>2. CASE answer.asked # feed_config.symbols
      BY <2>2, <2>4, <3>2 DEF RatesOfOneAnswer
    <3> QED BY <3>1, <3>2
  <2> QED BY <1>6, <2>1, <2>3, <2>4 DEF do_ibc_packet_receive
<1> QED BY <1>1, <1>2, <1>3, <1>4, <1>5, <1>6 DEF PriceFeedNext, PriceFeedStep

\* However the requests to BandChain are lost, fail, cross each other or arrive
\* late: rates that were asked for and stored under the configured symbols are
\* all of one answer, each under its own symbol, so that the age SetPoolSize
\* checks of the first is the age of all.
THEOREM RatesOfOneAnswerAlways == PriceFeedSpec => []RatesOfOneAnswer
<1>1. PriceFeedInit => FeedInv
  BY FeedAssumption DEF PriceFeedInit, FeedInv, FeedConfigOK, RatesOfOneAnswer
<1>2. FeedInv /\ [PriceFeedNext]_<<now, feedVars>> => FeedInv'
  BY FeedStep
<1>3. FeedInv => RatesOfOneAnswer
  BY DEF FeedInv
<1> QED BY <1>1, <1>2, <1>3, PTL DEF PriceFeedSpec
-----------------------------------------------------------------------------
\* Arithmetic of the oracle: products, quotients and remainders.
LEMMA ProductGrows ==
    ASSUME NEW a \in Nat, NEW x \in Nat, NEW y \in Nat, x <= y
    PROVE  a * x <= a * y /\ a * x \in Nat /\ a * y \in Nat
OBVIOUS

\* Arithmetic of truncating division and of remainders.
LEMMA QuotientGrows ==
    ASSUME NEW d \in Nat \ {0}, NEW x \in Nat, NEW y \in Nat, x <= y
    PROVE  x \div d \in Nat /\ x \div d <= y \div d
OBVIOUS

LEMMA QuotientOfProduct == ASSUME NEW a \in Nat, NEW b \in Nat \ {0} PROVE (a * b) \div b = a
OBVIOUS

LEMMA QuotientAtLeast ==
    ASSUME NEW a \in Nat, NEW w \in Nat \ {0}, NEW q \in Nat, w * q <= a
    PROVE  q <= a \div w
<1>1. PICK b \in Nat : b = q * w /\ b <= a
  <2>1. q * w \in Nat /\ q * w = w * q
    OBVIOUS
  <2> QED BY <2>1
<1>2. b \div w = q
  BY <1>1, QuotientOfProduct
<1> QED BY <1>1, <1>2, QuotientGrows

LEMMA Remainder ==
    ASSUME NEW u \in Nat \ {0}, NEW x \in Nat
    PROVE  /\ x = ((x \div u) * u) + (x % u)
           /\ x % u \in 0..(u - 1) /\ x \div u \in Nat
OBVIOUS

LEMMA RemainderIs ==
    ASSUME NEW u \in Nat \ {0}, NEW r \in 0..(u - 1), NEW k \in Int
    PROVE  (r - k * u) % u = r
OBVIOUS

\* An average over an interval lies between the prices of the interval, as
\* Decimal::from_ratio rounds it.
LEMMA AverageBetween ==
    ASSUME NEW total \in Nat, NEW seconds \in Nat \ {0}, NEW p \in Nat, NEW q \in Nat,
           seconds * p <= total, total <= seconds * q
    PROVE  /\ FromRatio(total, seconds) \in Nat
           /\ p * DECIMAL_FRACTIONAL <= FromRatio(total, seconds)
           /\ FromRatio(total, seconds) <= q * DECIMAL_FRACTIONAL
<1>1. PICK D \in Nat \ {0} : D = DECIMAL_FRACTIONAL
  BY ScaleAssumption
<1>2. FromRatio(total, seconds) = (total * D) \div seconds
  BY <1>1 DEF FromRatio
<1>3. seconds * p \in Nat /\ seconds * q \in Nat /\ p * D \in Nat /\ q * D \in Nat
      /\ total * D \in Nat
  OBVIOUS
<1>4. D * (seconds * p) <= D * total /\ D * total <= D * (seconds * q)
  BY <1>3, ProductGrows
<1>5. /\ D * (seconds * p) = (p * D) * seconds
      /\ D * (seconds * q) = (q * D) * seconds /\ D * total = total * D
  OBVIOUS
<1>6. (p * D) * seconds <= total * D /\ total * D <= (q * D) * seconds
      /\ (p * D) * seconds \in Nat /\ (q * D) * seconds \in Nat
  BY <1>3, <1>4, <1>5
<1>7. /\ ((p * D) * seconds) \div seconds = p * D
      /\ ((q * D) * seconds) \div seconds = q * D
  BY <1>3, QuotientOfProduct
<1>8. /\ ((p * D) * seconds) \div seconds <= (total * D) \div seconds
      /\ (total * D) \div seconds <= ((q * D) * seconds) \div seconds
      /\ (total * D) \div seconds \in Nat
  BY <1>3, <1>6, QuotientGrows
<1> QED BY <1>1, <1>2, <1>7, <1>8

\* The value of an amount at an average price between p and q.
LEMMA ValueBetween ==
    ASSUME NEW amount \in Nat, NEW average \in Nat, NEW p \in Nat, NEW q \in Nat,
           p * DECIMAL_FRACTIONAL <= average, average <= q * DECIMAL_FRACTIONAL
    PROVE  /\ (amount * p) \div TWAP_PRECISION <= MulFloor(amount, average) \div TWAP_PRECISION
           /\ MulFloor(amount, average) \div TWAP_PRECISION <= (amount * q) \div TWAP_PRECISION
<1>1. PICK D \in Nat \ {0} : D = DECIMAL_FRACTIONAL
  BY ScaleAssumption
<1>2. p * D \in Nat /\ q * D \in Nat /\ amount * p \in Nat /\ amount * q \in Nat
      /\ amount * average \in Nat
  OBVIOUS
<1>3. amount * (p * D) <= amount * average /\ amount * average <= amount * (q * D)
  BY <1>1, <1>2, ProductGrows
<1>4. amount * (p * D) = (amount * p) * D /\ amount * (q * D) = (amount * q) * D
      /\ (amount * p) * D \in Nat /\ (amount * q) * D \in Nat
  OBVIOUS
<1>5. ((amount * p) * D) \div D = amount * p /\ ((amount * q) * D) \div D = amount * q
  BY <1>2, QuotientOfProduct
<1>6. /\ ((amount * p) * D) \div D <= (amount * average) \div D
      /\ (amount * average) \div D <= ((amount * q) * D) \div D
      /\ (amount * average) \div D \in Nat
  BY <1>2, <1>3, <1>4, QuotientGrows
<1>7. PICK m : m = (amount * average) \div D
  OBVIOUS
<1>8. m \in Nat /\ amount * p <= m /\ m <= amount * q
  BY <1>5, <1>6, <1>7
<1>9. MulFloor(amount, average) = m
  BY <1>1, <1>7 DEF MulFloor
<1> QED BY <1>2, <1>8, <1>9, QuotientGrows, OracleAssumption
-----------------------------------------------------------------------------
(***************************************************************************)
(* The inductive invariant of the oracle. What the pair added to its        *)
(* cumulative price since the update, wrapped around or not, is a total of  *)
(* seconds prices, all of them in seen; it is less than the width, so that  *)
(* the wrapping difference recovers it.                                     *)
(***************************************************************************)
TotalOfPrices(total, seconds, prices) ==
    /\ seconds = 0 => total = 0
    /\ seconds > 0 => /\ \E p \in prices : seconds * p <= total
                      /\ \E q \in prices : total <= seconds * q

\* after is before plus total, up to multiples of the width.
Wrapped(before, total, after) == \E k \in Nat : after + (k * UINT) = before + total

\* The average lies between the lowest and the highest of the prices.
AverageOf(average, prices) ==
    /\ \E p \in prices : p * DECIMAL_FRACTIONAL <= average
    /\ \E q \in prices : average <= q * DECIMAL_FRACTIONAL

\* The last cumulative prices are the wrapped total of the prices seen.
LastOK ==
    /\ price_last \in [cumulative : Nat, average : Nat, timestamp : Nat]
    /\ price_last.timestamp <= now
    /\ price_last.average # 0 => AverageOf(price_last.average, averaged)
    /\ \E total \in Nat : /\ TotalOfPrices(total, now - price_last.timestamp, seen)
                          /\ Wrapped(price_last.cumulative, total, cumulative)

\* The inductive invariant of the oracle.
OracleInv ==
    /\ now \in 0..MAX_TIME
    /\ spot \in Prices /\ seen \subseteq Prices /\ averaged \subseteq Prices
    /\ cumulative \in 0..(UINT - 1)
    /\ price_last # NONE => LastOK

\* A second more, at a price p.
LEMMA SecondMore ==
    ASSUME NEW total \in Nat, NEW seconds \in Nat, NEW prices \in SUBSET Nat, NEW x \in Nat,
           TotalOfPrices(total, seconds, prices)
    PROVE  TotalOfPrices(total + x, seconds + 1, prices \cup {x})
<1>1. seconds + 1 > 0 /\ seconds + 1 # 0
  OBVIOUS
<1>2. CASE seconds = 0
  <2>1. total + x = x /\ (seconds + 1) * x = x
    BY <1>2 DEF TotalOfPrices
  <2> QED BY <1>1, <2>1 DEF TotalOfPrices
<1>3. CASE seconds > 0
  <2>1. PICK p \in prices : seconds * p <= total
    BY <1>3 DEF TotalOfPrices
  <2>2. PICK q \in prices : total <= seconds * q
    BY <1>3 DEF TotalOfPrices
  <2>3. p \in Nat /\ q \in Nat
    OBVIOUS
  <2>4. \A y \in Nat : (seconds + 1) * y = seconds * y + y /\ seconds * y \in Nat
    OBVIOUS
  <2>5. \E y \in {p, x} : (seconds + 1) * y <= total + x
    <3>1. CASE p <= x
      BY <2>1, <2>3, <2>4, <3>1
    <3>2. CASE x <= p
      <4>1. seconds * x <= seconds * p
        BY <2>3, <3>2, ProductGrows
      <4> QED BY <2>1, <2>3, <2>4, <4>1
    <3> QED BY <2>3, <3>1, <3>2
  <2>6. \E y \in {q, x} : total + x <= (seconds + 1) * y
    <3>1. CASE x <= q
      BY <2>2, <2>3, <2>4, <3>1
    <3>2. CASE q <= x
      <4>1. seconds * q <= seconds * x
        BY <2>3, <3>2, ProductGrows
      <4> QED BY <2>2, <2>3, <2>4, <4>1
    <3> QED BY <2>3, <3>1, <3>2
  <2> QED BY <1>1, <2>5, <2>6 DEF TotalOfPrices
<1> QED BY <1>2, <1>3

\* A wrapped total wraps on when a price is added.
LEMMA WrappedMore ==
    ASSUME NEW before \in Nat, NEW total \in Nat, NEW after \in Nat, NEW x \in Nat,
           Wrapped(before, total, after)
    PROVE  Wrapped(before, total + x, (after + x) % UINT)
<1>1. PICK u \in Nat \ {0} : u = UINT
  BY OracleAssumption
<1>2. PICK k \in Nat : after + (k * u) = before + total
  BY <1>1 DEF Wrapped
<1>3. PICK y, j, r : y = after + x /\ j = y \div u /\ r = y % u
  OBVIOUS
<1>4. j \in Nat /\ r \in Nat /\ after + x = (j * u) + r
  <2>1. y \in Nat
    BY <1>3
  <2>2. y = ((y \div u) * u) + (y % u) /\ y % u \in 0..(u - 1) /\ y \div u \in Nat
    BY <2>1, Remainder
  <2> QED BY <1>3, <2>2
<1>5. (k + j) * u = (k * u) + (j * u) /\ k * u \in Nat /\ j * u \in Nat /\ k + j \in Nat
  BY <1>4
<1>6. r + ((k + j) * u) = before + (total + x)
  BY <1>2, <1>4, <1>5
<1> QED BY <1>1, <1>3, <1>5, <1>6 DEF Wrapped

\* The wrapping difference is the total, because it cannot exceed the width.
LEMMA DifferenceIsTotal ==
    ASSUME NEW before \in Nat, NEW total \in Nat, NEW after \in Nat, total < UINT,
           Wrapped(before, total, after)
    PROVE  PriceIncrease(after, before) = total
<1>1. PICK u \in Nat \ {0} : u = UINT
  BY OracleAssumption
<1>2. PICK k \in Nat : after + (k * u) = before + total
  BY <1>1 DEF Wrapped
<1>3. after - before = total - (k * u)
  BY <1>2
<1>4. (total - (k * u)) % u = total
  <2>1. total \in 0..(u - 1) /\ k \in Int
    BY <1>1
  <2> QED BY <2>1, RemainderIs
<1> QED BY <1>1, <1>3, <1>4 DEF PriceIncrease

\* The prices of one period add up to less than the integers' width.
LEMMA TotalBelowWidth ==
    ASSUME NEW total \in Nat, NEW seconds \in 0..MAX_TIME, NEW prices \in SUBSET Prices,
           TotalOfPrices(total, seconds, prices)
    PROVE  total < UINT
<1>1. UINT \in Nat \ {0} /\ MAX_TIME \in Nat /\ Prices \subseteq Nat
  BY OracleAssumption, TimeAssumption
<1>2. CASE seconds = 0
  BY <1>1, <1>2 DEF TotalOfPrices
<1>3. CASE seconds # 0
  <2>1. PICK q \in prices : total <= seconds * q
    BY <1>3 DEF TotalOfPrices
  <2>2. q \in Nat /\ q * MAX_TIME < UINT
    BY <1>1, OracleAssumption
  <2>3. q * seconds <= q * MAX_TIME /\ q * seconds \in Nat /\ q * MAX_TIME \in Nat
    BY <1>1, <2>2, ProductGrows
  <2>4. seconds * q = q * seconds
    BY <2>2
  <2> QED BY <1>1, <2>1, <2>2, <2>3, <2>4
<1> QED BY <1>2, <1>3
-----------------------------------------------------------------------------
\* Only the pair and Update touch what the invariant speaks of.
LEMMA OracleStepKeeps ==
    ASSUME OracleInv, [OracleNext]_<<now, oracleVars>>
    PROVE  OracleInv'
<1>1. /\ UINT \in Nat \ {0} /\ MAX_TIME \in Nat /\ Prices \subseteq Nat \ {0}
      /\ now \in Nat /\ spot \in Nat /\ cumulative \in Nat
      /\ seen \subseteq Nat /\ averaged \subseteq Nat
  BY OracleAssumption, TimeAssumption DEF OracleInv
<1>2. ASSUME UNCHANGED <<now, price_last, cumulative, seen, averaged>>, spot' \in Prices
      PROVE  OracleInv'
  BY <1>2 DEF OracleInv, LastOK
<1>3. CASE NextBlock /\ PairTick
  <2>1. /\ now' = now + 1 /\ now' \in 0..MAX_TIME
        /\ cumulative' = (cumulative + spot) % UINT /\ seen' = seen \cup {spot}
        /\ UNCHANGED <<price_last, spot, averaged>>
    BY <1>1, <1>3 DEF NextBlock, PairTick, OracleInv
  <2>2. cumulative' \in 0..(UINT - 1)
    <3>1. PICK x : x = cumulative + spot
      OBVIOUS
    <3>2. x \in Nat
      BY <1>1, <3>1
    <3>3. x % UINT \in 0..(UINT - 1)
      BY <1>1, <3>2, Remainder
    <3> QED BY <2>1, <3>1, <3>3
  <2>3. ASSUME price_last # NONE PROVE LastOK'
    <3>1. LastOK
      BY <2>3 DEF OracleInv
    <3>2. PICK total \in Nat : /\ TotalOfPrices(total, now - price_last.timestamp, seen)
                               /\ Wrapped(price_last.cumulative, total, cumulative)
      BY <3>1 DEF LastOK
    <3>3. /\ price_last.timestamp \in Nat /\ price_last.cumulative \in Nat
          /\ price_last.timestamp <= now
      BY <3>1 DEF LastOK
    <3>4. PICK seconds : seconds = now - price_last.timestamp
      OBVIOUS
    <3>5. seconds \in Nat /\ now' - price_last.timestamp = seconds + 1
      BY <1>1, <2>1, <3>3, <3>4
    <3>6. TotalOfPrices(total + spot, seconds + 1, seen \cup {spot})
      BY <1>1, <3>2, <3>4, <3>5, SecondMore
    <3>7. Wrapped(price_last.cumulative, total + spot, (cumulative + spot) % UINT)
      BY <1>1, <3>2, <3>3, WrappedMore
    <3>8. total + spot \in Nat /\ price_last.timestamp <= now'
      BY <1>1, <2>1, <3>3
    <3> QED BY <2>1, <3>1, <3>5, <3>6, <3>7, <3>8 DEF LastOK
  <2> QED BY <2>1, <2>2, <2>3 DEF OracleInv
<1>4. CASE update /\ now' = now
  <2>1. UNCHANGED <<spot, cumulative>> /\ seen' = {}
    BY <1>4 DEF update
  <2>2. TotalOfPrices(0, 0, {}) /\ Wrapped(cumulative, 0, cumulative)
    <3>1. 0 \in Nat /\ cumulative + (0 * UINT) = cumulative + 0
      BY <1>1
    <3> QED BY <3>1 DEF TotalOfPrices, Wrapped
  <2>3. ASSUME NEW a \in Nat, averaged' \subseteq Prices,
               price_last' = [cumulative |-> cumulative, average |-> a, timestamp |-> now],
               a # 0 => AverageOf(a, averaged')
        PROVE  OracleInv'
    <3>1. /\ price_last' \in [cumulative : Nat, average : Nat, timestamp : Nat]
          /\ price_last'.timestamp = now /\ price_last'.average = a
          /\ price_last'.cumulative = cumulative
      BY <1>1, <2>3
    <3>2. now' - price_last'.timestamp = 0 /\ price_last'.timestamp <= now'
      BY <1>1, <1>4, <3>1
    <3>3. LastOK'
      BY <2>1, <2>2, <2>3, <3>1, <3>2 DEF LastOK
    <3> QED BY <1>4, <2>1, <2>3, <3>3 DEF OracleInv
  <2>4. CASE price_last = NONE
    BY <1>4, <2>3, <2>4 DEF update
  <2>5. CASE price_last # NONE
    <3>1. LastOK
      BY <2>5 DEF OracleInv
    <3>2. PICK total \in Nat : /\ TotalOfPrices(total, now - price_last.timestamp, seen)
                               /\ Wrapped(price_last.cumulative, total, cumulative)
      BY <3>1 DEF LastOK
    <3>3. PICK seconds : seconds = now - price_last.timestamp
      OBVIOUS
    <3>4. PICK a : a = FromRatio(PriceIncrease(cumulative, price_last.cumulative), seconds)
      OBVIOUS
    <3>5. /\ price_last' = [cumulative |-> cumulative, timestamp |-> now, average |-> a]
          /\ averaged' = seen /\ now # price_last.timestamp
      BY <1>4, <2>5, <3>3, <3>4 DEF update
    <3>6. /\ seconds \in 0..MAX_TIME /\ seconds \in Nat \ {0} /\ price_last.cumulative \in Nat
      BY <1>1, <3>1, <3>3, <3>5 DEF LastOK, OracleInv
    <3>7. seen \in SUBSET Prices
      BY DEF OracleInv
    <3>8. total < UINT
      BY <3>2, <3>3, <3>6, <3>7, TotalBelowWidth
    <3>9. PriceIncrease(cumulative, price_last.cumulative) = total
      BY <1>1, <3>2, <3>6, <3>8, DifferenceIsTotal
    <3>10. PICK p \in seen : seconds * p <= total
      BY <3>2, <3>3, <3>6 DEF TotalOfPrices
    <3>11. PICK q \in seen : total <= seconds * q
      BY <3>2, <3>3, <3>6 DEF TotalOfPrices
    <3>12. p \in Nat /\ q \in Nat
      BY <1>1
    <3>13. /\ a \in Nat /\ p * DECIMAL_FRACTIONAL <= a /\ a <= q * DECIMAL_FRACTIONAL
      BY <3>4, <3>6, <3>9, <3>10, <3>11, <3>12, AverageBetween
    <3>14. AverageOf(a, averaged')
      BY <3>5, <3>10, <3>11, <3>13 DEF AverageOf
    <3> QED BY <2>3, <3>5, <3>7, <3>13, <3>14
  <2> QED BY <2>4, <2>5
<1>5. CASE UNCHANGED <<now, oracleVars>>
  BY <1>2, <1>5 DEF oracleVars, OracleInv
<1>6. ASSUME NEW price \in Prices, PairSwap(price), now' = now
      PROVE  OracleInv'
  BY <1>2, <1>6 DEF PairSwap
<1>7. ASSUME NEW s, NEW x, now' = now,
             update_period(s, x) \/ update_manager(s, x) \/ set_asset_infos(s)
      PROVE  OracleInv'
  BY <1>2, <1>7 DEF update_period, update_manager, set_asset_infos, OracleInv
<1> QED BY <1>3, <1>4, <1>5, <1>6, <1>7 DEF OracleNext, OracleStep

\* Consult, where the average is over the prices averaged.
LEMMA ConsultAverage ==
    ASSUME OracleInv, price_last # NONE, price_last.average # 0, NEW amount \in Nat,
           NEW r
    PROVE  /\ \E p \in averaged : (amount * p) \div TWAP_PRECISION <= consult(amount, r)
           /\ \E p \in averaged : consult(amount, r) <= (amount * p) \div TWAP_PRECISION
<1>1. PICK a : a = price_last.average
  OBVIOUS
<1>2. a \in Nat /\ AverageOf(a, averaged)
  BY <1>1 DEF OracleInv, LastOK
<1>3. PICK p \in averaged : p * DECIMAL_FRACTIONAL <= a
  BY <1>2 DEF AverageOf
<1>4. PICK q \in averaged : a <= q * DECIMAL_FRACTIONAL
  BY <1>2 DEF AverageOf
<1>5. p \in Nat /\ q \in Nat
  BY OracleAssumption DEF OracleInv
<1>6. consult(amount, r) = MulFloor(amount, a) \div TWAP_PRECISION
  BY <1>1 DEF consult
<1>7. /\ (amount * p) \div TWAP_PRECISION <= MulFloor(amount, a) \div TWAP_PRECISION
      /\ MulFloor(amount, a) \div TWAP_PRECISION <= (amount * q) \div TWAP_PRECISION
  BY <1>2, <1>3, <1>4, <1>5, ValueBetween
<1>8. /\ consult(amount, r) \in Int /\ (amount * p) \div TWAP_PRECISION \in Int
      /\ (amount * q) \div TWAP_PRECISION \in Int
  <2>1. PICK w \in Nat \ {0}, D \in Nat \ {0} : w = TWAP_PRECISION /\ D = DECIMAL_FRACTIONAL
    BY OracleAssumption, ScaleAssumption
  <2>2. \A x \in Nat, y \in Nat \ {0} : x \div y \in Nat
    OBVIOUS
  <2>3. amount * p \in Nat /\ amount * q \in Nat /\ amount * a \in Nat
    BY <1>2, <1>5
  <2>4. (amount * p) \div w \in Nat /\ (amount * q) \div w \in Nat /\ (amount * a) \div D \in Nat
    BY <2>2, <2>3
  <2>5. ((amount * a) \div D) \div w \in Nat
    BY <2>2, <2>4
  <2> QED BY <1>6, <2>1, <2>4, <2>5 DEF MulFloor
<1> QED BY <1>6, <1>7, <1>8

\* Consult, where the pair is asked: what a simulation takes off and the two
\* roundings only make the answer smaller.
LEMMA ConsultSpot ==
    ASSUME OracleInv, price_last.average = 0, NEW amount \in Nat,
           NEW r \in SimulatedReturns
    PROVE  consult(amount, r) <= (amount * spot) \div TWAP_PRECISION
<1>1. PICK w \in Nat \ {0}, one \in Nat \ {0}, s \in Nat :
          w = TWAP_PRECISION /\ one = ONE /\ s = spot
  BY OracleAssumption DEF OracleInv
<1>2. one * s \in Nat /\ amount * s \in Nat
  BY <1>1
<1>3. r \in Nat /\ r <= (one * s) \div w
  <2>1. PICK top \in Int : top = (one * s) \div w
    BY <1>2
  <2> QED BY <1>1, <2>1 DEF SimulatedReturns
<1>4. PICK v \in Nat : v = (one * s) \div w /\ w * v <= one * s
  BY <1>2, QuotientBelow
<1>5. PICK q \in Nat : q = (r * amount) \div one /\ one * q <= r * amount
  <2>1. r * amount \in Nat
    BY <1>3
  <2> QED BY <2>1, QuotientBelow
<1>6. one * (w * q) <= one * (amount * s)
  <2>1. w * r <= one * s
    <3>1. w * r <= w * v
      BY <1>3, <1>4, ProductGrows
    <3>2. PICK x \in Nat, y \in Nat, z \in Nat : x = w * r /\ y = w * v /\ z = one * s
      BY <1>2, <1>3
    <3> QED BY <1>4, <3>1, <3>2
  <2>2. amount * (w * r) <= amount * (one * s)
    <3>1. w * r \in Nat
      BY <1>3
    <3> QED BY <1>2, <2>1, <3>1, ProductGrows
  <2>3. w * (one * q) <= w * (r * amount)
    <3>1. one * q \in Nat /\ r * amount \in Nat
      BY <1>3
    <3> QED BY <1>5, <3>1, ProductGrows
  <2>4. /\ w * (one * q) = one * (w * q) /\ w * (r * amount) = amount * (w * r)
        /\ amount * (one * s) = one * (amount * s)
    BY <1>3
  <2>5. PICK x \in Nat, y \in Nat, z \in Nat :
            /\ x = one * (w * q) /\ y = amount * (w * r) /\ z = one * (amount * s)
    BY <1>3
  <2> QED BY <2>2, <2>3, <2>4, <2>5
<1>7. w * q <= amount * s
  <2>1. w * q \in Int /\ amount * s \in Int
    OBVIOUS
  <2> QED BY <1>6, <2>1, ProductCancel
<1>8. q <= (amount * s) \div w
  BY <1>2, <1>7, QuotientAtLeast
<1> QED BY <1>1, <1>5, <1>8 DEF consult

\* Consult answers the value of the amount at prices the pair really had since
\* the update before, through wrapped cumulative prices and changed periods;
\* before there is an average, no more than the value at the spot price. For
\* every precision of the token and of the prices.
THEOREM ConsultWithinPricesAlways == OracleSpec => []ConsultWithinPrices
<1>1. now \in 0..MAX_TIME /\ OracleInit => OracleInv
  BY OracleAssumption DEF OracleInit, OracleInv
<1>2. OracleInv /\ [OracleNext]_<<now, oracleVars>> => OracleInv'
  BY OracleStepKeeps
<1>3. OracleInv => ConsultWithinPrices
  <2> SUFFICES ASSUME OracleInv, price_last # NONE, NEW amount \in ConsultAmounts,
                      NEW r \in SimulatedReturns
               PROVE  IF price_last.average = 0
                      THEN consult(amount, r) <= (amount * spot) \div TWAP_PRECISION
                      ELSE /\ \E p \in averaged :
                                 (amount * p) \div TWAP_PRECISION <= consult(amount, r)
                           /\ \E p \in averaged :
                                 consult(amount, r) <= (amount * p) \div TWAP_PRECISION
    BY DEF ConsultWithinPrices
  <2>1. amount \in Nat
    BY OracleAssumption
  <2> QED BY <2>1, ConsultSpot, ConsultAverage
<1> QED BY <1>1, <1>2, <1>3, PTL DEF OracleSpec
=============================================================================
