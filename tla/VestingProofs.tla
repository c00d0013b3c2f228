--------------------------- MODULE VestingProofs ---------------------------
(***************************************************************************)
(* Theorems about the vesting contracts and the migration of vesting-lp,    *)
(* for any accounts, schedules, amounts and pair prices.                    *)
(***************************************************************************)
EXTENDS VestingLp, TgeTheorems

(***************************************************************************)
(* Schedules and accounts, without the clock of the chain: what a schedule  *)
(* has released by t, and the accounts that were never paid ahead of it.    *)
(***************************************************************************)
ReleasedAt(sch, t) ==
    IF sch.start_point.time > t THEN 0
    ELSE sch.start_point.amount
         + (IF sch.end_point = NONE \/ sch.end_point.time = sch.start_point.time THEN 0
            ELSE ((Earlier(t, sch.end_point.time) - sch.start_point.time)
                    * (sch.end_point.amount - sch.start_point.amount))
                 \div (sch.end_point.time - sch.start_point.time))

\* Truncated quotients of products: monotonic, and at most the factor when the
\* divisor is not exceeded.
LEMMA SlopeGrows ==
    ASSUME NEW a \in Nat, NEW x \in Nat, NEW y \in Nat, NEW d \in Nat \ {0}, x <= y, y <= d
    PROVE  /\ (x * a) \div d \in Nat
           /\ (x * a) \div d <= (y * a) \div d
           /\ (y * a) \div d <= a
<1>1. PICK z \in Nat, w \in Nat : y = x + z /\ d = y + w
  <2>1. y - x \in Nat /\ y = x + (y - x) /\ d - y \in Nat /\ d = y + (d - y)
    OBVIOUS
  <2> QED BY <2>1
<1>2. /\ a * (x + z) = a * x + a * z /\ a * x \in Nat /\ a * z \in Nat
      /\ a * (y + w) = a * y + a * w /\ a * y \in Nat /\ a * w \in Nat
  BY Distributive
<1>3. x * a = a * x /\ y * a = a * y /\ d * a = a * d
  OBVIOUS
<1>4. x * a \in Nat /\ y * a \in Nat /\ d * a \in Nat /\ x * a <= y * a /\ y * a <= d * a
  BY <1>1, <1>2, <1>3
<1>5. \A k, l \in Nat : k <= l => k \div d \in Nat /\ k \div d <= l \div d
  OBVIOUS
<1>6. (d * a) \div d = a
  <2>1. \A k \in Nat : k * d = d * k /\ (k * d) \div d = k
    OBVIOUS
  <2> QED BY <2>1
<1> QED BY <1>4, <1>5, <1>6

\* A valid schedule releases more and more, and no more than it grants.
LEMMA ScheduleGrows ==
    ASSUME NEW sch \in Schedules, ValidSchedule(sch), NEW t \in Nat, NEW t2 \in Nat, t <= t2
    PROVE  /\ ReleasedAt(sch, t) \in Nat
           /\ ReleasedAt(sch, t) <= ReleasedAt(sch, t2)
           /\ ReleasedAt(sch, t) <= GrantedBy(sch)
           /\ GrantedBy(sch) \in Nat
           /\ EndAmount(sch) \in Nat /\ EndAmount(sch) <= GrantedBy(sch)
<1>1. sch.start_point.time \in Nat /\ sch.start_point.amount \in Nat
  BY DEF Schedules, SchedulePoints
<1>2. CASE sch.end_point = NONE
  BY <1>1, <1>2 DEF ReleasedAt, GrantedBy, EndAmount
<1>3. CASE sch.end_point # NONE
  <2>1. /\ sch.end_point.time \in Nat /\ sch.end_point.amount \in Nat
        /\ sch.start_point.time < sch.end_point.time
        /\ sch.start_point.amount < sch.end_point.amount
    BY <1>3 DEF Schedules, SchedulePoints, ValidSchedule
  <2>2. PICK s, e, a, b : /\ s = sch.start_point.time /\ e = sch.end_point.time
                          /\ a = sch.start_point.amount /\ b = sch.end_point.amount
    OBVIOUS
  <2>3. PICK x, d : x = b - a /\ d = e - s
    OBVIOUS
  <2>4. x \in Nat /\ d \in Nat \ {0} /\ s \in Nat /\ e \in Nat /\ a \in Nat /\ b \in Nat
        /\ a + x = b
    BY <1>1, <2>1, <2>2, <2>3
  <2> DEFINE at(k) == Earlier(k, e) - s
  <2>5. \A k \in Nat : ReleasedAt(sch, k) = IF s > k THEN 0 ELSE a + (at(k) * x) \div d
    <3>1. sch.end_point.time # sch.start_point.time
      BY <1>1, <2>1
    <3> QED BY <1>3, <2>2, <2>3, <3>1 DEF ReleasedAt
  <2>6. ASSUME NEW k \in Nat, NEW l \in Nat, ~(s > k), k <= l
        PROVE  at(k) \in Nat /\ at(l) \in Nat /\ at(k) <= at(l) /\ at(l) <= d
    BY <2>1, <2>2, <2>3, <2>4, <2>6 DEF Earlier
  <2>7. ASSUME NEW k \in Nat, NEW l \in Nat, ~(s > k), k <= l
        PROVE  /\ (at(k) * x) \div d \in Nat
               /\ (at(k) * x) \div d <= (at(l) * x) \div d
               /\ (at(l) * x) \div d <= x
    <3> HIDE DEF at
    <3> QED BY <2>4, <2>6, <2>7, SlopeGrows
  <2> HIDE DEF at
  <2>8. GrantedBy(sch) = b /\ EndAmount(sch) = b
    BY <1>3, <2>2 DEF GrantedBy, EndAmount
  <2>9. CASE s > t
    <3>1. ReleasedAt(sch, t) = 0
      BY <2>5, <2>9
    <3>2. ReleasedAt(sch, t2) \in Nat
      <4>1. CASE s > t2
        BY <2>5, <4>1
      <4>2. CASE ~(s > t2)
        BY <2>4, <2>5, <2>7, <4>2
      <4> QED BY <4>1, <4>2
    <3> QED BY <2>4, <2>8, <3>1, <3>2
  <2>10. CASE ~(s > t)
    <3>1. ~(s > t2)
      BY <2>4, <2>10
    <3>2. ReleasedAt(sch, t) = a + (at(t) * x) \div d
          /\ ReleasedAt(sch, t2) = a + (at(t2) * x) \div d
      BY <2>5, <2>10, <3>1
    <3>3. /\ (at(t) * x) \div d \in Nat
          /\ (at(t2) * x) \div d \in Nat
          /\ (at(t) * x) \div d <= (at(t2) * x) \div d
          /\ (at(t2) * x) \div d <= x
      BY <2>7, <2>10, <3>1
    <3> QED BY <2>4, <2>8, <3>2, <3>3
  <2> QED BY <2>9, <2>10
<1> QED BY <1>2, <1>3
-----------------------------------------------------------------------------
\* The schedules that assert_vesting_schedules lets through, and the accounts
\* that are stored with them.
ValidSchedules == {sch \in Schedules : ValidSchedule(sch)}
\* The records of VESTING_INFO.
AccountInfos == [schedules : Seq(ValidSchedules), released_amount : Nat]

\* What each schedule of an account grants, grants at its end point, and has
\* released by t.
Grants(s)      == [i \in DOMAIN s |-> GrantedBy(s[i])]
EndAmounts(s)  == [i \in DOMAIN s |-> EndAmount(s[i])]
\* What the schedules of an account have released, each and together.
Releases(s, t) == [i \in DOMAIN s |-> ReleasedAt(s[i], t)]
TotalReleased(s, t) == SumOver(Releases(s, t), DOMAIN s)
TotalAtEnd(s)       == SumOver(EndAmounts(s), DOMAIN s)

\* The model's sequence totals are sums over the sequence's domain.
LEMMA TotalsAreSums ==
    ASSUME NEW s
    PROVE  TotalGranted(s) = SumOver(Grants(s), DOMAIN s)
BY DEF TotalGranted, SumOverSeq, Grants

\* An account has finitely many schedules.
LEMMA DomainFinite ==
    ASSUME NEW s \in Seq(ValidSchedules)
    PROVE  DOMAIN s = 1..Len(s) /\ IsFiniteSet(DOMAIN s) /\ Len(s) \in Nat
<1>1. DOMAIN s = 1..Len(s) /\ Len(s) \in Nat
  OBVIOUS
<1> QED BY <1>1, FS_Interval

\* What is released is a natural, at most the schedules' amounts, and grows.
LEMMA ScheduleSums ==
    ASSUME NEW s \in Seq(ValidSchedules), NEW t \in Nat, NEW t2 \in Nat, t <= t2
    PROVE  /\ TotalGranted(s) \in Nat
           /\ TotalReleased(s, t) \in Nat
           /\ TotalReleased(s, t) <= TotalReleased(s, t2)
           /\ TotalReleased(s, t) <= TotalGranted(s)
           /\ TotalAtEnd(s) \in Nat
           /\ TotalAtEnd(s) <= TotalGranted(s)
<1>1. IsFiniteSet(DOMAIN s)
  BY DomainFinite
<1>2. ASSUME NEW i \in DOMAIN s
      PROVE  /\ Releases(s, t)[i] \in Nat /\ Releases(s, t2)[i] \in Nat
             /\ Releases(s, t)[i] <= Releases(s, t2)[i]
             /\ Releases(s, t)[i] <= Grants(s)[i]
             /\ Grants(s)[i] \in Nat
             /\ EndAmounts(s)[i] \in Nat /\ EndAmounts(s)[i] <= Grants(s)[i]
  <2>1. s[i] \in Schedules /\ ValidSchedule(s[i])
    BY DomainFinite DEF ValidSchedules
  <2>2. /\ Releases(s, t)[i] = ReleasedAt(s[i], t)
        /\ Releases(s, t2)[i] = ReleasedAt(s[i], t2)
        /\ Grants(s)[i] = GrantedBy(s[i])
        /\ EndAmounts(s)[i] = EndAmount(s[i])
    BY DEF Releases, Grants, EndAmounts
  <2>3. ReleasedAt(s[i], t2) \in Nat
    BY <2>1, ScheduleGrows
  <2>4. PICK sch : sch = s[i]
    OBVIOUS
  <2>5. /\ ReleasedAt(sch, t) \in Nat /\ ReleasedAt(sch, t2) \in Nat
        /\ ReleasedAt(sch, t) <= ReleasedAt(sch, t2)
        /\ ReleasedAt(sch, t) <= GrantedBy(sch) /\ GrantedBy(sch) \in Nat
        /\ EndAmount(sch) \in Nat /\ EndAmount(sch) <= GrantedBy(sch)
    BY <2>1, <2>3, <2>4, ScheduleGrows
  <2> QED BY <2>2, <2>4, <2>5
<1>3. /\ SumOver(Grants(s), DOMAIN s) \in Nat
      /\ SumOver(Releases(s, t), DOMAIN s) \in Nat
      /\ SumOver(EndAmounts(s), DOMAIN s) \in Nat
  BY <1>1, <1>2, SumNat
<1>4. SumOver(Releases(s, t), DOMAIN s) <= SumOver(Releases(s, t2), DOMAIN s)
  BY <1>1, <1>2, SumMonotonic
<1>5. SumOver(Releases(s, t), DOMAIN s) <= SumOver(Grants(s), DOMAIN s)
  BY <1>1, <1>2, SumMonotonic
<1>6. SumOver(EndAmounts(s), DOMAIN s) <= SumOver(Grants(s), DOMAIN s)
  BY <1>1, <1>2, SumMonotonic
<1> QED BY <1>3, <1>4, <1>5, <1>6, TotalsAreSums DEF TotalReleased, TotalAtEnd

\* A registration adds its schedules to the ones there are.
LEMMA ScheduleConcat ==
    ASSUME NEW s \in Seq(ValidSchedules), NEW r \in Seq(ValidSchedules), NEW t \in Nat
    PROVE  /\ s \o r \in Seq(ValidSchedules)
           /\ TotalGranted(s \o r) = TotalGranted(s) + TotalGranted(r)
           /\ TotalReleased(s \o r, t) = TotalReleased(s, t) + TotalReleased(r, t)
<1> DEFINE m == Len(s)
           n == Len(r)
           q == s \o r
<1>1. /\ m \in Nat /\ n \in Nat /\ q \in Seq(ValidSchedules) /\ Len(q) = m + n
      /\ DOMAIN s = 1..m /\ DOMAIN r = 1..n /\ DOMAIN q = 1..(m + n)
      /\ \A i \in 1..m : q[i] = s[i]
      /\ \A i \in 1..n : q[m + i] = r[i]
  OBVIOUS
<1>2. /\ \A i \in 1..m : s[i] \in Schedules /\ ValidSchedule(s[i])
      /\ \A i \in 1..n : r[i] \in Schedules /\ ValidSchedule(r[i])
  BY <1>1 DEF ValidSchedules
<1> HIDE DEF m, n, q
<1>3. /\ \A i \in 1..m : Grants(s)[i] \in Int /\ Grants(q)[i] = Grants(s)[i]
      /\ \A i \in 1..n : Grants(r)[i] \in Int /\ Grants(q)[m + i] = Grants(r)[i]
  <2>1. \A i \in 1..n : m + i \in 1..(m + n)
    BY <1>1
  <2>2. \A i \in 1..m : i \in 1..(m + n)
    BY <1>1
  <2>3. \A sch \in Schedules : ValidSchedule(sch) => GrantedBy(sch) \in Int
    <3>1. \A sch \in Schedules : ValidSchedule(sch) => GrantedBy(sch) \in Nat
      BY ScheduleGrows
    <3> QED BY <3>1
  <2> QED BY <1>1, <1>2, <2>1, <2>2, <2>3 DEF Grants
<1>4. /\ \A i \in 1..m : Releases(s, t)[i] \in Int /\ Releases(q, t)[i] = Releases(s, t)[i]
      /\ \A i \in 1..n : Releases(r, t)[i] \in Int
                         /\ Releases(q, t)[m + i] = Releases(r, t)[i]
  <2>1. \A i \in 1..n : m + i \in 1..(m + n)
    BY <1>1
  <2>2. \A i \in 1..m : i \in 1..(m + n)
    BY <1>1
  <2>3. \A sch \in Schedules : ValidSchedule(sch) => ReleasedAt(sch, t) \in Int
    <3>1. \A sch \in Schedules : ValidSchedule(sch) => ReleasedAt(sch, t) \in Nat
      BY ScheduleGrows
    <3> QED BY <3>1
  <2> QED BY <1>1, <1>2, <2>1, <2>2, <2>3 DEF Releases
<1>5. SumOver(Grants(q), 1..(m + n)) = SumOver(Grants(s), 1..m) + SumOver(Grants(r), 1..n)
  <2>1. Concatenates(m, n, Grants(s), Grants(r), Grants(q))
    BY <1>1, <1>3 DEF Concatenates
  <2> QED BY <2>1, SumConcat
<1>6. SumOver(Releases(q, t), 1..(m + n))
        = SumOver(Releases(s, t), 1..m) + SumOver(Releases(r, t), 1..n)
  <2>1. Concatenates(m, n, Releases(s, t), Releases(r, t), Releases(q, t))
    BY <1>1, <1>4 DEF Concatenates
  <2> QED BY <2>1, SumConcat
<1> QED BY <1>1, <1>5, <1>6, TotalsAreSums DEF TotalReleased, q

\* An account without schedules, and one with a single schedule.
LEMMA NoSchedules ==
    /\ <<>> \in Seq(ValidSchedules)
    /\ TotalGranted(<<>>) = 0 /\ TotalAtEnd(<<>>) = 0
    /\ \A t \in Nat : TotalReleased(<<>>, t) = 0
<1>1. <<>> \in Seq(ValidSchedules) /\ DOMAIN <<>> = {}
  OBVIOUS
<1> QED BY <1>1, SumEmpty, TotalsAreSums DEF TotalReleased, TotalAtEnd

\* The totals of an account with one schedule are those of the schedule.
LEMMA OneSchedule ==
    ASSUME NEW sch \in ValidSchedules
    PROVE  <<sch>> \in Seq(ValidSchedules) /\ TotalGranted(<<sch>>) = GrantedBy(sch)
<1>1. <<sch>> \in Seq(ValidSchedules) /\ DOMAIN <<sch>> = {1} /\ <<sch>>[1] = sch
  OBVIOUS
<1>2. GrantedBy(sch) \in Nat
  BY ScheduleGrows DEF ValidSchedules
<1>3. PICK f : f = Grants(<<sch>>)
  OBVIOUS
<1>4. f[1] = GrantedBy(sch)
  BY <1>1, <1>3 DEF Grants
<1>5. SumOver(f, {1}) = f[1] + SumOver(f, {1} \ {1})
  <2>1. IsFiniteSet({1})
    BY FS_Singleton, Zenon
  <2>2. \A i \in {1} : f[i] \in Int
    BY <1>2, <1>4
  <2> QED BY <2>1, <2>2, SumRemove
<1>6. {1} \ {1} = {} /\ SumOver(f, {}) = 0
  BY SumEmpty
<1>7. SumOver(f, {1}) = GrantedBy(sch)
  BY <1>2, <1>4, <1>5, <1>6
<1> QED BY <1>1, <1>3, <1>7, TotalsAreSums
-----------------------------------------------------------------------------
(***************************************************************************)
(* A contract's accounts as vectors over all users: what each is granted    *)
(* and what each was paid, 0 for a user without an account. The sums the    *)
(* model writes over the stored accounts are sums over the users.           *)
(***************************************************************************)
Granted(infos) ==
    [u \in Users |-> IF u \in DOMAIN infos THEN TotalGranted(infos[u].schedules) ELSE 0]
\* What the accounts have been paid, and a total over all users.
Paid(infos) ==
    [u \in Users |-> IF u \in DOMAIN infos THEN infos[u].released_amount ELSE 0]
TotalOf(f) == SumOver(f, Users)

\* The accounts are ones no message could have paid ahead of time.
Fair(info, t) ==
    info \in AccountInfos /\ info.released_amount <= TotalReleased(info.schedules, t)

\* Every account is fair: it is never ahead of its schedules.
AccountsOK(infos, t) ==
    /\ DOMAIN infos \subseteq Users
    /\ infos = [u \in DOMAIN infos |-> infos[u]]
    /\ \A u \in DOMAIN infos : Fair(infos[u], t)

\* The sums of the model over a set of accounts.
GrantedTo(infos, S) == SumOver([u \in S |-> TotalGranted(infos[u].schedules)], S)
PaidTo(infos, S)    == SumOver([u \in S |-> infos[u].released_amount], S)
OwedTo(infos, S)    == SumOver([u \in S |-> Unclaimed(infos[u])], S)
Owed(infos)         == OwedTo(infos, DOMAIN infos)

\* What a fair account was paid is at most what it is granted.
LEMMA FairAccount ==
    ASSUME NEW t \in Nat, NEW info, Fair(info, t)
    PROVE  /\ info.schedules \in Seq(ValidSchedules)
           /\ TotalGranted(info.schedules) \in Nat
           /\ TotalReleased(info.schedules, t) \in Nat
           /\ info.released_amount \in Nat
           /\ info.released_amount <= TotalReleased(info.schedules, t)
           /\ info.released_amount <= TotalGranted(info.schedules)
           /\ Unclaimed(info) \in Nat
<1>1. info.schedules \in Seq(ValidSchedules) /\ info.released_amount \in Nat
  BY DEF Fair, AccountInfos
<1>2. /\ TotalGranted(info.schedules) \in Nat
      /\ TotalReleased(info.schedules, t) \in Nat
      /\ TotalReleased(info.schedules, t) <= TotalGranted(info.schedules)
  <2>1. PICK s \in Seq(ValidSchedules) : s = info.schedules
    BY <1>1
  <2>2. t <= t
    OBVIOUS
  <2>3. /\ TotalGranted(s) \in Nat /\ TotalReleased(s, t) \in Nat
        /\ TotalReleased(s, t) <= TotalGranted(s)
    BY <2>2, ScheduleSums
  <2> QED BY <2>1, <2>3
<1>3. info.released_amount <= TotalReleased(info.schedules, t)
  BY DEF Fair
<1>4. PICK g \in Nat, r \in Nat, a \in Nat :
          /\ g = TotalGranted(info.schedules)
          /\ r = TotalReleased(info.schedules, t) /\ a = info.released_amount
  BY <1>1, <1>2
<1>5. a <= g /\ g - a \in Nat
  <2>1. r <= g /\ a <= r
    BY <1>2, <1>3, <1>4
  <2> QED BY <2>1
<1>6. Unclaimed(info) = g - a
  BY <1>4 DEF Unclaimed
<1> QED BY <1>1, <1>2, <1>3, <1>4, <1>5, <1>6

\* The vectors of fair accounts.
LEMMA VectorsNat ==
    ASSUME NEW t \in Nat, NEW infos, AccountsOK(infos, t)
    PROVE  /\ \A u \in Users : /\ Granted(infos)[u] \in Nat /\ Paid(infos)[u] \in Nat
                               /\ Paid(infos)[u] <= Granted(infos)[u]
           /\ \A u \in DOMAIN infos :
                  /\ Granted(infos)[u] = TotalGranted(infos[u].schedules)
                  /\ Paid(infos)[u] = infos[u].released_amount
           /\ \A u \in Users \ DOMAIN infos : Granted(infos)[u] = 0 /\ Paid(infos)[u] = 0
           /\ TotalOf(Granted(infos)) \in Nat /\ TotalOf(Paid(infos)) \in Nat
           /\ TotalOf(Paid(infos)) <= TotalOf(Granted(infos))
<1>1. /\ \A u \in DOMAIN infos :
             /\ Granted(infos)[u] = TotalGranted(infos[u].schedules)
             /\ Paid(infos)[u] = infos[u].released_amount
      /\ \A u \in Users \ DOMAIN infos : Granted(infos)[u] = 0 /\ Paid(infos)[u] = 0
  BY DEF Granted, Paid, AccountsOK
<1>2. ASSUME NEW u \in Users
      PROVE  Granted(infos)[u] \in Nat /\ Paid(infos)[u] \in Nat
             /\ Paid(infos)[u] <= Granted(infos)[u]
  <2>1. CASE u \in DOMAIN infos
    <3>1. Fair(infos[u], t)
      BY <2>1 DEF AccountsOK
    <3> QED BY <1>1, <2>1, <3>1, FairAccount
  <2>2. CASE u \notin DOMAIN infos
    BY <1>1, <2>2
  <2> QED BY <2>1, <2>2
<1>3. TotalOf(Granted(infos)) \in Nat /\ TotalOf(Paid(infos)) \in Nat
  BY <1>2, UsersFinite, SumNat DEF TotalOf
<1>4. TotalOf(Paid(infos)) <= TotalOf(Granted(infos))
  BY <1>2, UsersFinite, SumMonotonic DEF TotalOf
<1> QED BY <1>1, <1>2, <1>3, <1>4

\* The model's sums over all accounts are those of the vectors; what is owed is
\* what is granted less what was paid.
LEMMA SumsOfAccounts ==
    ASSUME NEW t \in Nat, NEW infos, AccountsOK(infos, t), NEW S \in SUBSET DOMAIN infos
    PROVE  /\ GrantedTo(infos, S) \in Nat /\ PaidTo(infos, S) \in Nat
           /\ OwedTo(infos, S) = GrantedTo(infos, S) - PaidTo(infos, S)
           /\ OwedTo(infos, S) \in Nat
<1> DEFINE g == [u \in S |-> TotalGranted(infos[u].schedules)]
           p == [u \in S |-> infos[u].released_amount]
           o == [u \in S |-> Unclaimed(infos[u])]
<1>1. IsFiniteSet(S)
  BY UsersFinite DEF AccountsOK
<1>2. ASSUME NEW u \in S
      PROVE  g[u] \in Nat /\ p[u] \in Nat /\ o[u] \in Nat /\ g[u] = o[u] + p[u]
  <2>1. Fair(infos[u], t)
    BY DEF AccountsOK
  <2> QED BY <2>1, FairAccount DEF Unclaimed
<1>3. GrantedTo(infos, S) = SumOver(g, S) /\ PaidTo(infos, S) = SumOver(p, S)
      /\ OwedTo(infos, S) = SumOver(o, S)
  BY DEF GrantedTo, PaidTo, OwedTo
<1> HIDE DEF g, p, o
<1>4. SumOver(g, S) \in Nat /\ SumOver(p, S) \in Nat /\ SumOver(o, S) \in Nat
  BY <1>1, <1>2, SumNat
<1>5. SumOver(g, S) = SumOver(o, S) + SumOver(p, S)
  BY <1>1, <1>2, SumAdd
<1> QED BY <1>3, <1>4, <1>5

\* Sums over the accounts are sums over users, absent accounts counting zero.
LEMMA SumsOverUsers ==
    ASSUME NEW t \in Nat, NEW infos, AccountsOK(infos, t)
    PROVE  /\ GrantedTo(infos, DOMAIN infos) = TotalOf(Granted(infos))
           /\ PaidTo(infos, DOMAIN infos) = TotalOf(Paid(infos))
           /\ Owed(infos) = TotalOf(Granted(infos)) - TotalOf(Paid(infos))
           /\ Owed(infos) \in Nat
<1> DEFINE D == DOMAIN infos
           g == [u \in D |-> TotalGranted(infos[u].schedules)]
           p == [u \in D |-> infos[u].released_amount]
<1>1. D \in SUBSET Users
  BY DEF AccountsOK
<1>2. /\ \A u \in D : g[u] \in Int /\ Granted(infos)[u] = g[u]
      /\ \A u \in D : p[u] \in Int /\ Paid(infos)[u] = p[u]
  BY <1>1, VectorsNat
<1>3. \A u \in Users \ D : Granted(infos)[u] = 0 /\ Paid(infos)[u] = 0
  BY VectorsNat
<1>4. GrantedTo(infos, D) = SumOver(g, D) /\ PaidTo(infos, D) = SumOver(p, D)
  BY DEF GrantedTo, PaidTo
<1> HIDE DEF g, p, D
<1>5. SumOver(Granted(infos), Users) = SumOver(g, D)
  BY <1>1, <1>2, <1>3, UsersFinite, SumExtend
<1>6. SumOver(Paid(infos), Users) = SumOver(p, D)
  BY <1>1, <1>2, <1>3, UsersFinite, SumExtend
<1>7. OwedTo(infos, D) = GrantedTo(infos, D) - PaidTo(infos, D) /\ OwedTo(infos, D) \in Nat
  BY SumsOfAccounts DEF D
<1> QED BY <1>4, <1>5, <1>6, <1>7 DEF TotalOf, Owed, D
-----------------------------------------------------------------------------
\* The ways in which a message changes the accounts of a contract: one account
\* is set, accounts are removed.
Put(infos, u, info) ==
    [v \in DOMAIN infos \cup {u} |-> IF v = u THEN info ELSE infos[v]]
\* VESTING_INFO after the removal of the accounts in S.
Without(infos, S) == [v \in DOMAIN infos \ S |-> infos[v]]

\* Setting an account adds what it is granted and paid, less what it was before.
LEMMA PutAccount ==
    ASSUME NEW t \in Nat, NEW infos, AccountsOK(infos, t),
           NEW u \in Users, NEW info, Fair(info, t)
    PROVE  /\ AccountsOK(Put(infos, u, info), t)
           /\ TotalOf(Granted(Put(infos, u, info)))
                = TotalOf(Granted(infos)) + TotalGranted(info.schedules) - Granted(infos)[u]
           /\ TotalOf(Paid(Put(infos, u, info)))
                = TotalOf(Paid(infos)) + info.released_amount - Paid(infos)[u]
<1>1. PICK new : new = Put(infos, u, info)
  OBVIOUS
<1>2. DOMAIN new = DOMAIN infos \cup {u} /\ new[u] = info
      /\ \A v \in DOMAIN infos \ {u} : new[v] = infos[v]
  BY <1>1 DEF Put
<1>3. AccountsOK(new, t)
  <2>1. new = [v \in DOMAIN new |-> new[v]]
    BY <1>1 DEF Put
  <2>2. DOMAIN new \subseteq Users /\ \A v \in DOMAIN new : Fair(new[v], t)
    BY <1>2 DEF AccountsOK
  <2> QED BY <2>1, <2>2 DEF AccountsOK
<1>4. PICK f, g, p, q : /\ f = Granted(infos) /\ g = Granted(new)
                        /\ p = Paid(infos) /\ q = Paid(new)
  OBVIOUS
<1>5. /\ \A v \in Users : f[v] \in Nat /\ p[v] \in Nat
      /\ TotalOf(f) \in Nat /\ TotalOf(p) \in Nat
  BY <1>4, VectorsNat
<1>6. /\ g[u] = TotalGranted(info.schedules) /\ q[u] = info.released_amount
      /\ g[u] \in Nat /\ q[u] \in Nat
  BY <1>2, <1>3, <1>4, VectorsNat
<1>7. \A v \in Users \ {u} : g[v] = f[v] /\ q[v] = p[v]
  BY <1>2, <1>4 DEF Granted, Paid
<1>8. ChangesAt(Users, f, g, u, g[u] - f[u])
  BY <1>5, <1>6, <1>7 DEF ChangesAt
<1>9. ChangesAt(Users, p, q, u, q[u] - p[u])
  BY <1>5, <1>6, <1>7 DEF ChangesAt
<1>10. TotalOf(g) = TotalOf(f) + (g[u] - f[u]) /\ TotalOf(q) = TotalOf(p) + (q[u] - p[u])
  BY <1>8, <1>9, UsersFinite, SumUpdate DEF TotalOf
<1>11. f[u] \in Nat /\ p[u] \in Nat
  BY <1>5
<1>12. /\ TotalOf(g) = TotalOf(f) + TotalGranted(info.schedules) - f[u]
       /\ TotalOf(q) = TotalOf(p) + info.released_amount - p[u]
  BY <1>5, <1>6, <1>10, <1>11
<1> QED BY <1>1, <1>3, <1>4, <1>12

\* Removing accounts takes away what they are granted and paid.
LEMMA RemoveAccounts ==
    ASSUME NEW t \in Nat, NEW infos, AccountsOK(infos, t), NEW S \in SUBSET DOMAIN infos
    PROVE  /\ AccountsOK(Without(infos, S), t)
           /\ TotalOf(Granted(Without(infos, S)))
                = TotalOf(Granted(infos)) - GrantedTo(infos, S)
           /\ TotalOf(Paid(Without(infos, S))) = TotalOf(Paid(infos)) - PaidTo(infos, S)
<1>1. PICK new : new = Without(infos, S)
  OBVIOUS
<1>2. DOMAIN new = DOMAIN infos \ S /\ \A v \in DOMAIN new : new[v] = infos[v]
  BY <1>1 DEF Without
<1>3. AccountsOK(new, t)
  <2>1. new = [v \in DOMAIN new |-> new[v]]
    BY <1>1 DEF Without
  <2>2. DOMAIN new \subseteq Users /\ \A v \in DOMAIN new : Fair(new[v], t)
    BY <1>2 DEF AccountsOK
  <2> QED BY <2>1, <2>2 DEF AccountsOK
<1> DEFINE g == [u \in S |-> TotalGranted(infos[u].schedules)]
           p == [u \in S |-> infos[u].released_amount]
           gone == [u \in Users |-> IF u \in S THEN g[u] ELSE 0]
           paid == [u \in Users |-> IF u \in S THEN p[u] ELSE 0]
<1>4. S \in SUBSET Users
  BY DEF AccountsOK
<1>5. \A u \in S : /\ g[u] = Granted(infos)[u] /\ p[u] = Paid(infos)[u]
                   /\ g[u] \in Nat /\ p[u] \in Nat
  BY <1>4, VectorsNat
<1>6. /\ \A u \in S : gone[u] = g[u] /\ paid[u] = p[u]
      /\ \A u \in Users \ S : gone[u] = 0 /\ paid[u] = 0
  BY <1>4
<1>7. GrantedTo(infos, S) = SumOver(g, S) /\ PaidTo(infos, S) = SumOver(p, S)
  BY DEF GrantedTo, PaidTo
<1> HIDE DEF g, p, gone, paid
<1>8. SumOver(gone, Users) = SumOver(g, S)
  BY <1>4, <1>5, <1>6, UsersFinite, SumExtend
<1>9. SumOver(paid, Users) = SumOver(p, S)
  BY <1>4, <1>5, <1>6, UsersFinite, SumExtend
<1>10. PICK f, h, q, r : /\ f = Granted(infos) /\ h = Granted(new)
                         /\ q = Paid(infos) /\ r = Paid(new)
  OBVIOUS
<1>11. \A u \in Users : /\ gone[u] \in Int /\ h[u] \in Int /\ f[u] = h[u] + gone[u]
                        /\ paid[u] \in Int /\ r[u] \in Int /\ q[u] = r[u] + paid[u]
  <2>1. ASSUME NEW u \in Users, u \in S
        PROVE  /\ gone[u] \in Int /\ h[u] \in Int /\ f[u] = h[u] + gone[u]
               /\ paid[u] \in Int /\ r[u] \in Int /\ q[u] = r[u] + paid[u]
    <3>1. h[u] = 0 /\ r[u] = 0
      BY <1>2, <1>3, <1>10, <2>1, VectorsNat
    <3> QED BY <1>5, <1>6, <1>10, <2>1, <3>1
  <2>2. ASSUME NEW u \in Users, u \notin S
        PROVE  /\ gone[u] \in Int /\ h[u] \in Int /\ f[u] = h[u] + gone[u]
               /\ paid[u] \in Int /\ r[u] \in Int /\ q[u] = r[u] + paid[u]
    <3>1. h[u] = f[u] /\ r[u] = q[u]
      BY <1>2, <1>10, <2>2 DEF Granted, Paid
    <3>2. f[u] \in Nat /\ q[u] \in Nat
      BY <1>10, VectorsNat
    <3> QED BY <1>6, <2>2, <3>1, <3>2
  <2> QED BY <2>1, <2>2
<1>12. SumOver(f, Users) = SumOver(h, Users) + SumOver(gone, Users)
  BY <1>11, UsersFinite, SumAdd
<1>13. SumOver(q, Users) = SumOver(r, Users) + SumOver(paid, Users)
  BY <1>11, UsersFinite, SumAdd
<1>14. /\ SumOver(h, Users) \in Nat /\ SumOver(r, Users) \in Nat
  BY <1>3, <1>10, VectorsNat DEF TotalOf
<1>15. /\ SumOver(g, S) \in Nat /\ SumOver(p, S) \in Nat
  BY <1>7, SumsOfAccounts
<1>16. /\ SumOver(h, Users) = SumOver(f, Users) - SumOver(g, S)
       /\ SumOver(r, Users) = SumOver(q, Users) - SumOver(p, S)
  BY <1>8, <1>9, <1>12, <1>13, <1>14, <1>15
<1> QED BY <1>1, <1>3, <1>7, <1>10, <1>16 DEF TotalOf

\* The accounts of a registration that assert_vesting_schedules lets through.
RequestOK(accounts) ==
    /\ DOMAIN accounts \subseteq Users
    /\ \A u \in DOMAIN accounts : accounts[u] \in Seq(ValidSchedules)

\* What a registration grants.
NewGrants(accounts) ==
    SumOver([u \in DOMAIN accounts |-> TotalGranted(accounts[u])], DOMAIN accounts)

\* A registration adds what it grants to what is granted, and pays nobody.
LEMMA RegisterAccounts ==
    ASSUME NEW t \in Nat, NEW infos, AccountsOK(infos, t), NEW accounts, RequestOK(accounts)
    PROVE  /\ AccountsOK(Registered(infos, accounts), t)
           /\ NewGrants(accounts) \in Nat
           /\ TotalOf(Granted(Registered(infos, accounts)))
                = TotalOf(Granted(infos)) + NewGrants(accounts)
           /\ TotalOf(Paid(Registered(infos, accounts))) = TotalOf(Paid(infos))
<1> DEFINE A == DOMAIN accounts
           a == [u \in A |-> TotalGranted(accounts[u])]
           added == [u \in Users |-> IF u \in A THEN a[u] ELSE 0]
<1>1. PICK new : new = Registered(infos, accounts)
  OBVIOUS
<1>2. /\ DOMAIN new = DOMAIN infos \cup A
      /\ new = [u \in DOMAIN new |-> new[u]]
      /\ \A u \in DOMAIN infos \ A : new[u] = infos[u]
      /\ \A u \in A \ DOMAIN infos : new[u] = [schedules |-> accounts[u], released_amount |-> 0]
      /\ \A u \in A \cap DOMAIN infos :
             new[u] = [infos[u] EXCEPT !.schedules = accounts[u] \o @]
  BY <1>1 DEF Registered
<1>3. \A u \in A : accounts[u] \in Seq(ValidSchedules) /\ a[u] = TotalGranted(accounts[u])
                   /\ TotalGranted(accounts[u]) \in Nat /\ TotalReleased(accounts[u], t) \in Nat
  BY ScheduleSums DEF RequestOK
<1>4. ASSUME NEW u \in A \cap DOMAIN infos
      PROVE  /\ Fair(new[u], t)
             /\ TotalGranted(new[u].schedules) = TotalGranted(infos[u].schedules) + a[u]
             /\ new[u].released_amount = infos[u].released_amount
  <2>1. Fair(infos[u], t)
    BY DEF AccountsOK
  <2>2. infos[u] \in AccountInfos
    BY <2>1 DEF Fair
  <2>3. /\ new[u].schedules = accounts[u] \o infos[u].schedules
        /\ new[u].released_amount = infos[u].released_amount
        /\ new[u] = [schedules |-> accounts[u] \o infos[u].schedules,
                     released_amount |-> infos[u].released_amount]
    BY <1>2, <2>2 DEF AccountInfos
  <2>4. PICK s, r : s = accounts[u] /\ r = infos[u].schedules
    OBVIOUS
  <2>5. s \in Seq(ValidSchedules) /\ r \in Seq(ValidSchedules)
        /\ TotalGranted(s) \in Nat /\ TotalGranted(r) \in Nat
        /\ TotalReleased(s, t) \in Nat /\ TotalReleased(r, t) \in Nat
        /\ infos[u].released_amount \in Nat
        /\ infos[u].released_amount <= TotalReleased(r, t)
    BY <1>3, <2>1, <2>4, FairAccount
  <2>6. /\ s \o r \in Seq(ValidSchedules)
        /\ TotalGranted(s \o r) = TotalGranted(s) + TotalGranted(r)
        /\ TotalReleased(s \o r, t) = TotalReleased(s, t) + TotalReleased(r, t)
    BY <2>5, ScheduleConcat
  <2>7. new[u] \in AccountInfos
    BY <2>3, <2>4, <2>5, <2>6 DEF AccountInfos
  <2> HIDE DEF a
  <2> QED BY <1>3, <2>3, <2>4, <2>5, <2>6, <2>7 DEF Fair
<1>5. ASSUME NEW u \in A \ DOMAIN infos
      PROVE  /\ Fair(new[u], t)
             /\ TotalGranted(new[u].schedules) = a[u]
             /\ new[u].released_amount = 0
  <2>1. new[u].schedules = accounts[u] /\ new[u].released_amount = 0
        /\ new[u] \in AccountInfos
    BY <1>2, <1>3 DEF AccountInfos
  <2> HIDE DEF a
  <2> QED BY <1>3, <2>1 DEF Fair
<1>6. AccountsOK(new, t)
  <2>1. DOMAIN new \subseteq Users
    BY <1>2 DEF AccountsOK, RequestOK
  <2>2. \A u \in DOMAIN new : Fair(new[u], t)
    BY <1>2, <1>4, <1>5 DEF AccountsOK
  <2> QED BY <1>2, <2>1, <2>2 DEF AccountsOK
<1>7. A \in SUBSET Users
  BY DEF RequestOK
<1>8. /\ \A u \in A : a[u] \in Int /\ added[u] = a[u]
      /\ \A u \in Users \ A : added[u] = 0
      /\ \A u \in A : a[u] \in Nat
  BY <1>3, <1>7
<1>9. NewGrants(accounts) = SumOver(a, A)
  BY DEF NewGrants
<1> HIDE DEF added, a, A
<1>10. SumOver(added, Users) = SumOver(a, A)
  BY <1>7, <1>8, UsersFinite, SumExtend
<1>11. SumOver(a, A) \in Nat
  BY <1>7, <1>8, UsersFinite, SumNat
<1>12. PICK f, g, p, q : /\ f = Granted(infos) /\ g = Granted(new)
                         /\ p = Paid(infos) /\ q = Paid(new)
  OBVIOUS
<1>13. ASSUME NEW u \in Users
       PROVE  /\ f[u] \in Int /\ added[u] \in Int /\ g[u] = f[u] + added[u]
              /\ p[u] \in Int /\ q[u] = p[u]
  <2>1. f[u] \in Int /\ p[u] \in Int /\ added[u] \in Int
    BY <1>8, <1>12, VectorsNat
  <2>2. CASE u \notin A
    <3>1. g[u] = f[u] /\ q[u] = p[u]
      BY <1>2, <1>12, <2>2 DEF Granted, Paid
    <3> QED BY <1>8, <2>1, <2>2, <3>1
  <2>3. CASE u \in A \cap DOMAIN infos
    <3>1. g[u] = TotalGranted(new[u].schedules) /\ q[u] = new[u].released_amount
          /\ f[u] = TotalGranted(infos[u].schedules) /\ p[u] = infos[u].released_amount
      BY <1>2, <1>12, <2>3 DEF Granted, Paid
    <3> QED BY <1>4, <1>8, <2>1, <2>3, <3>1
  <2>4. CASE u \in A \ DOMAIN infos
    <3>1. g[u] = TotalGranted(new[u].schedules) /\ q[u] = new[u].released_amount
          /\ f[u] = 0 /\ p[u] = 0
      BY <1>2, <1>12, <2>4 DEF Granted, Paid
    <3> QED BY <1>5, <1>8, <2>1, <2>4, <3>1
  <2> QED BY <2>2, <2>3, <2>4
<1>14. SumOver(g, Users) = SumOver(f, Users) + SumOver(added, Users)
  BY <1>13, UsersFinite, SumAdd
<1>15. SumOver(q, Users) = SumOver(p, Users)
  BY <1>13, UsersFinite, SumEqual
<1> QED BY <1>1, <1>6, <1>9, <1>10, <1>11, <1>12, <1>14, <1>15 DEF TotalOf
-----------------------------------------------------------------------------
(***************************************************************************)
(* The books of one contract: its accounts, VESTING_STATE and its balance.  *)
(* GrantsFunded and TotalsMatchAccounts speak of all contracts at once;     *)
(* BooksOK is what they say of one, with what makes it inductive: the       *)
(* accounts are fair, and a contract without VESTING_STATE has none.        *)
(***************************************************************************)
BooksOK(managed, infos, state, balance) ==
    /\ state \in VestingStates \cup {NONE}
    /\ balance \in Nat
    /\ state = NONE => DOMAIN infos = {}
    /\ Owed(infos) <= balance
    /\ managed => Owed(infos) = balance
    /\ state # NONE => Owed(infos) <= state.total_granted - state.total_released
    /\ (managed /\ state # NONE) => /\ state.total_granted = TotalOf(Granted(infos))
                                    /\ state.total_released = TotalOf(Paid(infos))

\* A contract that nobody was registered with.
LEMMA NoBooks ==
    ASSUME NEW infos, DOMAIN infos = {}
    PROVE  Owed(infos) = 0
BY SumEmpty DEF Owed, OwedTo

\* Later, no account is ahead of its schedules either.
LEMMA FairLater ==
    ASSUME NEW t \in Nat, NEW t2 \in Nat, t <= t2, NEW infos, AccountsOK(infos, t)
    PROVE  AccountsOK(infos, t2)
<1>1. ASSUME NEW u \in DOMAIN infos PROVE Fair(infos[u], t2)
  <2>1. Fair(infos[u], t)
    BY DEF AccountsOK
  <2>2. PICK s : s = infos[u].schedules
    OBVIOUS
  <2>3. s \in Seq(ValidSchedules) /\ infos[u].released_amount \in Nat
        /\ infos[u].released_amount <= TotalReleased(s, t)
    BY <2>1, <2>2, FairAccount
  <2>4. TotalReleased(s, t) \in Nat /\ TotalReleased(s, t2) \in Nat
        /\ TotalReleased(s, t) <= TotalReleased(s, t2)
    BY <2>3, ScheduleSums
  <2> QED BY <2>1, <2>2, <2>3, <2>4 DEF Fair
<1> QED BY <1>1 DEF AccountsOK

\* VESTING_STATE, or its default where there is none yet.
StateOf(state) ==
    IF state = NONE THEN [total_granted |-> 0, total_released |-> 0] ELSE state

\* What a registration does to a contract's books.
LEMMA RegisterBooks ==
    ASSUME NEW t \in Nat, NEW managed \in BOOLEAN, NEW infos, NEW state, NEW balance,
           AccountsOK(infos, t), BooksOK(managed, infos, state, balance),
           NEW accounts, RequestOK(accounts)
    PROVE  /\ AccountsOK(Registered(infos, accounts), t)
           /\ BooksOK(managed, Registered(infos, accounts),
                      [StateOf(state) EXCEPT !.total_granted = @ + NewGrants(accounts)],
                      balance + NewGrants(accounts))
<1>1. PICK new, old, st, n :
          /\ new = Registered(infos, accounts) /\ old = StateOf(state)
          /\ n = NewGrants(accounts)
          /\ st = [old EXCEPT !.total_granted = @ + n]
  OBVIOUS
<1>2. /\ AccountsOK(new, t) /\ n \in Nat
      /\ TotalOf(Granted(new)) = TotalOf(Granted(infos)) + n
      /\ TotalOf(Paid(new)) = TotalOf(Paid(infos))
  BY <1>1, RegisterAccounts
<1>3. /\ Owed(infos) \in Nat
      /\ Owed(infos) = TotalOf(Granted(infos)) - TotalOf(Paid(infos))
      /\ Owed(new) = TotalOf(Granted(new)) - TotalOf(Paid(new))
      /\ TotalOf(Granted(infos)) \in Nat /\ TotalOf(Paid(infos)) \in Nat
  BY <1>2, SumsOverUsers, VectorsNat
<1>4. Owed(new) = Owed(infos) + n
  BY <1>2, <1>3
<1>5. old \in VestingStates /\ Owed(infos) <= old.total_granted - old.total_released
      /\ (managed => /\ old.total_granted = TotalOf(Granted(infos))
                     /\ old.total_released = TotalOf(Paid(infos)))
  <2>1. CASE state = NONE
    <3>1. old = [total_granted |-> 0, total_released |-> 0] /\ DOMAIN infos = {}
      BY <1>1, <2>1 DEF StateOf, BooksOK
    <3>2. Owed(infos) = 0
      BY <3>1, NoBooks
    <3>3. \A u \in Users : Granted(infos)[u] = 0 /\ Paid(infos)[u] = 0
      BY <3>1 DEF Granted, Paid
    <3>4. TotalOf(Granted(infos)) = 0 /\ TotalOf(Paid(infos)) = 0
      BY <3>3, UsersFinite, SumZero DEF TotalOf
    <3> QED BY <3>1, <3>2, <3>4 DEF VestingStates
  <2>2. CASE state # NONE
    BY <1>1, <2>2 DEF StateOf, BooksOK
  <2> QED BY <2>1, <2>2
<1>6. /\ st \in VestingStates
      /\ st.total_granted = old.total_granted + n /\ st.total_released = old.total_released
      /\ old.total_granted \in Nat /\ old.total_released \in Nat
  BY <1>1, <1>2, <1>5 DEF VestingStates
<1>7. st # NONE
  BY <1>6, OptionAssumption
<1>8. balance \in Nat /\ Owed(infos) <= balance /\ (managed => Owed(infos) = balance)
  BY DEF BooksOK
<1>9. /\ Owed(new) <= balance + n /\ (managed => Owed(new) = balance + n)
      /\ balance + n \in Nat
  BY <1>2, <1>3, <1>4, <1>8
<1>10. Owed(new) <= st.total_granted - st.total_released
  BY <1>2, <1>3, <1>4, <1>5, <1>6
<1>11. managed => /\ st.total_granted = TotalOf(Granted(new))
                  /\ st.total_released = TotalOf(Paid(new))
  BY <1>2, <1>5, <1>6
<1>12. BooksOK(managed, new, st, balance + n)
  BY <1>6, <1>7, <1>9, <1>10, <1>11 DEF BooksOK
<1> QED BY <1>1, <1>2, <1>12

\* What a claim does to a contract's books.
LEMMA ClaimBooks ==
    ASSUME NEW t \in Nat, NEW managed \in BOOLEAN, NEW infos, NEW state, NEW balance,
           AccountsOK(infos, t), BooksOK(managed, infos, state, balance),
           NEW u \in DOMAIN infos, NEW amount \in Nat,
           amount <= TotalReleased(infos[u].schedules, t) - infos[u].released_amount,
           amount <= balance
    PROVE  /\ AccountsOK([infos EXCEPT ![u].released_amount = @ + amount], t)
           /\ state # NONE
           /\ BooksOK(managed, [infos EXCEPT ![u].released_amount = @ + amount],
                      [state EXCEPT !.total_released = @ + amount], balance - amount)
<1>1. PICK info, new, st :
          /\ info = [infos[u] EXCEPT !.released_amount = @ + amount]
          /\ new = [infos EXCEPT ![u].released_amount = @ + amount]
          /\ st = [state EXCEPT !.total_released = @ + amount]
  OBVIOUS
<1>2. Fair(infos[u], t) /\ u \in Users
  BY DEF AccountsOK
<1>3. /\ infos[u] \in AccountInfos /\ infos[u].released_amount \in Nat
      /\ TotalReleased(infos[u].schedules, t) \in Nat
      /\ TotalGranted(infos[u].schedules) \in Nat
  BY <1>2, FairAccount DEF Fair
<1>4. /\ info.schedules = infos[u].schedules
      /\ info.released_amount = infos[u].released_amount + amount
      /\ info \in AccountInfos
  BY <1>1, <1>3 DEF AccountInfos
<1>5. Fair(info, t)
  BY <1>3, <1>4 DEF Fair
<1>6. new = Put(infos, u, info)
  <2>1. infos = [v \in DOMAIN infos |-> infos[v]]
    BY DEF AccountsOK
  <2> QED BY <1>1, <2>1 DEF Put
<1>7. /\ AccountsOK(new, t)
      /\ TotalOf(Granted(new))
           = TotalOf(Granted(infos)) + TotalGranted(info.schedules) - Granted(infos)[u]
      /\ TotalOf(Paid(new)) = TotalOf(Paid(infos)) + info.released_amount - Paid(infos)[u]
  BY <1>2, <1>5, <1>6, PutAccount
<1>8. /\ Granted(infos)[u] = TotalGranted(infos[u].schedules)
      /\ Paid(infos)[u] = infos[u].released_amount
      /\ TotalOf(Granted(infos)) \in Nat /\ TotalOf(Paid(infos)) \in Nat
  BY VectorsNat
<1>9. /\ TotalOf(Granted(new)) = TotalOf(Granted(infos))
      /\ TotalOf(Paid(new)) = TotalOf(Paid(infos)) + amount
  BY <1>3, <1>4, <1>7, <1>8
<1>10. /\ Owed(infos) = TotalOf(Granted(infos)) - TotalOf(Paid(infos))
       /\ Owed(new) = TotalOf(Granted(new)) - TotalOf(Paid(new))
       /\ Owed(infos) \in Nat /\ Owed(new) \in Nat
  BY <1>7, SumsOverUsers
<1>11. Owed(new) = Owed(infos) - amount
  BY <1>8, <1>9, <1>10
<1>12. state \in VestingStates /\ state # NONE
  BY DEF BooksOK
<1>13. /\ st \in VestingStates /\ st # NONE
       /\ st.total_granted = state.total_granted
       /\ st.total_released = state.total_released + amount
       /\ state.total_granted \in Nat /\ state.total_released \in Nat
  <2>1. st \in VestingStates
        /\ st.total_granted = state.total_granted
        /\ st.total_released = state.total_released + amount
        /\ state.total_granted \in Nat /\ state.total_released \in Nat
    BY <1>1, <1>12 DEF VestingStates
  <2> QED BY <2>1, OptionAssumption
<1>14. /\ balance \in Nat /\ Owed(infos) <= balance /\ (managed => Owed(infos) = balance)
       /\ Owed(infos) <= state.total_granted - state.total_released
       /\ managed => /\ state.total_granted = TotalOf(Granted(infos))
                     /\ state.total_released = TotalOf(Paid(infos))
  BY <1>12 DEF BooksOK
<1>15. /\ balance - amount \in Nat /\ Owed(new) <= balance - amount
       /\ managed => Owed(new) = balance - amount
  <2>1. balance \in Nat /\ Owed(infos) <= balance
    BY <1>14
  <2>2. balance - amount \in Nat /\ Owed(new) <= balance - amount
    BY <1>10, <1>11, <2>1
  <2>3. ASSUME managed PROVE Owed(new) = balance - amount
    BY <1>11, <1>14, <2>3
  <2> QED BY <2>2, <2>3
<1>16. Owed(new) <= st.total_granted - st.total_released
  BY <1>10, <1>11, <1>13, <1>14
<1>17. managed => /\ st.total_granted = TotalOf(Granted(new))
                  /\ st.total_released = TotalOf(Paid(new))
  BY <1>9, <1>13, <1>14
<1>18. BooksOK(managed, new, st, balance - amount)
  BY <1>13, <1>15, <1>16, <1>17 DEF BooksOK
<1> QED BY <1>1, <1>7, <1>12, <1>18

\* What RemoveVestingAccounts does to a contract's books.
LEMMA RemoveBooks ==
    ASSUME NEW t \in Nat, NEW managed \in BOOLEAN, NEW infos, NEW state, NEW balance,
           AccountsOK(infos, t), BooksOK(managed, infos, state, balance),
           NEW S \in SUBSET DOMAIN infos, S # {}, OwedTo(infos, S) <= balance,
           GrantedTo(infos, S) <= state.total_granted,
           PaidTo(infos, S) <= state.total_released
    PROVE  /\ AccountsOK(Without(infos, S), t)
           /\ state # NONE
           /\ BooksOK(managed, Without(infos, S),
                      [state EXCEPT !.total_granted = @ - GrantedTo(infos, S),
                                    !.total_released = @ - PaidTo(infos, S)],
                      balance - OwedTo(infos, S))
<1>1. PICK new, g, p, st :
          /\ new = Without(infos, S) /\ g = GrantedTo(infos, S) /\ p = PaidTo(infos, S)
          /\ st = [state EXCEPT !.total_granted = @ - g, !.total_released = @ - p]
  OBVIOUS
<1>2. g \in Nat /\ p \in Nat /\ OwedTo(infos, S) = g - p /\ OwedTo(infos, S) \in Nat
  BY <1>1, SumsOfAccounts
<1>3. /\ AccountsOK(new, t)
      /\ TotalOf(Granted(new)) = TotalOf(Granted(infos)) - g
      /\ TotalOf(Paid(new)) = TotalOf(Paid(infos)) - p
  BY <1>1, RemoveAccounts
<1>4. /\ Owed(infos) = TotalOf(Granted(infos)) - TotalOf(Paid(infos))
      /\ Owed(new) = TotalOf(Granted(new)) - TotalOf(Paid(new))
      /\ Owed(infos) \in Nat /\ Owed(new) \in Nat
      /\ TotalOf(Granted(infos)) \in Nat /\ TotalOf(Paid(infos)) \in Nat
  BY <1>3, SumsOverUsers, VectorsNat
<1>5. Owed(new) = Owed(infos) - (g - p)
  BY <1>2, <1>3, <1>4
<1>6. state \in VestingStates /\ state # NONE
  BY DEF BooksOK
<1>7. /\ st \in VestingStates /\ st # NONE
      /\ st.total_granted = state.total_granted - g
      /\ st.total_released = state.total_released - p
      /\ state.total_granted \in Nat /\ state.total_released \in Nat
  <2>1. /\ state.total_granted \in Nat /\ state.total_released \in Nat
        /\ st.total_granted = state.total_granted - g
        /\ st.total_released = state.total_released - p
    BY <1>1, <1>6 DEF VestingStates
  <2>2. state.total_granted - g \in Nat /\ state.total_released - p \in Nat
    BY <1>1, <1>2, <2>1
  <2>3. st \in VestingStates
    BY <1>1, <1>6, <2>2 DEF VestingStates
  <2> QED BY <2>1, <2>3, OptionAssumption
<1>8. /\ balance \in Nat /\ Owed(infos) <= balance /\ (managed => Owed(infos) = balance)
      /\ Owed(infos) <= state.total_granted - state.total_released
      /\ managed => /\ state.total_granted = TotalOf(Granted(infos))
                    /\ state.total_released = TotalOf(Paid(infos))
  BY <1>6 DEF BooksOK
<1>9. /\ balance - (g - p) \in Nat /\ Owed(new) <= balance - (g - p)
      /\ managed => Owed(new) = balance - (g - p)
  BY <1>2, <1>4, <1>5, <1>8
<1>10. Owed(new) <= st.total_granted - st.total_released
  BY <1>2, <1>4, <1>5, <1>7, <1>8
<1>11. managed => /\ st.total_granted = TotalOf(Granted(new))
                  /\ st.total_released = TotalOf(Paid(new))
  BY <1>3, <1>7, <1>8
<1>12. BooksOK(managed, new, st, balance - (g - p))
  BY <1>7, <1>9, <1>10, <1>11 DEF BooksOK
<1> QED BY <1>1, <1>2, <1>3, <1>6, <1>12

\* The emptied account of a migrated user is fair, and granted nothing.
LEMMA NoAccountFair ==
    ASSUME NEW t \in Nat
    PROVE  /\ Fair(NoAccount, t) /\ TotalGranted(NoAccount.schedules) = 0
           /\ NoAccount.released_amount = 0
<1>1. NoAccount \in AccountInfos /\ NoAccount.schedules = <<>> /\ NoAccount.released_amount = 0
  BY NoSchedules DEF NoAccount, AccountInfos
<1>2. TotalReleased(<<>>, t) = 0 /\ TotalGranted(<<>>) = 0
  BY NoSchedules
<1> QED BY <1>1, <1>2 DEF Fair

\* compute_share never exceeds what the account is owed: the LP tokens of
\* everybody else stay.
LEMMA ShareWithinOwed ==
    ASSUME NEW t \in Nat, NEW info, Fair(info, t)
    PROVE  /\ compute_share(info) \in Int
           /\ compute_share(info) <= Unclaimed(info)
           /\ info.schedules = <<>> => compute_share(info) <= 0
<1>1. compute_share(info) = TotalAtEnd(info.schedules) - info.released_amount
  BY DEF compute_share, SumOverSeq, TotalAtEnd, EndAmounts
<1>2. info.schedules \in Seq(ValidSchedules) /\ info.released_amount \in Nat
      /\ TotalGranted(info.schedules) \in Nat
  BY FairAccount
<1>3. TotalAtEnd(info.schedules) \in Nat
      /\ TotalAtEnd(info.schedules) <= TotalGranted(info.schedules)
  BY <1>2, ScheduleSums
<1>4. TotalAtEnd(<<>>) = 0
  BY NoSchedules
<1> QED BY <1>1, <1>2, <1>3, <1>4 DEF Unclaimed

\* A migrated account leaves vesting-lp, whose accounts nobody may remove, with
\* the share; the totals are lowered by it, or (dust) left as they were.
LEMMA LeaveBooks ==
    ASSUME NEW t \in Nat, NEW infos, NEW state, NEW balance,
           AccountsOK(infos, t), BooksOK(FALSE, infos, state, balance),
           NEW u \in DOMAIN infos, NEW share \in Nat, share = compute_share(infos[u]),
           share <= balance, NEW less \in {0, share}, less <= state.total_granted
    PROVE  /\ AccountsOK(Put(infos, u, NoAccount), t)
           /\ state # NONE
           /\ BooksOK(FALSE, Put(infos, u, NoAccount),
                      [state EXCEPT !.total_granted = @ - less], balance - share)
<1>1. PICK new, st : new = Put(infos, u, NoAccount)
                     /\ st = [state EXCEPT !.total_granted = @ - less]
  OBVIOUS
<1>2. Fair(infos[u], t) /\ u \in Users
  BY DEF AccountsOK
<1>3. PICK owed : owed = Unclaimed(infos[u])
  OBVIOUS
<1>4. owed \in Nat /\ share <= owed
      /\ owed = TotalGranted(infos[u].schedules) - infos[u].released_amount
      /\ TotalGranted(infos[u].schedules) \in Nat /\ infos[u].released_amount \in Nat
  BY <1>2, <1>3, FairAccount, ShareWithinOwed DEF Unclaimed
<1>5. /\ AccountsOK(new, t)
      /\ TotalOf(Granted(new)) = TotalOf(Granted(infos)) + 0 - Granted(infos)[u]
      /\ TotalOf(Paid(new)) = TotalOf(Paid(infos)) + 0 - Paid(infos)[u]
  BY <1>1, <1>2, NoAccountFair, PutAccount
<1>6. /\ Granted(infos)[u] = TotalGranted(infos[u].schedules)
      /\ Paid(infos)[u] = infos[u].released_amount
      /\ TotalOf(Granted(infos)) \in Nat /\ TotalOf(Paid(infos)) \in Nat
  BY VectorsNat
<1>7. /\ Owed(infos) = TotalOf(Granted(infos)) - TotalOf(Paid(infos))
      /\ Owed(new) = TotalOf(Granted(new)) - TotalOf(Paid(new))
      /\ Owed(infos) \in Nat /\ Owed(new) \in Nat
  BY <1>5, SumsOverUsers
<1>8. Owed(new) = Owed(infos) - owed
  BY <1>4, <1>5, <1>6, <1>7
<1>9. state \in VestingStates /\ state # NONE
  BY DEF BooksOK
<1>10. /\ balance \in Nat /\ Owed(infos) <= balance
       /\ Owed(infos) <= state.total_granted - state.total_released
  BY <1>9 DEF BooksOK
<1>11. /\ state.total_granted \in Nat /\ state.total_released \in Nat
       /\ st.total_granted = state.total_granted - less
       /\ st.total_released = state.total_released
  BY <1>1, <1>9 DEF VestingStates
<1>12. less \in Nat /\ less <= owed /\ state.total_granted - less \in Nat
  BY <1>4, <1>11
<1>13. st \in VestingStates /\ st # NONE
  <2>1. st \in VestingStates
    BY <1>1, <1>9, <1>12 DEF VestingStates
  <2> QED BY <2>1, OptionAssumption
<1>14. balance - share \in Nat /\ Owed(new) <= balance - share
  BY <1>4, <1>7, <1>8, <1>10
<1>15. Owed(new) <= st.total_granted - st.total_released
  BY <1>4, <1>7, <1>8, <1>10, <1>11, <1>12
<1>16. BooksOK(FALSE, new, st, balance - share)
  BY <1>13, <1>14, <1>15 DEF BooksOK
<1> QED BY <1>1, <1>5, <1>9, <1>16

\* The schedule that a migrated account gets is one that
\* assert_vesting_schedules would let through, and grants no more than the LP
\* tokens that come with it.
LEMMA MigratedFair ==
    ASSUME NEW t \in Nat, NEW info, Fair(info, t), info.schedules # <<>>,
           NEW lp_amount \in Nat \ {0}
    PROVE  /\ Fair(MigratedInfo(info, lp_amount), t)
           /\ MigratedInfo(info, lp_amount).released_amount = 0
           /\ TotalGranted(MigratedInfo(info, lp_amount).schedules) \in Nat
           /\ TotalGranted(MigratedInfo(info, lp_amount).schedules) <= lp_amount
<1>1. PICK s, old, sch :
          /\ s = info.schedules /\ old = s[Len(s)] /\ sch = MigratedSchedule(s, lp_amount)
  OBVIOUS
<1>2. s \in Seq(ValidSchedules) /\ s # <<>>
  BY <1>1, FairAccount
<1>3. old \in Schedules /\ ValidSchedule(old)
  <2>1. Len(s) \in 1..Len(s) /\ DOMAIN s = 1..Len(s)
    BY <1>2
  <2>2. old \in ValidSchedules
    BY <1>1, <1>2, <2>1
  <2> QED BY <2>2 DEF ValidSchedules
<1>4. sch = [start_point |-> [old.start_point EXCEPT !.amount = 0],
             end_point   |-> IF old.end_point = NONE THEN NONE
                             ELSE [old.end_point EXCEPT !.amount = lp_amount]]
  BY <1>1 DEF MigratedSchedule
<1>5. old.start_point \in SchedulePoints /\ old.end_point \in SchedulePoints \cup {NONE}
  BY <1>3 DEF Schedules
<1>6. /\ sch.start_point \in SchedulePoints
      /\ sch.start_point.time = old.start_point.time /\ sch.start_point.amount = 0
  BY <1>4, <1>5 DEF SchedulePoints
<1>7. sch \in ValidSchedules /\ GrantedBy(sch) \in Nat /\ GrantedBy(sch) <= lp_amount
  <2>1. CASE old.end_point = NONE
    <3>1. sch.end_point = NONE
      BY <1>4, <2>1
    <3>2. sch \in Schedules
      BY <1>4, <1>6, <2>1 DEF Schedules
    <3> QED BY <1>6, <3>1, <3>2 DEF ValidSchedules, ValidSchedule, GrantedBy
  <2>2. CASE old.end_point # NONE
    <3>1. /\ sch.end_point \in SchedulePoints
          /\ sch.end_point.time = old.end_point.time /\ sch.end_point.amount = lp_amount
      BY <1>4, <1>5, <2>2 DEF SchedulePoints
    <3>2. sch.end_point # NONE
      BY <3>1, OptionAssumption
    <3>3. sch \in Schedules
      <4>1. sch = [start_point |-> sch.start_point, end_point |-> sch.end_point]
        BY <1>4
      <4> QED BY <1>6, <3>1, <4>1 DEF Schedules
    <3>4. old.start_point.time < old.end_point.time
      BY <1>3, <2>2 DEF ValidSchedule
    <3>5. ValidSchedule(sch)
      BY <1>6, <3>1, <3>4 DEF ValidSchedule
    <3> QED BY <3>1, <3>2, <3>3, <3>5 DEF ValidSchedules, GrantedBy
  <2> QED BY <2>1, <2>2
<1>8. PICK new : new = MigratedInfo(info, lp_amount)
  OBVIOUS
<1>9. new = [schedules |-> <<sch>>, released_amount |-> 0]
  BY <1>1, <1>8 DEF MigratedInfo
<1>10. <<sch>> \in Seq(ValidSchedules) /\ TotalGranted(<<sch>>) = GrantedBy(sch)
  BY <1>7, OneSchedule
<1>11. TotalReleased(<<sch>>, t) \in Nat
  <2>1. PICK one : one = <<sch>>
    OBVIOUS
  <2>2. one \in Seq(ValidSchedules) /\ t <= t
    BY <1>10, <2>1
  <2>3. TotalReleased(one, t) \in Nat
    BY <2>2, ScheduleSums
  <2> QED BY <2>1, <2>3
<1>12. /\ new.schedules = <<sch>> /\ new.released_amount = 0 /\ new \in AccountInfos
  BY <1>9, <1>10 DEF AccountInfos
<1> QED BY <1>7, <1>8, <1>10, <1>11, <1>12 DEF Fair

\* A migrated account arrives in vesting-lp-pcl with lp_amount LP tokens: an
\* account that was there is overwritten, what it was owed stays in the totals.
LEMMA ArriveBooks ==
    ASSUME NEW t \in Nat, NEW infos, NEW state, NEW balance,
           AccountsOK(infos, t), BooksOK(FALSE, infos, state, balance),
           NEW u \in Users, NEW info, Fair(info, t), info.released_amount = 0,
           NEW lp_amount \in Nat, TotalGranted(info.schedules) \in Nat,
           TotalGranted(info.schedules) <= lp_amount
    PROVE  /\ AccountsOK(handle_migrate_xyk_liquidity(infos, state, u, info).infos, t)
           /\ BooksOK(FALSE, handle_migrate_xyk_liquidity(infos, state, u, info).infos,
                      handle_migrate_xyk_liquidity(infos, state, u, info).state,
                      balance + lp_amount)
<1>1. PICK new, old, g, st :
          /\ new = Put(infos, u, info) /\ old = StateOf(state)
          /\ g = TotalGranted(info.schedules)
          /\ st = [old EXCEPT !.total_granted = @ + g]
  OBVIOUS
<1>2. /\ handle_migrate_xyk_liquidity(infos, state, u, info).infos = new
      /\ handle_migrate_xyk_liquidity(infos, state, u, info).state = st
  BY <1>1 DEF handle_migrate_xyk_liquidity, Put, StateOf
<1>3. /\ AccountsOK(new, t)
      /\ TotalOf(Granted(new)) = TotalOf(Granted(infos)) + g - Granted(infos)[u]
      /\ TotalOf(Paid(new)) = TotalOf(Paid(infos)) + 0 - Paid(infos)[u]
  BY <1>1, PutAccount
<1>4. /\ Granted(infos)[u] \in Nat /\ Paid(infos)[u] \in Nat
      /\ Paid(infos)[u] <= Granted(infos)[u]
      /\ TotalOf(Granted(infos)) \in Nat /\ TotalOf(Paid(infos)) \in Nat
  BY VectorsNat
<1>5. /\ Owed(infos) = TotalOf(Granted(infos)) - TotalOf(Paid(infos))
      /\ Owed(new) = TotalOf(Granted(new)) - TotalOf(Paid(new))
      /\ Owed(infos) \in Nat /\ Owed(new) \in Nat
  BY <1>3, SumsOverUsers
<1>6. Owed(new) <= Owed(infos) + g
  BY <1>1, <1>3, <1>4, <1>5
<1>7. old \in VestingStates /\ Owed(infos) <= old.total_granted - old.total_released
  <2>1. CASE state = NONE
    <3>1. old = [total_granted |-> 0, total_released |-> 0] /\ DOMAIN infos = {}
      BY <1>1, <2>1 DEF StateOf, BooksOK
    <3>2. Owed(infos) = 0
      BY <3>1, NoBooks
    <3> QED BY <3>1, <3>2 DEF VestingStates
  <2>2. CASE state # NONE
    BY <1>1, <2>2 DEF StateOf, BooksOK
  <2> QED BY <2>1, <2>2
<1>8. /\ st \in VestingStates
      /\ st.total_granted = old.total_granted + g /\ st.total_released = old.total_released
      /\ old.total_granted \in Nat /\ old.total_released \in Nat
  BY <1>1, <1>7 DEF VestingStates
<1>9. st # NONE
  BY <1>8, OptionAssumption
<1>10. balance \in Nat /\ Owed(infos) <= balance
  BY DEF BooksOK
<1>11. balance + lp_amount \in Nat /\ Owed(new) <= balance + lp_amount
  BY <1>1, <1>5, <1>6, <1>10
<1>12. Owed(new) <= st.total_granted - st.total_released
  BY <1>1, <1>5, <1>6, <1>7, <1>8
<1>13. BooksOK(FALSE, new, st, balance + lp_amount)
  BY <1>8, <1>9, <1>11, <1>12 DEF BooksOK
<1> QED BY <1>2, <1>3, <1>13
\* Only the two LP vesting contracts can be migrated between; they are not
\* managed.
LEMMA Extensions ==
    /\ \A c \in Vestings : extensions[c].managed \in BOOLEAN
    /\ extensions["lp"].managed = FALSE /\ extensions["pcl"].managed = FALSE
<1>1. extensions["lp"].managed = FALSE /\ extensions["pcl"].managed = FALSE
  BY DEF extensions
<1>2. extensions["investors"].managed = TRUE /\ extensions["lti"].managed = TRUE
  BY DEF extensions
<1> QED BY <1>1, <1>2 DEF Vestings
-----------------------------------------------------------------------------
(***************************************************************************)
(* The books of a contract that also stores accounts no tokens came for, h, *)
(* which have claimed k so far. Its other accounts keep the books of above, *)
(* as if what h claimed were still there: the balance with k, the total     *)
(* released without it.                                                     *)
(***************************************************************************)
StoredInfos == [schedules : Seq(Schedules), released_amount : Nat]

\* The accounts have their types, of whatever content.
StoredOK(infos) ==
    /\ DOMAIN infos \subseteq Users
    /\ infos = [u \in DOMAIN infos |-> infos[u]]
    /\ \A u \in DOMAIN infos : infos[u] \in StoredInfos

\* VESTING_STATE without the claims k.
Credited(state, k) ==
    IF state = NONE THEN NONE ELSE [state EXCEPT !.total_released = @ - k]

\* The claims k are part of the total released.
ClaimsOK(state, k) == IF state = NONE THEN k = 0 ELSE k <= state.total_released

\* The ledger of contract c at time t; only vesting-lp-pcl stores accounts that
\* no tokens come for.
LedgerOK(c, infos, state, balance, h, k, t) ==
    /\ StoredOK(infos) /\ state \in VestingStates \cup {NONE} /\ balance \in Nat
    /\ h \in SUBSET Users /\ k \in Nat
    /\ c # "pcl" => h = {} /\ k = 0
    /\ state = NONE => DOMAIN infos = {}
    /\ ClaimsOK(state, k)
    /\ AccountsOK(Without(infos, h), t)
    /\ BooksOK(extensions[c].managed, Without(infos, h), Credited(state, k), balance + k)

\* Fair accounts have the types of stored ones.
LEMMA FairStored ==
    ASSUME NEW t, NEW info, Fair(info, t)
    PROVE  info \in StoredInfos
<1>1. PICK s : s = info.schedules
  OBVIOUS
<1>2. info \in AccountInfos /\ s \in Seq(ValidSchedules)
  BY <1>1 DEF Fair, AccountInfos
<1>3. s \in Seq(Schedules)
  BY <1>2 DEF ValidSchedules
<1> QED BY <1>1, <1>2, <1>3 DEF AccountInfos, StoredInfos

\* Where every account came with its tokens, the ledger is the books.
LEMMA PlainLedger ==
    ASSUME NEW c, NEW infos, NEW state, NEW balance, NEW t
    PROVE  LedgerOK(c, infos, state, balance, {}, 0, t)
             <=> /\ AccountsOK(infos, t)
                 /\ BooksOK(extensions[c].managed, infos, state, balance)
<1>1. ASSUME infos = [u \in DOMAIN infos |-> infos[u]] PROVE Without(infos, {}) = infos
  <2>1. DOMAIN infos \ {} = DOMAIN infos
    OBVIOUS
  <2> QED BY <1>1, <2>1 DEF Without
<1>2. ASSUME state \in VestingStates \cup {NONE} PROVE Credited(state, 0) = state
  BY <1>2 DEF Credited, VestingStates
<1>3. ASSUME balance \in Nat PROVE balance + 0 = balance
  BY <1>3
<1>4. ASSUME LedgerOK(c, infos, state, balance, {}, 0, t)
      PROVE  AccountsOK(infos, t) /\ BooksOK(extensions[c].managed, infos, state, balance)
  <2>1. Without(infos, {}) = infos /\ Credited(state, 0) = state /\ balance + 0 = balance
    BY <1>1, <1>2, <1>3, <1>4 DEF LedgerOK, StoredOK
  <2> QED BY <1>4, <2>1 DEF LedgerOK
<1>5. ASSUME AccountsOK(infos, t), BooksOK(extensions[c].managed, infos, state, balance)
      PROVE  LedgerOK(c, infos, state, balance, {}, 0, t)
  <2>1. Without(infos, {}) = infos /\ Credited(state, 0) = state /\ balance + 0 = balance
    BY <1>1, <1>2, <1>3, <1>5 DEF AccountsOK, BooksOK
  <2>2. StoredOK(infos)
    BY <1>5, FairStored DEF AccountsOK, StoredOK
  <2>3. state \in VestingStates \cup {NONE} /\ balance \in Nat
        /\ (state = NONE => DOMAIN infos = {})
    BY <1>5 DEF BooksOK
  <2>4. ClaimsOK(state, 0)
    BY <2>3 DEF ClaimsOK, VestingStates
  <2> QED BY <1>5, <2>1, <2>2, <2>3, <2>4 DEF LedgerOK
<1> QED BY <1>4, <1>5

\* What schedules grant is a natural, validated or not.
LEMMA GrantedNat ==
    ASSUME NEW s \in Seq(Schedules)
    PROVE  TotalGranted(s) \in Nat
<1>1. DOMAIN s = 1..Len(s) /\ Len(s) \in Nat
  OBVIOUS
<1>2. IsFiniteSet(DOMAIN s)
  BY <1>1, FS_Interval
<1>3. ASSUME NEW i \in DOMAIN s PROVE Grants(s)[i] \in Nat
  <2>1. s[i] \in Schedules
    BY <1>1
  <2>2. PICK sch \in Schedules : sch = s[i]
    BY <2>1
  <2>3. GrantedBy(sch) \in Nat
    BY DEF GrantedBy, Schedules, SchedulePoints
  <2> QED BY <2>2, <2>3 DEF Grants
<1> QED BY <1>2, <1>3, SumNat, TotalsAreSums

\* Setting one account.
LEMMA PutStored ==
    ASSUME NEW infos, StoredOK(infos), NEW u \in Users, NEW info \in StoredInfos
    PROVE  StoredOK(Put(infos, u, info))
BY DEF StoredOK, Put

\* A contract is in the state StateOf before its first VESTING_STATE as well.
LEMMA StateBooks ==
    ASSUME NEW infos, NEW state, NEW balance, BooksOK(FALSE, infos, state, balance)
    PROVE  /\ StateOf(state) \in VestingStates /\ StateOf(state) # NONE
           /\ BooksOK(FALSE, infos, StateOf(state), balance)
<1>1. StateOf(state) \in VestingStates
  BY DEF StateOf, BooksOK, VestingStates
<1>2. StateOf(state) # NONE
  BY <1>1, OptionAssumption
<1>3. CASE state = NONE
  <2>1. StateOf(state).total_granted = 0 /\ StateOf(state).total_released = 0
    BY <1>3 DEF StateOf
  <2>2. Owed(infos) = 0
    BY <1>3, NoBooks DEF BooksOK
  <2> QED BY <1>1, <1>2, <2>1, <2>2 DEF BooksOK
<1>4. CASE state # NONE
  BY <1>1, <1>2, <1>4 DEF StateOf
<1> QED BY <1>1, <1>2, <1>3, <1>4

\* More tokens and a larger total do the books no harm.
LEMMA MoreBooks ==
    ASSUME NEW t \in Nat, NEW infos, NEW state, NEW balance,
           AccountsOK(infos, t), BooksOK(FALSE, infos, state, balance),
           NEW g \in Nat, NEW more \in Nat
    PROVE  BooksOK(FALSE, infos, [StateOf(state) EXCEPT !.total_granted = @ + g],
                   balance + more)
<1>1. PICK old, st : old = StateOf(state) /\ st = [old EXCEPT !.total_granted = @ + g]
  OBVIOUS
<1>2. /\ old \in VestingStates /\ balance \in Nat /\ Owed(infos) <= balance
      /\ Owed(infos) <= old.total_granted - old.total_released
  BY <1>1, StateBooks DEF BooksOK
<1>3. /\ old.total_granted \in Nat /\ old.total_released \in Nat
      /\ st.total_granted = old.total_granted + g /\ st.total_released = old.total_released
      /\ st \in VestingStates
  BY <1>1, <1>2 DEF VestingStates
<1>4. st # NONE
  BY <1>3, OptionAssumption
<1>5. Owed(infos) \in Nat
  BY SumsOverUsers
<1>6. balance + more \in Nat /\ Owed(infos) <= balance + more
  BY <1>2, <1>5
<1>7. Owed(infos) <= st.total_granted - st.total_released
  BY <1>2, <1>3, <1>5
<1> QED BY <1>1, <1>3, <1>4, <1>6, <1>7 DEF BooksOK

\* Nor do fewer accounts.
LEMMA FewerBooks ==
    ASSUME NEW t \in Nat, NEW infos, NEW state, NEW balance,
           AccountsOK(infos, t), BooksOK(FALSE, infos, state, balance),
           NEW S \in SUBSET DOMAIN infos
    PROVE  AccountsOK(Without(infos, S), t) /\ BooksOK(FALSE, Without(infos, S), state, balance)
<1>1. PICK new, g, p : /\ new = Without(infos, S)
                       /\ g = GrantedTo(infos, S) /\ p = PaidTo(infos, S)
  OBVIOUS
<1>2. g \in Nat /\ p \in Nat /\ g - p \in Nat
  BY <1>1, SumsOfAccounts
<1>3. /\ AccountsOK(new, t)
      /\ TotalOf(Granted(new)) = TotalOf(Granted(infos)) - g
      /\ TotalOf(Paid(new)) = TotalOf(Paid(infos)) - p
  BY <1>1, RemoveAccounts
<1>4. /\ Owed(infos) = TotalOf(Granted(infos)) - TotalOf(Paid(infos))
      /\ Owed(new) = TotalOf(Granted(new)) - TotalOf(Paid(new))
      /\ Owed(infos) \in Nat /\ Owed(new) \in Nat
      /\ TotalOf(Granted(infos)) \in Nat /\ TotalOf(Paid(infos)) \in Nat
  BY <1>3, SumsOverUsers, VectorsNat
<1>5. Owed(new) <= Owed(infos)
  BY <1>2, <1>3, <1>4
<1>6. /\ balance \in Nat /\ Owed(infos) <= balance /\ state \in VestingStates \cup {NONE}
      /\ state # NONE => Owed(infos) <= state.total_granted - state.total_released
      /\ state = NONE => DOMAIN infos = {}
  BY DEF BooksOK
<1>7. DOMAIN new \subseteq DOMAIN infos
  BY <1>1 DEF Without
<1>8. Owed(new) <= balance
  BY <1>4, <1>5, <1>6
<1>9. ASSUME state # NONE PROVE Owed(new) <= state.total_granted - state.total_released
  <2>1. state.total_granted \in Nat /\ state.total_released \in Nat
    BY <1>6, <1>9 DEF VestingStates
  <2> QED BY <1>4, <1>5, <1>6, <1>9, <2>1
<1> QED BY <1>1, <1>3, <1>6, <1>7, <1>8, <1>9 DEF BooksOK

\* The credited state is a VESTING_STATE, where there is one.
LEMMA CreditedState ==
    ASSUME NEW state \in VestingStates \cup {NONE}, NEW k \in Nat, ClaimsOK(state, k)
    PROVE  /\ state = NONE => Credited(state, k) = NONE
           /\ state # NONE => /\ Credited(state, k) \in VestingStates
                              /\ Credited(state, k) # NONE
<1>1. CASE state = NONE
  BY <1>1 DEF Credited
<1>2. CASE state # NONE
  <2>1. /\ state \in VestingStates /\ state.total_released \in Nat
        /\ k <= state.total_released
        /\ Credited(state, k) = [state EXCEPT !.total_released = @ - k]
    BY <1>2 DEF ClaimsOK, Credited, VestingStates
  <2>2. state.total_released - k \in Nat
    BY <2>1
  <2>3. Credited(state, k) \in VestingStates
    BY <2>1, <2>2 DEF VestingStates
  <2> QED BY <1>2, <2>3, OptionAssumption
<1> QED BY <1>1, <1>2

\* Crediting the claims goes with a larger total granted.
LEMMA CreditGranted ==
    ASSUME NEW state \in VestingStates \cup {NONE}, NEW k \in Nat, NEW g \in Nat,
           ClaimsOK(state, k)
    PROVE  /\ [StateOf(state) EXCEPT !.total_granted = @ + g] \in VestingStates
           /\ [StateOf(state) EXCEPT !.total_granted = @ + g] # NONE
           /\ ClaimsOK([StateOf(state) EXCEPT !.total_granted = @ + g], k)
           /\ Credited([StateOf(state) EXCEPT !.total_granted = @ + g], k)
                = [StateOf(Credited(state, k)) EXCEPT !.total_granted = @ + g]
<1>1. PICK old, st : old = StateOf(state) /\ st = [old EXCEPT !.total_granted = @ + g]
  OBVIOUS
<1>2. /\ old \in VestingStates /\ st \in VestingStates
      /\ st.total_released = old.total_released
  BY <1>1 DEF StateOf, VestingStates
<1>3. st # NONE
  BY <1>2, OptionAssumption
<1>4. /\ k <= old.total_released
      /\ StateOf(Credited(state, k)) = [old EXCEPT !.total_released = @ - k]
  <2>1. CASE state = NONE
    <3>1. old = [total_granted |-> 0, total_released |-> 0] /\ k = 0
      BY <1>1, <2>1 DEF StateOf, ClaimsOK
    <3>2. StateOf(Credited(state, k)) = old
      BY <1>1, <2>1 DEF Credited, StateOf
    <3> QED BY <3>1, <3>2
  <2>2. CASE state # NONE
    <3>1. /\ old = state /\ Credited(state, k) = [state EXCEPT !.total_released = @ - k]
          /\ k <= state.total_released
      BY <1>1, <2>2 DEF StateOf, Credited, ClaimsOK
    <3> QED BY <2>2, <3>1, CreditedState DEF StateOf
  <2> QED BY <2>1, <2>2
<1>5. Credited(st, k) = [st EXCEPT !.total_released = @ - k]
  BY <1>3 DEF Credited
<1>6. [st EXCEPT !.total_released = @ - k]
        = [[old EXCEPT !.total_released = @ - k] EXCEPT !.total_granted = @ + g]
  BY <1>1, <1>2 DEF VestingStates
<1> QED BY <1>1, <1>2, <1>3, <1>4, <1>5, <1>6 DEF ClaimsOK

\* An account that no tokens came for is stored.
LEMMA DirectLedger ==
    ASSUME NEW t \in Nat, NEW infos, NEW state, NEW balance, NEW h, NEW k,
           LedgerOK("pcl", infos, state, balance, h, k, t),
           NEW u \in Users, NEW info \in StoredInfos
    PROVE  LedgerOK("pcl", handle_migrate_xyk_liquidity(infos, state, u, info).infos,
                    handle_migrate_xyk_liquidity(infos, state, u, info).state,
                    balance, h \cup {u}, k, t)
<1>1. PICK funded, cs, g, new, st, S :
          /\ funded = Without(infos, h) /\ cs = Credited(state, k)
          /\ g = TotalGranted(info.schedules)
          /\ new = Put(infos, u, info)
          /\ st = [StateOf(state) EXCEPT !.total_granted = @ + g]
          /\ S = {u} \cap DOMAIN funded
  OBVIOUS
<1>2. /\ handle_migrate_xyk_liquidity(infos, state, u, info).infos = new
      /\ handle_migrate_xyk_liquidity(infos, state, u, info).state = st
  BY <1>1 DEF handle_migrate_xyk_liquidity, Put, StateOf
<1>3. /\ StoredOK(infos) /\ state \in VestingStates \cup {NONE} /\ balance \in Nat
      /\ h \in SUBSET Users /\ k \in Nat /\ ClaimsOK(state, k)
      /\ AccountsOK(funded, t) /\ BooksOK(FALSE, funded, cs, balance + k)
  BY <1>1 DEF LedgerOK, BooksOK
<1>4. g \in Nat
  BY <1>1, GrantedNat DEF StoredInfos
<1>5. Without(new, h \cup {u}) = Without(funded, S)
  BY <1>1, <1>3 DEF Put, Without, StoredOK
<1>6. AccountsOK(Without(funded, S), t) /\ BooksOK(FALSE, Without(funded, S), cs, balance + k)
  BY <1>1, <1>3, FewerBooks
<1>7. /\ st \in VestingStates /\ st # NONE /\ ClaimsOK(st, k)
      /\ Credited(st, k) = [StateOf(cs) EXCEPT !.total_granted = @ + g]
  BY <1>1, <1>3, <1>4, CreditGranted
<1>8. BooksOK(FALSE, Without(funded, S), Credited(st, k), balance + k + 0)
  <2>1. PICK i, b : i = Without(funded, S) /\ b = balance + k
    OBVIOUS
  <2>2. AccountsOK(i, t) /\ BooksOK(FALSE, i, cs, b) /\ 0 \in Nat
    BY <1>6, <2>1
  <2>3. BooksOK(FALSE, i, [StateOf(cs) EXCEPT !.total_granted = @ + g], b + 0)
    BY <1>4, <2>2, MoreBooks
  <2> QED BY <1>7, <2>1, <2>3
<1>9. balance + k + 0 = balance + k
  BY <1>3
<1>10. StoredOK(new)
  BY <1>1, <1>3, PutStored
<1> QED BY <1>2, <1>3, <1>5, <1>6, <1>7, <1>8, <1>9, <1>10, Extensions DEF LedgerOK

\* A migrated account arrives in vesting-lp-pcl with lp_amount LP tokens.
LEMMA ArriveLedger ==
    ASSUME NEW t \in Nat, NEW infos, NEW state, NEW balance, NEW h, NEW k,
           LedgerOK("pcl", infos, state, balance, h, k, t),
           NEW u \in Users, NEW info, Fair(info, t), info.released_amount = 0,
           NEW lp_amount \in Nat, TotalGranted(info.schedules) \in Nat,
           TotalGranted(info.schedules) <= lp_amount
    PROVE  LedgerOK("pcl", handle_migrate_xyk_liquidity(infos, state, u, info).infos,
                    handle_migrate_xyk_liquidity(infos, state, u, info).state,
                    balance + lp_amount, h, k, t)
<1>1. PICK funded, cs, g, new, st :
          /\ funded = Without(infos, h) /\ cs = Credited(state, k)
          /\ g = TotalGranted(info.schedules)
          /\ new = Put(infos, u, info)
          /\ st = [StateOf(state) EXCEPT !.total_granted = @ + g]
  OBVIOUS
<1>2. /\ handle_migrate_xyk_liquidity(infos, state, u, info).infos = new
      /\ handle_migrate_xyk_liquidity(infos, state, u, info).state = st
  BY <1>1 DEF handle_migrate_xyk_liquidity, Put, StateOf
<1>3. /\ StoredOK(infos) /\ state \in VestingStates \cup {NONE} /\ balance \in Nat
      /\ h \in SUBSET Users /\ k \in Nat /\ ClaimsOK(state, k)
      /\ AccountsOK(funded, t) /\ BooksOK(FALSE, funded, cs, balance + k)
  BY <1>1 DEF LedgerOK, BooksOK
<1>4. /\ st \in VestingStates /\ st # NONE /\ ClaimsOK(st, k)
      /\ Credited(st, k) = [StateOf(cs) EXCEPT !.total_granted = @ + g]
  BY <1>1, <1>3, CreditGranted
<1>5. StoredOK(new)
  BY <1>1, <1>3, FairStored, PutStored
<1>6. /\ balance + k + lp_amount = (balance + lp_amount) + k
      /\ balance + lp_amount \in Nat /\ balance + k \in Nat
  BY <1>3
<1>7. AccountsOK(Without(new, h), t)
      /\ BooksOK(FALSE, Without(new, h), Credited(st, k), balance + k + lp_amount)
  <2>1. CASE u \in h
    <3>1. Without(new, h) = funded
      BY <1>1, <1>3, <2>1 DEF Put, Without, StoredOK
    <3>2. BooksOK(FALSE, funded, Credited(st, k), balance + k + lp_amount)
      <4>1. PICK b : b = balance + k
        OBVIOUS
      <4>2. BooksOK(FALSE, funded, cs, b) /\ g \in Nat
        BY <1>1, <1>3, <4>1
      <4>3. BooksOK(FALSE, funded, [StateOf(cs) EXCEPT !.total_granted = @ + g], b + lp_amount)
        BY <1>3, <4>2, MoreBooks
      <4> QED BY <1>4, <4>1, <4>3
    <3> QED BY <1>3, <3>1, <3>2
  <2>2. CASE u \notin h
    <3>1. Without(new, h) = Put(funded, u, info)
      BY <1>1, <1>3, <2>2 DEF Put, Without, StoredOK
    <3>2. /\ handle_migrate_xyk_liquidity(funded, cs, u, info).infos = Put(funded, u, info)
          /\ handle_migrate_xyk_liquidity(funded, cs, u, info).state = Credited(st, k)
      BY <1>1, <1>4 DEF handle_migrate_xyk_liquidity, Put, StateOf
    <3> QED BY <1>3, <3>1, <3>2, ArriveBooks
  <2> QED BY <2>1, <2>2
<1> QED BY <1>2, <1>3, <1>4, <1>5, <1>6, <1>7, Extensions DEF LedgerOK

\* A registration with its tokens, on top of accounts of either kind.
LEMMA RegisterLedger ==
    ASSUME NEW t \in Nat, NEW infos, NEW state, NEW balance, NEW h, NEW k,
           LedgerOK("pcl", infos, state, balance, h, k, t),
           NEW accounts, RequestOK(accounts)
    PROVE  LedgerOK("pcl", Registered(infos, accounts),
                    [StateOf(state) EXCEPT !.total_granted = @ + NewGrants(accounts)],
                    balance + NewGrants(accounts), h, k, t)
<1>1. PICK funded, cs, n, m, new, st, rest :
          /\ funded = Without(infos, h) /\ cs = Credited(state, k)
          /\ new = Registered(infos, accounts)
          /\ rest = [u \in DOMAIN accounts \ h |-> accounts[u]]
          /\ n = NewGrants(accounts) /\ m = NewGrants(rest)
          /\ st = [StateOf(state) EXCEPT !.total_granted = @ + n]
  OBVIOUS
<1>2. /\ StoredOK(infos) /\ state \in VestingStates \cup {NONE} /\ balance \in Nat
      /\ h \in SUBSET Users /\ k \in Nat /\ ClaimsOK(state, k)
      /\ AccountsOK(funded, t) /\ BooksOK(FALSE, funded, cs, balance + k)
  BY <1>1 DEF LedgerOK, BooksOK
<1>3. RequestOK(rest) /\ DOMAIN rest = DOMAIN accounts \ h
      /\ \A u \in DOMAIN rest : rest[u] = accounts[u]
  BY <1>1 DEF RequestOK
<1>4. n \in Nat /\ m \in Nat /\ n - m \in Nat
  <2> DEFINE a == [u \in DOMAIN accounts |-> TotalGranted(accounts[u])]
             r == [u \in DOMAIN rest |-> TotalGranted(rest[u])]
  <2>1. IsFiniteSet(DOMAIN accounts) /\ IsFiniteSet(DOMAIN rest)
        /\ DOMAIN rest \in SUBSET DOMAIN accounts
    BY <1>3, UsersFinite DEF RequestOK
  <2>2. \A u \in DOMAIN accounts : a[u] \in Nat
    <3>1. ASSUME NEW u \in DOMAIN accounts PROVE TotalGranted(accounts[u]) \in Nat
      <4>1. PICK s \in Seq(ValidSchedules) : s = accounts[u]
        BY DEF RequestOK
      <4>2. s \in Seq(Schedules)
        BY DEF ValidSchedules
      <4> QED BY <4>1, <4>2, GrantedNat
    <3> QED BY <3>1
  <2>3. \A u \in DOMAIN rest : r[u] = a[u]
    BY <1>3
  <2>4. n = SumOver(a, DOMAIN accounts) /\ m = SumOver(r, DOMAIN rest)
    BY <1>1 DEF NewGrants
  <2> HIDE DEF a, r
  <2>5. m = SumOver(a, DOMAIN rest)
    BY <2>1, <2>3, <2>4, SumEqual
  <2>6. n \in Nat
    BY <2>1, <2>2, <2>4, SumNat
  <2>7. m \in Nat
    BY <2>1, <2>2, <2>5, SumNat
  <2>8. m <= n
    BY <2>1, <2>2, <2>4, <2>5, SumSubset
  <2> QED BY <2>6, <2>7, <2>8
<1>5. Without(new, h) = Registered(funded, rest)
  <2>1. /\ DOMAIN Without(new, h) = (DOMAIN infos \cup DOMAIN accounts) \ h
        /\ \A u \in DOMAIN Without(new, h) : Without(new, h)[u] = new[u]
        /\ Without(new, h) = [u \in DOMAIN Without(new, h) |-> Without(new, h)[u]]
    BY <1>1 DEF Without, Registered
  <2>2. DOMAIN Registered(funded, rest) = (DOMAIN infos \ h) \cup (DOMAIN accounts \ h)
        /\ Registered(funded, rest)
             = [u \in DOMAIN Registered(funded, rest) |-> Registered(funded, rest)[u]]
    BY <1>1, <1>3 DEF Without, Registered
  <2>3. ASSUME NEW u \in (DOMAIN infos \cup DOMAIN accounts) \ h
        PROVE  new[u] = Registered(funded, rest)[u]
    <3>1. u \in DOMAIN infos => u \in DOMAIN funded /\ funded[u] = infos[u]
      BY <1>1 DEF Without
    <3>2. u \in DOMAIN accounts => u \in DOMAIN rest /\ rest[u] = accounts[u]
      BY <1>3
    <3>3. DOMAIN funded \subseteq DOMAIN infos /\ DOMAIN rest \subseteq DOMAIN accounts
      BY <1>1, <1>3 DEF Without
    <3> QED BY <1>1, <2>3, <3>1, <3>2, <3>3 DEF Registered
  <2>4. PICK f, g : f = Without(new, h) /\ g = Registered(funded, rest)
    OBVIOUS
  <2>5. DOMAIN f = DOMAIN g
    BY <2>1, <2>2, <2>4
  <2>6. \A u \in DOMAIN f : f[u] = g[u]
    BY <2>1, <2>3, <2>4
  <2>7. f = [u \in DOMAIN f |-> f[u]] /\ g = [u \in DOMAIN g |-> g[u]]
    <3>1. f = [u \in DOMAIN f |-> f[u]]
      BY <2>4 DEF Without
    <3>2. g = [u \in DOMAIN g |-> g[u]]
      BY <2>4 DEF Registered
    <3> QED BY <3>1, <3>2
  <2>8. f = g
    BY <2>5, <2>6, <2>7
  <2> QED BY <2>4, <2>8
<1>6. StoredOK(new)
  <2>1. DOMAIN new = DOMAIN infos \cup DOMAIN accounts /\ new = [u \in DOMAIN new |-> new[u]]
    BY <1>1 DEF Registered
  <2>2. ASSUME NEW u \in DOMAIN new PROVE new[u] \in StoredInfos
    <3>1. CASE u \notin DOMAIN accounts
      <4>1. new[u] = infos[u] /\ u \in DOMAIN infos
        BY <1>1, <2>1, <3>1 DEF Registered
      <4> QED BY <1>2, <4>1 DEF StoredOK
    <3>2. CASE u \in DOMAIN accounts
      <4>1. PICK a \in Seq(Schedules) : a = accounts[u]
        <5>1. PICK s \in Seq(ValidSchedules) : s = accounts[u]
          BY <3>2 DEF RequestOK
        <5>2. s \in Seq(Schedules)
          BY DEF ValidSchedules
        <5> QED BY <5>1, <5>2
      <4>2. CASE u \notin DOMAIN infos
        <5>1. new[u] = [schedules |-> a, released_amount |-> 0]
          BY <1>1, <3>2, <4>1, <4>2 DEF Registered
        <5> QED BY <5>1 DEF StoredInfos
      <4>3. CASE u \in DOMAIN infos
        <5>1. PICK info \in StoredInfos : info = infos[u]
          BY <1>2, <4>3 DEF StoredOK
        <5>2. new[u] = [info EXCEPT !.schedules = a \o @]
          BY <1>1, <3>2, <4>1, <4>3, <5>1 DEF Registered
        <5>3. a \o info.schedules \in Seq(Schedules)
          BY DEF StoredInfos
        <5> QED BY <5>2, <5>3 DEF StoredInfos
      <4> QED BY <4>2, <4>3
    <3> QED BY <3>1, <3>2
  <2> QED BY <1>2, <2>1, <2>2 DEF StoredOK, RequestOK
<1>7. /\ st \in VestingStates /\ st # NONE /\ ClaimsOK(st, k)
      /\ Credited(st, k) = [StateOf(cs) EXCEPT !.total_granted = @ + n]
  BY <1>1, <1>2, <1>4, CreditGranted
<1>8. PICK i, b, s, d : /\ i = Registered(funded, rest) /\ b = balance + k
                        /\ s = [StateOf(cs) EXCEPT !.total_granted = @ + m] /\ d = n - m
  OBVIOUS
<1>9. AccountsOK(i, t) /\ BooksOK(FALSE, i, s, b + m)
  BY <1>1, <1>2, <1>3, <1>8, RegisterBooks
<1>10. BooksOK(FALSE, i, [StateOf(s) EXCEPT !.total_granted = @ + d], (b + m) + d)
  <2>1. PICK b2 : b2 = b + m
    OBVIOUS
  <2>2. BooksOK(FALSE, i, [StateOf(s) EXCEPT !.total_granted = @ + d], b2 + d)
    BY <1>4, <1>8, <1>9, <2>1, MoreBooks
  <2> QED BY <2>1, <2>2
<1>11. [StateOf(s) EXCEPT !.total_granted = @ + d] = Credited(st, k)
  <2>1. PICK old \in VestingStates : old = StateOf(cs)
    BY <1>2, StateBooks
  <2>2. s \in VestingStates /\ s = [old EXCEPT !.total_granted = @ + m]
        /\ s.total_granted = old.total_granted + m
    BY <1>4, <1>8, <2>1 DEF VestingStates
  <2>3. StateOf(s) = s
    BY <2>2, OptionAssumption DEF StateOf
  <2>4. old.total_granted + m + d = old.total_granted + n /\ old.total_granted \in Nat
    BY <1>4, <1>8, <2>1 DEF VestingStates
  <2>5. [s EXCEPT !.total_granted = @ + d] = [old EXCEPT !.total_granted = @ + n]
    BY <2>2, <2>4 DEF VestingStates
  <2> QED BY <1>7, <2>1, <2>3, <2>5
<1>12. (b + m) + d = (balance + n) + k /\ balance + n \in Nat
  BY <1>2, <1>4, <1>8
<1> QED BY <1>1, <1>2, <1>5, <1>6, <1>7, <1>8, <1>9, <1>10, <1>11, <1>12, Extensions DEF LedgerOK

\* A claim, by an account of either kind.
LEMMA ClaimLedger ==
    ASSUME NEW t \in Nat, NEW infos, NEW state, NEW balance, NEW h, NEW k,
           LedgerOK("pcl", infos, state, balance, h, k, t),
           NEW u \in DOMAIN infos, NEW amount \in Nat, amount <= balance,
           u \notin h => amount <= TotalReleased(infos[u].schedules, t)
                                     - infos[u].released_amount
    PROVE  LedgerOK("pcl", [infos EXCEPT ![u].released_amount = @ + amount],
                    [state EXCEPT !.total_released = @ + amount], balance - amount,
                    h, IF u \in h THEN k + amount ELSE k, t)
<1>1. PICK funded, cs, new, st, b :
          /\ funded = Without(infos, h) /\ cs = Credited(state, k)
          /\ new = [infos EXCEPT ![u].released_amount = @ + amount]
          /\ st = [state EXCEPT !.total_released = @ + amount] /\ b = balance + k
  OBVIOUS
<1>2. /\ StoredOK(infos) /\ state \in VestingStates /\ balance \in Nat
      /\ h \in SUBSET Users /\ k \in Nat /\ k <= state.total_released
      /\ AccountsOK(funded, t) /\ BooksOK(FALSE, funded, cs, b)
  BY <1>1 DEF LedgerOK, BooksOK, ClaimsOK
<1>3. state # NONE
  BY <1>2, OptionAssumption
<1>4. /\ st \in VestingStates /\ st.total_released = state.total_released + amount
      /\ state.total_released \in Nat
  BY <1>1, <1>2 DEF VestingStates
<1>5. st # NONE
  BY <1>4, OptionAssumption
<1>6. StoredOK(new)
  <2>1. infos[u] \in StoredInfos /\ infos[u].released_amount + amount \in Nat
    BY <1>2 DEF StoredOK, StoredInfos
  <2>2. PICK info : info = [infos[u] EXCEPT !.released_amount = @ + amount]
    OBVIOUS
  <2>3. info \in StoredInfos
    BY <2>1, <2>2 DEF StoredInfos
  <2>4. new = [infos EXCEPT ![u] = info]
    BY <1>1, <2>2
  <2> QED BY <1>2, <2>3, <2>4 DEF StoredOK
<1>7. balance - amount \in Nat
  BY <1>2
<1>8. PICK g \in Nat, r \in Nat :
           /\ state = [total_granted |-> g, total_released |-> r]
           /\ st = [total_granted |-> g, total_released |-> r + amount]
           /\ cs = [total_granted |-> g, total_released |-> r - k]
  <2>1. PICK g \in Nat, r \in Nat : state = [total_granted |-> g, total_released |-> r]
    BY <1>2 DEF VestingStates
  <2> QED BY <1>1, <1>3, <2>1 DEF Credited
<1>9. CASE u \in h
  <2>1. Without(new, h) = funded
    BY <1>1, <1>2, <1>9 DEF Without, StoredOK
  <2>2. Credited(st, k + amount) = cs
    <3>1. Credited(st, k + amount) = [total_granted |-> g, total_released |-> (r + amount) - (k + amount)]
      BY <1>5, <1>8 DEF Credited
    <3>2. (r + amount) - (k + amount) = r - k
      BY <1>2, <1>8
    <3> QED BY <1>8, <3>1, <3>2
  <2>3. (balance - amount) + (k + amount) = b /\ k + amount \in Nat
        /\ k + amount <= st.total_released
    BY <1>1, <1>2, <1>4
  <2>4. ClaimsOK(st, k + amount)
    BY <1>5, <2>3 DEF ClaimsOK
  <2>5. PICK l : l = k + amount
    OBVIOUS
  <2>6. LedgerOK("pcl", new, st, balance - amount, h, l, t)
    BY <1>2, <1>4, <1>5, <1>6, <1>7, <2>1, <2>2, <2>3, <2>4, <2>5, Extensions DEF LedgerOK
  <2> QED BY <1>1, <1>9, <2>5, <2>6
<1>10. CASE u \notin h
  <2>1. u \in DOMAIN funded /\ funded[u] = infos[u]
    BY <1>1, <1>10 DEF Without
  <2>2. Without(new, h) = [funded EXCEPT ![u].released_amount = @ + amount]
    BY <1>1, <1>2, <1>10 DEF Without, StoredOK
  <2>3. Credited(st, k) = [cs EXCEPT !.total_released = @ + amount]
    <3>1. Credited(st, k) = [total_granted |-> g, total_released |-> (r + amount) - k]
      BY <1>5, <1>8 DEF Credited
    <3>2. (r + amount) - k = (r - k) + amount
      BY <1>2, <1>8
    <3>3. [cs EXCEPT !.total_released = @ + amount]
            = [total_granted |-> g, total_released |-> (r - k) + amount]
      BY <1>8
    <3> QED BY <3>1, <3>2, <3>3
  <2>4. (balance - amount) + k = b - amount /\ amount <= b /\ k <= st.total_released
    BY <1>1, <1>2, <1>4
  <2>5. ClaimsOK(st, k)
    BY <1>5, <2>4 DEF ClaimsOK
  <2>6. AccountsOK(Without(new, h), t)
        /\ BooksOK(FALSE, Without(new, h), Credited(st, k), b - amount)
    <3>1. /\ FALSE \in BOOLEAN /\ u \in DOMAIN funded /\ amount <= b
          /\ amount <= TotalReleased(funded[u].schedules, t) - funded[u].released_amount
      BY <1>10, <2>1, <2>4
    <3>2. /\ AccountsOK([funded EXCEPT ![u].released_amount = @ + amount], t)
          /\ BooksOK(FALSE, [funded EXCEPT ![u].released_amount = @ + amount],
                     [cs EXCEPT !.total_released = @ + amount], b - amount)
      BY <1>2, <3>1, ClaimBooks
    <3> QED BY <2>2, <2>3, <3>2
  <2>7. LedgerOK("pcl", new, st, balance - amount, h, k, t)
    BY <1>2, <1>4, <1>5, <1>6, <1>7, <2>4, <2>5, <2>6, Extensions DEF LedgerOK
  <2> QED BY <1>1, <1>10, <2>7
<1> QED BY <1>9, <1>10
-----------------------------------------------------------------------------
(***************************************************************************)
(* The inductive invariant: the types of the fields that carry no tokens,   *)
(* the books of every contract, and the balances of vesting-lp that its     *)
(* migration measures.                                                      *)
(***************************************************************************)
FieldsOK ==
    /\ deployed \in Deployments
    /\ vesting_config \in [Vestings -> [owner : Senders, token_info_manager : Senders,
                                        vesting_token : VestingAssets \cup {NONE}]]
    /\ ownership_proposal \in [Vestings -> [owner : Senders, ttl : Nat] \cup {NONE}]
    /\ vesting_managers \in [Vestings -> SUBSET Senders]

\* A contract's books, every contract's books, and the migration's balances.
ContractOK(c) ==
    LedgerOK(c, vesting_info[c], vesting_state[c], token_balance[c],
             unfunded[c], unfunded_claims[c], now)

BooksInv ==
    /\ vesting_info  = [c \in Vestings |-> vesting_info[c]]
    /\ vesting_state = [c \in Vestings |-> vesting_state[c]]
    /\ token_balance = [c \in Vestings |-> token_balance[c]]
    /\ unfunded = [c \in Vestings |-> unfunded[c]]
    /\ unfunded_claims = [c \in Vestings |-> unfunded_claims[c]]
    /\ \A c \in Vestings : ContractOK(c)

HoldsOK == lp_holds \in [ntrn : Nat, paired : Nat, pcl_lp : Nat]

\* The inductive invariant of the vesting contracts.
VestingInv ==
    /\ now \in 0..MAX_TIME
    /\ registrations \in 0..MAX_REGISTRATIONS
    /\ FieldsOK /\ BooksInv /\ HoldsOK

\* In all contracts but vesting-lp-pcl every account came with its tokens.
LEMMA PlainContract ==
    ASSUME VestingInv, NEW c \in Vestings, c # "pcl"
    PROVE  /\ unfunded[c] = {} /\ unfunded_claims[c] = 0 /\ now \in Nat
           /\ AccountsOK(vesting_info[c], now)
           /\ BooksOK(extensions[c].managed, vesting_info[c], vesting_state[c], token_balance[c])
<1>1. ContractOK(c) /\ now \in Nat
  BY TimeAssumption DEF VestingInv, BooksInv
<1>2. unfunded[c] = {} /\ unfunded_claims[c] = 0
  BY <1>1 DEF ContractOK, LedgerOK
<1>3. LedgerOK(c, vesting_info[c], vesting_state[c], token_balance[c], {}, 0, now)
  BY <1>1, <1>2 DEF ContractOK
<1> QED BY <1>1, <1>2, <1>3, PlainLedger

\* The ledger of vesting-lp-pcl.
LEMMA PclContract ==
    ASSUME VestingInv
    PROVE  /\ "pcl" \in Vestings /\ now \in Nat
           /\ LedgerOK("pcl", vesting_info["pcl"], vesting_state["pcl"], token_balance["pcl"],
                       unfunded["pcl"], unfunded_claims["pcl"], now)
BY TimeAssumption DEF VestingInv, BooksInv, ContractOK, Vestings

\* A message to one contract leaves the books of the others alone.
LEMMA OneContract ==
    ASSUME VestingInv, now' = now, NEW c \in Vestings, NEW i, NEW s, NEW b, NEW h, NEW k,
           LedgerOK(c, i, s, b, h, k, now),
           vesting_info' = [vesting_info EXCEPT ![c] = i],
           vesting_state' = [vesting_state EXCEPT ![c] = s],
           token_balance' = [token_balance EXCEPT ![c] = b],
           unfunded' = [unfunded EXCEPT ![c] = h],
           unfunded_claims' = [unfunded_claims EXCEPT ![c] = k]
    PROVE  BooksInv'
<1>1. /\ vesting_info' = [d \in Vestings |-> IF d = c THEN i ELSE vesting_info[d]]
      /\ vesting_state' = [d \in Vestings |-> IF d = c THEN s ELSE vesting_state[d]]
      /\ token_balance' = [d \in Vestings |-> IF d = c THEN b ELSE token_balance[d]]
      /\ unfunded' = [d \in Vestings |-> IF d = c THEN h ELSE unfunded[d]]
      /\ unfunded_claims' = [d \in Vestings |-> IF d = c THEN k ELSE unfunded_claims[d]]
  BY DEF VestingInv, BooksInv
<1>2. /\ vesting_info'  = [d \in Vestings |-> vesting_info'[d]]
      /\ vesting_state' = [d \in Vestings |-> vesting_state'[d]]
      /\ token_balance' = [d \in Vestings |-> token_balance'[d]]
      /\ unfunded' = [d \in Vestings |-> unfunded'[d]]
      /\ unfunded_claims' = [d \in Vestings |-> unfunded_claims'[d]]
  BY <1>1
<1>3. ASSUME NEW d \in Vestings PROVE ContractOK(d)'
  <2>1. CASE d = c
    <3>1. /\ vesting_info'[d] = i /\ vesting_state'[d] = s /\ token_balance'[d] = b
          /\ unfunded'[d] = h /\ unfunded_claims'[d] = k
      BY <1>1, <2>1
    <3> QED BY <2>1, <3>1 DEF ContractOK
  <2>2. CASE d # c
    <3>1. /\ vesting_info'[d] = vesting_info[d] /\ vesting_state'[d] = vesting_state[d]
          /\ token_balance'[d] = token_balance[d]
          /\ unfunded'[d] = unfunded[d] /\ unfunded_claims'[d] = unfunded_claims[d]
      BY <1>1, <2>2
    <3>2. ContractOK(d)
      BY DEF VestingInv, BooksInv
    <3> QED BY <3>1, <3>2 DEF ContractOK
  <2> QED BY <2>1, <2>2
<1> QED BY <1>2, <1>3 DEF BooksInv

\* A message to one of the contracts whose accounts come with their tokens.
LEMMA OnePlain ==
    ASSUME VestingInv, now' = now, NEW c \in Vestings, c # "pcl", NEW i, NEW s, NEW b,
           AccountsOK(i, now), BooksOK(extensions[c].managed, i, s, b),
           vesting_info' = [vesting_info EXCEPT ![c] = i],
           vesting_state' = [vesting_state EXCEPT ![c] = s],
           token_balance' = [token_balance EXCEPT ![c] = b],
           UNCHANGED vestingHistory
    PROVE  BooksInv'
<1>1. LedgerOK(c, i, s, b, {}, 0, now)
  BY PlainLedger
<1>2. unfunded' = [unfunded EXCEPT ![c] = {}]
      /\ unfunded_claims' = [unfunded_claims EXCEPT ![c] = 0]
  <2>1. unfunded[c] = {} /\ unfunded_claims[c] = 0
    BY PlainContract
  <2> QED BY <2>1 DEF VestingInv, BooksInv, vestingHistory
<1> QED BY <1>1, <1>2, OneContract

\* The clock moves, the books do not.
LEMMA BooksLater ==
    ASSUME VestingInv, now' \in Nat, now <= now',
           UNCHANGED <<vesting_info, vesting_state, token_balance, vestingHistory>>
    PROVE  BooksInv'
<1>1. ASSUME NEW d \in Vestings PROVE ContractOK(d)'
  <2>1. ContractOK(d) /\ now \in Nat
    BY TimeAssumption DEF VestingInv, BooksInv
  <2>2. PICK funded : funded = Without(vesting_info[d], unfunded[d])
    OBVIOUS
  <2>3. AccountsOK(funded, now')
    BY <2>1, <2>2, FairLater DEF ContractOK, LedgerOK
  <2> QED BY <2>1, <2>2, <2>3 DEF ContractOK, LedgerOK, vestingHistory
<1> QED BY <1>1 DEF VestingInv, BooksInv, vestingHistory

\* What a claim pays is what was released and has not been paid.
LEMMA AvailableIs ==
    ASSUME NEW info
    PROVE  Available(info) = TotalReleased(info.schedules, now) - info.released_amount
<1>1. \A sch : ReleasedBy(sch) = ReleasedAt(sch, now)
  BY DEF ReleasedBy, ReleasedAt
<1>2. [i \in DOMAIN info.schedules |-> ReleasedBy(info.schedules[i])]
        = Releases(info.schedules, now)
  BY <1>1 DEF Releases
<1> QED BY <1>2 DEF Available, SumOverSeq, TotalReleased

\* What a schedule has released where compute_available_amount does not fail is
\* a natural, and so the answer for an account of any content is an integer.
LEMMA AvailableInt ==
    ASSUME now \in Nat, NEW info \in StoredInfos,
           \A i \in DOMAIN info.schedules : Releasable(info.schedules[i])
    PROVE  Available(info) \in Int
<1>1. ASSUME NEW sch \in Schedules, Releasable(sch) PROVE ReleasedBy(sch) \in Nat
  <2>1. sch.start_point.time \in Nat /\ sch.start_point.amount \in Nat
    BY DEF Schedules, SchedulePoints
  <2>2. CASE \/ sch.start_point.time > now \/ sch.end_point = NONE
             \/ sch.end_point.time = sch.start_point.time
    BY <2>1, <2>2 DEF ReleasedBy
  <2>3. CASE /\ ~(sch.start_point.time > now) /\ sch.end_point # NONE
             /\ sch.end_point.time # sch.start_point.time
    <3>1. sch.end_point.time \in Nat /\ sch.end_point.amount \in Nat
      BY <2>3 DEF Schedules, SchedulePoints
    <3>2. PICK s \in Nat, e \in Nat, a \in Nat, b \in Nat :
              /\ s = sch.start_point.time /\ e = sch.end_point.time
              /\ a = sch.start_point.amount /\ b = sch.end_point.amount
      BY <2>1, <3>1
    <3>3. s <= e /\ s # e /\ s <= now /\ (a <= b \/ Earlier(now, e) = s)
      BY <1>1, <2>1, <2>3, <3>2 DEF Releasable
    <3>4. PICK x \in Nat, d \in Nat \ {0} : x = Earlier(now, e) - s /\ d = e - s
      BY <3>2, <3>3 DEF Earlier
    <3>5. PICK y \in Nat : y = x * (b - a)
      <4>1. CASE a <= b
        <5>1. b - a \in Nat
          BY <4>1
        <5> QED BY <5>1
      <4>2. CASE Earlier(now, e) = s
        <5>1. x = 0
          BY <3>4, <4>2
        <5>2. x * (b - a) = 0
          BY <5>1
        <5> QED BY <5>2
      <4> QED BY <3>3, <4>1, <4>2
    <3>6. y \div d \in Nat
      OBVIOUS
    <3>7. ReleasedBy(sch) = a + (y \div d)
      BY <2>3, <3>2, <3>4, <3>5 DEF ReleasedBy
    <3> QED BY <3>6, <3>7
  <2> QED BY <2>2, <2>3
<1>2. PICK s \in Seq(Schedules) : s = info.schedules
  BY DEF StoredInfos
<1>3. DOMAIN s = 1..Len(s) /\ Len(s) \in Nat /\ \A i \in DOMAIN s : s[i] \in Schedules
  OBVIOUS
<1>4. PICK f : f = [i \in DOMAIN s |-> ReleasedBy(s[i])]
  OBVIOUS
<1>5. \A i \in DOMAIN s : f[i] \in Nat
  BY <1>1, <1>2, <1>3, <1>4
<1>6. IsFiniteSet(DOMAIN s)
  BY <1>3, FS_Interval
<1>7. SumOver(f, DOMAIN s) \in Nat
  BY <1>5, <1>6, SumNat
<1>8. Available(info) = SumOver(f, DOMAIN s) - info.released_amount
  BY <1>2, <1>4 DEF Available, SumOverSeq
<1> QED BY <1>7, <1>8 DEF StoredInfos

\* A new contract has no accounts, no totals and no tokens.
LEMMA VestingInvInit == VestingLpInit => VestingInv
<1> SUFFICES ASSUME VestingLpInit PROVE VestingInv
  OBVIOUS
<1> USE DEF VestingLpInit, VestingInit
<1>1. now \in 0..MAX_TIME /\ registrations \in 0..MAX_REGISTRATIONS /\ HoldsOK
  BY TimeAssumption, VestingAssumption DEF HoldsOK
<1>2. FieldsOK
  <2>1. OWNER \in Senders /\ MANAGER \in Senders
    BY DEF Senders
  <2>2. vesting_config \in [Vestings -> [owner : Senders, token_info_manager : Senders,
                                         vesting_token : VestingAssets \cup {NONE}]]
    BY <2>1
  <2>3. vesting_managers \in [Vestings -> SUBSET Senders]
    BY <2>1
  <2> QED BY <2>2, <2>3 DEF FieldsOK
<1>3. ASSUME NEW c \in Vestings PROVE ContractOK(c)
  <2>1. PICK none : none = [u \in {} |-> NONE]
    OBVIOUS
  <2>2. /\ vesting_info[c] = none /\ vesting_state[c] = NONE /\ token_balance[c] = 0
    BY <2>1
  <2>3. DOMAIN none = {} /\ none = [u \in DOMAIN none |-> none[u]]
    BY <2>1
  <2>4. AccountsOK(none, now)
    BY <2>3 DEF AccountsOK
  <2>5. Owed(none) = 0
    BY <2>3, NoBooks
  <2>6. BooksOK(extensions[c].managed, none, NONE, 0)
    BY <2>3, <2>5 DEF BooksOK
  <2>7. LedgerOK(c, none, NONE, 0, {}, 0, now)
    BY <2>4, <2>6, PlainLedger
  <2>8. unfunded[c] = {} /\ unfunded_claims[c] = 0
    OBVIOUS
  <2> QED BY <2>2, <2>7, <2>8 DEF ContractOK
<1>4. BooksInv
  BY <1>3 DEF BooksInv
<1> QED BY <1>1, <1>2, <1>4 DEF VestingInv

\* Each message to one contract keeps the books.
LEMMA RegisterStep ==
    ASSUME VestingInv, NEW c \in Vestings, NEW s, NEW asset,
           NEW accounts \in VestingRequests, NEW a \in VestingAmounts,
           register_vesting_accounts(c, s, asset, accounts, a)
    PROVE  BooksInv'
<1>1. PICK infos, state, balance, new, st :
          /\ infos = vesting_info[c] /\ state = vesting_state[c] /\ balance = token_balance[c]
          /\ new = Registered(infos, accounts)
          /\ st = [StateOf(state) EXCEPT !.total_granted = @ + NewGrants(accounts)]
  OBVIOUS
<1>2. /\ a = NewGrants(accounts)
      /\ \A u \in DOMAIN accounts : \A i \in DOMAIN accounts[u] : ValidSchedule(accounts[u][i])
      /\ now' = now
      /\ vesting_info' = [vesting_info EXCEPT ![c] = Registered(@, accounts)]
      /\ vesting_state' = [vesting_state EXCEPT ![c] =
             [StateOf(vesting_state[c]) EXCEPT !.total_granted = @ + NewGrants(accounts)]]
      /\ token_balance' = [token_balance EXCEPT ![c] = @ + a]
      /\ UNCHANGED vestingHistory
  BY DEF register_vesting_accounts, NewGrants, StateOf
<1>3. RequestOK(accounts)
  <2>1. DOMAIN accounts \subseteq Users /\ accounts \in [DOMAIN accounts -> Seq(Schedules)]
    BY RequestAssumption
  <2>2. ASSUME NEW u \in DOMAIN accounts PROVE accounts[u] \in Seq(ValidSchedules)
    <3>1. accounts[u] \in Seq(Schedules)
      BY <2>1
    <3>2. \A i \in DOMAIN accounts[u] : accounts[u][i] \in ValidSchedules
      BY <1>2, <3>1 DEF ValidSchedules
    <3> QED BY <3>1, <3>2
  <2> QED BY <2>1, <2>2 DEF RequestOK
<1>4. PICK b : b = balance + NewGrants(accounts)
  OBVIOUS
<1>5. /\ vesting_info' = [vesting_info EXCEPT ![c] = new]
      /\ vesting_state' = [vesting_state EXCEPT ![c] = st]
      /\ token_balance' = [token_balance EXCEPT ![c] = b]
      /\ UNCHANGED vestingHistory
  BY <1>1, <1>2, <1>4
<1>x. now' = now
  BY <1>2
<1>6. CASE c # "pcl"
  <2>1. /\ AccountsOK(infos, now) /\ BooksOK(extensions[c].managed, infos, state, balance)
        /\ now \in Nat
    BY <1>1, <1>6, PlainContract
  <2>2. AccountsOK(new, now) /\ BooksOK(extensions[c].managed, new, st, b)
    BY <1>1, <1>3, <1>4, <2>1, Extensions, RegisterBooks
  <2> QED BY <1>5, <1>x, <1>6, <2>2, OnePlain
<1>7. CASE c = "pcl"
  <2>1. PICK h, k : h = unfunded[c] /\ k = unfunded_claims[c]
    OBVIOUS
  <2>2. LedgerOK("pcl", infos, state, balance, h, k, now) /\ now \in Nat
    BY <1>1, <1>7, <2>1, PclContract
  <2>3. LedgerOK("pcl", new, st, b, h, k, now)
    BY <1>1, <1>3, <1>4, <2>2, RegisterLedger
  <2>4. unfunded' = [unfunded EXCEPT ![c] = h]
        /\ unfunded_claims' = [unfunded_claims EXCEPT ![c] = k]
    BY <1>5, <2>1 DEF VestingInv, BooksInv, vestingHistory
  <2>5. LedgerOK(c, new, st, b, h, k, now)
    BY <1>7, <2>3
  <2> QED BY <1>5, <1>x, <2>4, <2>5, OneContract
<1> QED BY <1>6, <1>7

\* A claim keeps the books.
LEMMA ClaimStep ==
    ASSUME VestingInv, NEW c \in Vestings, NEW s, NEW a \in ClaimAmounts \cup {NONE},
           claim(c, s, a)
    PROVE  BooksInv'
<1>1. PICK infos, state, balance, available, amount :
          /\ infos = vesting_info[c] /\ state = vesting_state[c] /\ balance = token_balance[c]
          /\ available = Available(infos[s])
          /\ amount = IF a = NONE THEN available ELSE a
  OBVIOUS
<1>2. /\ s \in DOMAIN infos /\ available >= 0 /\ amount <= available /\ amount <= balance
      /\ \A i \in DOMAIN infos[s].schedules : Releasable(infos[s].schedules[i])
      /\ now' = now
      /\ vesting_info' = [vesting_info EXCEPT ![c][s].released_amount = @ + amount]
      /\ vesting_state' = [vesting_state EXCEPT ![c].total_released = @ + amount]
      /\ token_balance' = [token_balance EXCEPT ![c] = @ - amount]
      /\ unfunded_claims' = IF s \notin unfunded[c] THEN unfunded_claims
                            ELSE [unfunded_claims EXCEPT ![c] = @ + amount]
      /\ unfunded' = unfunded
  BY <1>1 DEF claim
<1>3. /\ now \in Nat /\ StoredOK(infos)
      /\ unfunded = [d \in Vestings |-> unfunded[d]]
      /\ unfunded_claims = [d \in Vestings |-> unfunded_claims[d]]
  BY <1>1, TimeAssumption DEF VestingInv, BooksInv, ContractOK, LedgerOK
<1>4. available = TotalReleased(infos[s].schedules, now) - infos[s].released_amount
  BY <1>1, AvailableIs
<1>5. available \in Int
  BY <1>1, <1>2, <1>3, AvailableInt DEF StoredOK
<1>6. amount \in Nat
  BY <1>1, <1>2, <1>5, VestingAssumption
<1>7. PICK new, st, b : new = [infos EXCEPT ![s].released_amount = @ + amount]
                        /\ st = [state EXCEPT !.total_released = @ + amount]
                        /\ b = balance - amount
  OBVIOUS
<1>8. /\ vesting_info' = [vesting_info EXCEPT ![c] = new]
      /\ vesting_state' = [vesting_state EXCEPT ![c] = st]
      /\ token_balance' = [token_balance EXCEPT ![c] = b]
  BY <1>1, <1>2, <1>7
<1>x. now' = now
  BY <1>2
<1>9. CASE c # "pcl"
  <2>1. /\ AccountsOK(infos, now) /\ BooksOK(extensions[c].managed, infos, state, balance)
        /\ unfunded[c] = {}
    BY <1>1, <1>9, PlainContract
  <2>2. AccountsOK(new, now) /\ BooksOK(extensions[c].managed, new, st, b)
    BY <1>2, <1>3, <1>4, <1>6, <1>7, <2>1, Extensions, ClaimBooks
  <2>3. UNCHANGED vestingHistory
    BY <1>2, <2>1 DEF vestingHistory
  <2> QED BY <1>8, <1>x, <1>9, <2>2, <2>3, OnePlain
<1>10. CASE c = "pcl"
  <2>1. PICK h, k, l : /\ h = unfunded[c] /\ k = unfunded_claims[c]
                       /\ l = IF s \in h THEN k + amount ELSE k
    OBVIOUS
  <2>2. LedgerOK("pcl", infos, state, balance, h, k, now)
    BY <1>1, <1>10, <2>1, PclContract
  <2>3. LedgerOK("pcl", new, st, b, h, l, now)
    BY <1>2, <1>3, <1>4, <1>6, <1>7, <2>1, <2>2, ClaimLedger
  <2>4. unfunded' = [unfunded EXCEPT ![c] = h]
        /\ unfunded_claims' = [unfunded_claims EXCEPT ![c] = l]
    BY <1>2, <1>3, <2>1
  <2>5. LedgerOK(c, new, st, b, h, l, now)
    BY <1>10, <2>3
  <2> QED BY <1>8, <1>x, <2>4, <2>5, OneContract
<1> QED BY <1>9, <1>10

\* A removal of accounts keeps the books.
LEMMA RemoveStep ==
    ASSUME VestingInv, NEW c \in Vestings, NEW s, NEW accounts,
           remove_vesting_accounts(c, s, accounts)
    PROVE  BooksInv'
<1>1. PICK infos, state, balance, removed :
          /\ infos = vesting_info[c] /\ state = vesting_state[c] /\ balance = token_balance[c]
          /\ removed = accounts \cap DOMAIN infos
  OBVIOUS
<1>2. /\ OwedTo(infos, removed) <= balance /\ now' = now
      /\ vesting_info' = [vesting_info EXCEPT ![c] = Without(vesting_info[c], removed)]
      /\ token_balance' = [token_balance EXCEPT ![c] = @ - OwedTo(infos, removed)]
      /\ \/ removed = {} /\ vesting_state' = vesting_state
         \/ /\ removed # {}
            /\ GrantedTo(infos, removed) <= state.total_granted
            /\ PaidTo(infos, removed) <= state.total_released
            /\ vesting_state' = [vesting_state EXCEPT
                   ![c].total_granted = @ - GrantedTo(infos, removed),
                   ![c].total_released = @ - PaidTo(infos, removed)]
      /\ UNCHANGED vestingHistory /\ extensions[c].managed
  BY <1>1 DEF remove_vesting_accounts, OwedTo, GrantedTo, PaidTo, Without
<1>3. /\ AccountsOK(infos, now) /\ BooksOK(extensions[c].managed, infos, state, balance)
      /\ now \in Nat /\ c \in DOMAIN vesting_state /\ removed \in SUBSET DOMAIN infos
      /\ c # "pcl"
  <2>1. c # "pcl"
    BY <1>2, Extensions
  <2> QED BY <1>1, <2>1, PlainContract DEF VestingInv, BooksInv
<1>4. CASE removed = {}
  <2>1. OwedTo(infos, removed) = 0
    BY <1>4, SumEmpty DEF OwedTo
  <2>2. Without(infos, removed) = infos
    BY <1>3, <1>4 DEF Without, AccountsOK
  <2>3. balance - 0 = balance
    BY <1>3 DEF BooksOK
  <2>4. /\ vesting_info' = [vesting_info EXCEPT ![c] = infos]
        /\ vesting_state' = [vesting_state EXCEPT ![c] = state]
        /\ token_balance' = [token_balance EXCEPT ![c] = balance]
    <3>1. vesting_state = [vesting_state EXCEPT ![c] = state]
      BY <1>1 DEF VestingInv, BooksInv
    <3> QED BY <1>1, <1>2, <1>4, <2>1, <2>2, <2>3, <3>1
  <2> QED BY <1>2, <1>3, <2>4, OnePlain
<1>5. CASE removed # {}
  <2>1. PICK new, st, b : /\ new = Without(infos, removed)
                          /\ st = [state EXCEPT
                                     !.total_granted = @ - GrantedTo(infos, removed),
                                     !.total_released = @ - PaidTo(infos, removed)]
                          /\ b = balance - OwedTo(infos, removed)
    OBVIOUS
  <2>2. AccountsOK(new, now) /\ BooksOK(extensions[c].managed, new, st, b)
    BY <1>2, <1>3, <1>5, <2>1, Extensions, RemoveBooks
  <2>3. /\ vesting_info' = [vesting_info EXCEPT ![c] = new]
        /\ vesting_state' = [vesting_state EXCEPT ![c] = st]
        /\ token_balance' = [token_balance EXCEPT ![c] = b]
    BY <1>1, <1>2, <1>3, <1>5, <2>1
  <2> QED BY <1>2, <1>3, <2>2, <2>3, OnePlain
<1> QED BY <1>4, <1>5

\* Storing the emptied account, as the contract writes it.
LEMMA Emptied ==
    ASSUME NEW infos, NEW t, AccountsOK(infos, t), NEW u \in DOMAIN infos
    PROVE  [infos EXCEPT ![u] = NoAccount] = Put(infos, u, NoAccount)
BY DEF Put, AccountsOK

\* The books of the contract a migration leaves.
LEMMA LpBooks ==
    ASSUME VestingInv
    PROVE  /\ "lp" \in Vestings
           /\ AccountsOK(vesting_info["lp"], now)
           /\ BooksOK(FALSE, vesting_info["lp"], vesting_state["lp"], token_balance["lp"])
           /\ unfunded["lp"] = {} /\ unfunded_claims["lp"] = 0 /\ now \in Nat
<1>1. "lp" \in Vestings /\ "lp" # "pcl"
  BY DEF Vestings
<1>2. extensions["lp"].managed = FALSE
  BY Extensions
<1> QED BY <1>1, <1>2, PlainContract

\* Dust: the share leaves vesting-lp, the account is emptied.
LEMMA DustStep ==
    ASSUME VestingInv, now' = now, NEW user \in DOMAIN vesting_info["lp"], NEW share \in Nat,
           share = compute_share(vesting_info["lp"][user]), share <= token_balance["lp"],
           SendDust(user, share), UNCHANGED vestingHistory
    PROVE  BooksInv'
<1>1. PICK infos, state, balance, new, b :
          /\ infos = vesting_info["lp"] /\ state = vesting_state["lp"]
          /\ balance = token_balance["lp"]
          /\ new = Put(infos, user, NoAccount) /\ b = balance - share
  OBVIOUS
<1>2. "lp" \in Vestings /\ "lp" # "pcl"
  BY DEF Vestings
<1>3. /\ AccountsOK(infos, now) /\ BooksOK(FALSE, infos, state, balance) /\ now \in Nat
  BY <1>1, LpBooks
<1>4. state \in VestingStates /\ state.total_granted \in Nat
  <2>1. state \in VestingStates
    BY <1>1, <1>3 DEF BooksOK
  <2> QED BY <2>1 DEF VestingStates
<1>5. [state EXCEPT !.total_granted = @ - 0] = state
  BY <1>4 DEF VestingStates
<1>6. AccountsOK(new, now)
      /\ BooksOK(FALSE, new, [state EXCEPT !.total_granted = @ - 0], b)
  <2>1. 0 \in {0, share} /\ 0 <= state.total_granted
    BY <1>4
  <2> QED BY <1>1, <1>3, <2>1, LeaveBooks
<1>7. new = [infos EXCEPT ![user] = NoAccount]
  BY <1>1, <1>3, Emptied
<1>8. /\ vesting_info' = [vesting_info EXCEPT !["lp"] = new]
      /\ vesting_state' = [vesting_state EXCEPT !["lp"] = state]
      /\ token_balance' = [token_balance EXCEPT !["lp"] = b]
  <2>1. vesting_state = [vesting_state EXCEPT !["lp"] = state]
    BY <1>1 DEF VestingInv, BooksInv
  <2>2. vesting_info' = [vesting_info EXCEPT !["lp"] = [vesting_info["lp"] EXCEPT ![user] = NoAccount]]
    BY DEF SendDust
  <2>3. token_balance' = [token_balance EXCEPT !["lp"] = token_balance["lp"] - share]
        /\ vesting_state' = vesting_state
    BY DEF SendDust
  <2> QED BY <1>1, <1>7, <2>1, <2>2, <2>3
<1>9. BooksOK(extensions["lp"].managed, new, state, b)
  BY <1>5, <1>6, Extensions
<1>10. AccountsOK(new, now)
  BY <1>6
<1> QED BY <1>2, <1>8, <1>9, <1>10, OnePlain

\* Two contracts change their books, the others do not.
LEMMA TwoContracts ==
    ASSUME VestingInv, now' = now, NEW i, NEW s, NEW b, NEW j, NEW r, NEW d,
           AccountsOK(i, now), BooksOK(FALSE, i, s, b),
           LedgerOK("pcl", j, r, d, unfunded["pcl"], unfunded_claims["pcl"], now),
           vesting_info' = [vesting_info EXCEPT !["lp"] = i, !["pcl"] = j],
           vesting_state' = [vesting_state EXCEPT !["lp"] = s, !["pcl"] = r],
           token_balance' = [token_balance EXCEPT !["lp"] = b, !["pcl"] = d],
           UNCHANGED vestingHistory
    PROVE  BooksInv'
<1>1. /\ vesting_info' = [c \in Vestings |-> IF c = "pcl" THEN j ELSE IF c = "lp" THEN i
                                             ELSE vesting_info[c]]
      /\ vesting_state' = [c \in Vestings |-> IF c = "pcl" THEN r ELSE IF c = "lp" THEN s
                                              ELSE vesting_state[c]]
      /\ token_balance' = [c \in Vestings |-> IF c = "pcl" THEN d ELSE IF c = "lp" THEN b
                                              ELSE token_balance[c]]
  BY DEF VestingInv, BooksInv
<1>2. /\ vesting_info'  = [c \in Vestings |-> vesting_info'[c]]
      /\ vesting_state' = [c \in Vestings |-> vesting_state'[c]]
      /\ token_balance' = [c \in Vestings |-> token_balance'[c]]
  BY <1>1
<1>3. unfunded' = unfunded /\ unfunded_claims' = unfunded_claims
  BY DEF vestingHistory
<1>4. ASSUME NEW c \in Vestings PROVE ContractOK(c)'
  <2>1. CASE c = "lp"
    <3>1. vesting_info'[c] = i /\ vesting_state'[c] = s /\ token_balance'[c] = b
      BY <1>1, <2>1
    <3>2. unfunded'[c] = {} /\ unfunded_claims'[c] = 0
      BY <1>3, <2>1, LpBooks
    <3>3. LedgerOK(c, i, s, b, {}, 0, now)
      <4>1. BooksOK(extensions[c].managed, i, s, b)
        BY <2>1, Extensions
      <4> QED BY <4>1, PlainLedger
    <3> QED BY <3>1, <3>2, <3>3 DEF ContractOK
  <2>2. CASE c = "pcl"
    <3>1. vesting_info'[c] = j /\ vesting_state'[c] = r /\ token_balance'[c] = d
      BY <1>1, <2>2
    <3>2. unfunded'[c] = unfunded["pcl"] /\ unfunded_claims'[c] = unfunded_claims["pcl"]
      BY <1>3, <2>2
    <3> QED BY <2>2, <3>1, <3>2 DEF ContractOK
  <2>3. CASE c # "lp" /\ c # "pcl"
    <3>1. /\ vesting_info'[c] = vesting_info[c] /\ vesting_state'[c] = vesting_state[c]
          /\ token_balance'[c] = token_balance[c]
      BY <1>1, <2>3
    <3>2. ContractOK(c)
      BY DEF VestingInv, BooksInv
    <3> QED BY <1>3, <3>1, <3>2 DEF ContractOK
  <2> QED BY <2>1, <2>2, <2>3
<1>5. unfunded' = [c \in Vestings |-> unfunded'[c]]
      /\ unfunded_claims' = [c \in Vestings |-> unfunded_claims'[c]]
  BY <1>3 DEF VestingInv, BooksInv
<1> QED BY <1>2, <1>4, <1>5 DEF BooksInv

\* The differences the callbacks compute are what their calls brought.
LEMMA BroughtIs ==
    ASSUME NEW before \in Nat, NEW x \in Nat
    PROVE  Brought(before, before + x) = x
BY DEF Brought

\* The share moves: out of vesting-lp, and what it brings into vesting-lp-pcl.
LEMMA ShareStep ==
    ASSUME VestingInv, now' = now, NEW user \in DOMAIN vesting_info["lp"], NEW share \in Nat,
           share = compute_share(vesting_info["lp"][user]), share <= token_balance["lp"],
           share # 0, NEW assets, NEW minted \in Nat,
           MigrateShare(user, share, assets, minted), UNCHANGED vestingHistory
    PROVE  BooksInv'
<1>1. PICK infos, state, balance, new, st, b :
          /\ infos = vesting_info["lp"] /\ state = vesting_state["lp"]
          /\ balance = token_balance["lp"]
          /\ new = Put(infos, user, NoAccount) /\ b = balance - share
          /\ st = [state EXCEPT !.total_granted = @ - share]
  OBVIOUS
<1>2. PICK pinfos, pstate, pbalance, h, k, info, moved, d :
          /\ pinfos = vesting_info["pcl"] /\ pstate = vesting_state["pcl"]
          /\ pbalance = token_balance["pcl"]
          /\ h = unfunded["pcl"] /\ k = unfunded_claims["pcl"]
          /\ info = MigratedInfo(infos[user], minted)
          /\ moved = handle_migrate_xyk_liquidity(pinfos, pstate, user, info)
          /\ d = pbalance + minted
  OBVIOUS
<1>4. /\ AccountsOK(infos, now) /\ BooksOK(FALSE, infos, state, balance)
      /\ LedgerOK("pcl", pinfos, pstate, pbalance, h, k, now)
      /\ now \in Nat
  BY <1>1, <1>2, LpBooks, PclContract
<1>5. Brought(lp_holds.pcl_lp, lp_holds.pcl_lp + minted) = minted
  <2>1. lp_holds.pcl_lp \in Nat
    BY DEF VestingInv, HoldsOK
  <2> QED BY <2>1, BroughtIs
<1>6. /\ share <= vesting_state["lp"].total_granted
      /\ vesting_info' = [vesting_info EXCEPT
             !["lp"] = [vesting_info["lp"] EXCEPT ![user] = NoAccount],
             !["pcl"] = IF minted > 0 THEN moved.infos ELSE vesting_info["pcl"]]
      /\ vesting_state' = [vesting_state EXCEPT
             !["lp"] = [vesting_state["lp"] EXCEPT !.total_granted = @ - share],
             !["pcl"] = IF minted > 0 THEN moved.state ELSE vesting_state["pcl"]]
      /\ token_balance' = [token_balance EXCEPT
             !["lp"] = token_balance["lp"] - share, !["pcl"] = token_balance["pcl"] + minted]
  BY <1>1, <1>2, <1>5 DEF MigrateShare
<1>7. new = [infos EXCEPT ![user] = NoAccount]
  BY <1>1, <1>4, Emptied
<1>8. AccountsOK(new, now) /\ BooksOK(FALSE, new, st, b)
  <2>1. share \in {0, share} /\ share <= state.total_granted
    BY <1>1, <1>6
  <2> QED BY <1>1, <1>4, <2>1, LeaveBooks
<1>9. CASE minted > 0
  <2>1. PICK j, r : j = moved.infos /\ r = moved.state
    OBVIOUS
  <2>2. Fair(infos[user], now) /\ user \in Users
    BY <1>1, <1>4 DEF AccountsOK
  <2>3. infos[user].schedules # <<>>
    <3>1. infos[user].schedules = <<>> => compute_share(infos[user]) <= 0
      BY <1>4, <2>2, ShareWithinOwed
    <3> QED BY <1>1, <3>1
  <2>4. /\ Fair(info, now) /\ info.released_amount = 0
        /\ TotalGranted(info.schedules) \in Nat /\ TotalGranted(info.schedules) <= minted
    BY <1>2, <1>4, <1>9, <2>2, <2>3, MigratedFair
  <2>5. LedgerOK("pcl", j, r, d, h, k, now)
    BY <1>2, <1>4, <2>1, <2>2, <2>4, ArriveLedger
  <2>6. /\ vesting_info' = [vesting_info EXCEPT !["lp"] = new, !["pcl"] = j]
        /\ vesting_state' = [vesting_state EXCEPT !["lp"] = st, !["pcl"] = r]
        /\ token_balance' = [token_balance EXCEPT !["lp"] = b, !["pcl"] = d]
    BY <1>1, <1>2, <1>6, <1>7, <1>9, <2>1
  <2> QED BY <1>2, <1>8, <2>5, <2>6, TwoContracts
<1>10. CASE minted = 0
  <2>1. LedgerOK("pcl", pinfos, pstate, d, h, k, now)
    <3>1. d = pbalance
      BY <1>2, <1>4, <1>10 DEF LedgerOK
    <3> QED BY <1>4, <3>1
  <2>2. /\ vesting_info' = [vesting_info EXCEPT !["lp"] = new, !["pcl"] = pinfos]
        /\ vesting_state' = [vesting_state EXCEPT !["lp"] = st, !["pcl"] = pstate]
        /\ token_balance' = [token_balance EXCEPT !["lp"] = b, !["pcl"] = d]
    <3>1. ~(minted > 0)
      BY <1>10
    <3> QED BY <1>1, <1>2, <1>6, <1>7, <3>1
  <2> QED BY <1>2, <1>8, <2>1, <2>2, TwoContracts
<1> QED BY <1>9, <1>10

\* MigrateLiquidityToPCLPool keeps the books, and leaves what vesting-lp held
\* of other tokens as it was.
LEMMA MigrateStep ==
    ASSUME VestingInv, NEW user, NEW price \in SharePrices, NEW minted \in MintedLp,
           MigrateLiquidityToPCLPool(user, price, minted)
    PROVE  BooksInv' /\ lp_holds' = lp_holds
<1>1. PICK share, assets : share = compute_share(vesting_info["lp"][user])
                           /\ assets = ShareAssets(share, price)
  OBVIOUS
<1>2. /\ user \in DOMAIN vesting_info["lp"] /\ share >= 0 /\ share <= token_balance["lp"]
      /\ now' = now /\ UNCHANGED vestingHistory
      /\ \/ (assets.ntrn = 0 \/ assets.paired = 0) /\ SendDust(user, share)
         \/ assets.ntrn # 0 /\ assets.paired # 0 /\ MigrateShare(user, share, assets, minted)
  BY <1>1 DEF MigrateLiquidityToPCLPool
<1>3. /\ price.ntrn \in Nat /\ price.paired \in Nat /\ price.lp \in Nat \ {0} /\ minted \in Nat
  BY PairAssumption
<1>4. share \in Nat
  <2>1. AccountsOK(vesting_info["lp"], now) /\ now \in Nat
    BY LpBooks
  <2>2. Fair(vesting_info["lp"][user], now)
    BY <1>2, <2>1 DEF AccountsOK
  <2>3. share \in Int
    BY <1>1, <2>1, <2>2, ShareWithinOwed
  <2> QED BY <1>2, <2>3
<1>5. assets.ntrn \in Nat /\ assets.paired \in Nat /\ (share = 0 => assets.ntrn = 0)
  <2>1. assets.ntrn = (share * price.ntrn) \div price.lp
        /\ assets.paired = (share * price.paired) \div price.lp
    BY <1>1 DEF ShareAssets
  <2>2. share * price.ntrn \in Nat /\ share * price.paired \in Nat
    BY <1>3, <1>4
  <2>3. \A x \in Nat, y \in Nat \ {0} : x \div y \in Nat
    OBVIOUS
  <2>4. share = 0 => share * price.ntrn = 0
    BY <1>3
  <2>5. \A y \in Nat \ {0} : 0 \div y = 0
    OBVIOUS
  <2> QED BY <1>3, <2>1, <2>2, <2>3, <2>4, <2>5
<1>6. CASE SendDust(user, share)
  <2>1. BooksInv'
    BY <1>1, <1>2, <1>4, <1>6, DustStep
  <2> QED BY <1>6, <2>1 DEF SendDust
<1>7. CASE assets.ntrn # 0 /\ MigrateShare(user, share, assets, minted)
  <2>1. share # 0
    BY <1>5, <1>7
  <2>2. BooksInv'
    BY <1>1, <1>2, <1>3, <1>4, <1>7, <2>1, ShareStep
  <2>3. PICK n, p, l : n = lp_holds.ntrn /\ p = lp_holds.paired /\ l = lp_holds.pcl_lp
    OBVIOUS
  <2>4. /\ n \in Nat /\ p \in Nat /\ l \in Nat
        /\ lp_holds = [ntrn |-> n, paired |-> p, pcl_lp |-> l]
    BY <2>3 DEF VestingInv, HoldsOK
  <2>5. /\ Brought(n, n + assets.ntrn) = assets.ntrn
        /\ Brought(p, p + assets.paired) = assets.paired
        /\ Brought(l, l + minted) = minted
    BY <1>3, <1>5, <2>4, BroughtIs
  <2>6. lp_holds' = [ntrn   |-> n + assets.ntrn - assets.ntrn,
                     paired |-> p + assets.paired - assets.paired,
                     pcl_lp |-> l + minted - minted]
    BY <1>7, <2>3, <2>5 DEF MigrateShare
  <2>7. /\ n + assets.ntrn - assets.ntrn = n /\ p + assets.paired - assets.paired = p
        /\ l + minted - minted = l
    BY <1>3, <1>5, <2>4
  <2> QED BY <2>2, <2>4, <2>6, <2>7
<1> QED BY <1>2, <1>6, <1>7

\* An account that a message of anybody stores keeps the books of the others.
LEMMA DirectStep ==
    ASSUME VestingInv, NEW user \in Users, NEW info \in DirectInfos, receive_cw20(user, info)
    PROVE  BooksInv'
<1>1. PICK infos, state, balance, h, k, stored :
          /\ infos = vesting_info["pcl"] /\ state = vesting_state["pcl"]
          /\ balance = token_balance["pcl"]
          /\ h = unfunded["pcl"] /\ k = unfunded_claims["pcl"]
          /\ stored = handle_migrate_xyk_liquidity(infos, state, user, info)
  OBVIOUS
<1>2. /\ now' = now
      /\ vesting_info' = [vesting_info EXCEPT !["pcl"] = stored.infos]
      /\ vesting_state' = [vesting_state EXCEPT !["pcl"] = stored.state]
      /\ unfunded' = [unfunded EXCEPT !["pcl"] = @ \cup {user}]
      /\ token_balance' = token_balance /\ unfunded_claims' = unfunded_claims
  BY <1>1 DEF receive_cw20
<1>3. /\ "pcl" \in Vestings /\ now \in Nat
      /\ LedgerOK("pcl", infos, state, balance, h, k, now)
  BY <1>1, PclContract
<1>4. PICK j, r, g : j = stored.infos /\ r = stored.state /\ g = h \cup {user}
  OBVIOUS
<1>5. LedgerOK("pcl", j, r, balance, g, k, now)
  <2>1. info \in StoredInfos
    BY PairAssumption DEF StoredInfos
  <2> QED BY <1>1, <1>3, <1>4, <2>1, DirectLedger
<1>6. /\ vesting_info' = [vesting_info EXCEPT !["pcl"] = j]
      /\ vesting_state' = [vesting_state EXCEPT !["pcl"] = r]
      /\ unfunded' = [unfunded EXCEPT !["pcl"] = g]
  BY <1>1, <1>2, <1>4
<1>7. /\ token_balance' = [token_balance EXCEPT !["pcl"] = balance]
      /\ unfunded_claims' = [unfunded_claims EXCEPT !["pcl"] = k]
  BY <1>1, <1>2 DEF VestingInv, BooksInv
<1>8. now' = now
  BY <1>2
<1> QED BY <1>3, <1>5, <1>6, <1>7, <1>8, OneContract

\* The fields that carry no tokens keep their types.
LEMMA FieldsStep ==
    ASSUME VestingInv, VestingStep
    PROVE  FieldsOK' /\ now' = now /\ registrations' \in 0..MAX_REGISTRATIONS
<1>1. PICK c \in deployed, s \in Senders :
        \/ /\ registrations < MAX_REGISTRATIONS
           /\ \E asset \in VestingAssets, accounts \in VestingRequests,
                 a \in VestingAmounts :
                  register_vesting_accounts(c, s, asset, accounts, a)
        \/ \E a \in ClaimAmounts \cup {NONE} : claim(c, s, a)
        \/ \E accounts \in SUBSET Users : remove_vesting_accounts(c, s, accounts)
        \/ \E asset \in VestingAssets : set_vesting_token(c, s, asset)
        \/ deployed \in AdminDeployments /\ VestingAdminStep(c, s)
  BY DEF VestingStep
<1>2. /\ c \in Vestings /\ now \in Nat /\ FieldsOK
      /\ registrations \in 0..MAX_REGISTRATIONS /\ MAX_REGISTRATIONS \in Nat
  BY VestingAssumption, TimeAssumption DEF VestingInv, FieldsOK
<1>3. CASE registrations < MAX_REGISTRATIONS
           /\ \E asset \in VestingAssets, accounts \in VestingRequests, a \in VestingAmounts :
                  register_vesting_accounts(c, s, asset, accounts, a)
  <2>1. UNCHANGED <<now, vestingAdmin>> /\ registrations' = registrations + 1
    BY <1>3 DEF register_vesting_accounts
  <2> QED BY <1>2, <1>3, <2>1 DEF FieldsOK, vestingAdmin
<1>4. CASE \/ \E a \in ClaimAmounts \cup {NONE} : claim(c, s, a)
           \/ \E accounts \in SUBSET Users : remove_vesting_accounts(c, s, accounts)
  <2>1. UNCHANGED <<now, vestingAdmin, registrations>>
    BY <1>4 DEF claim, remove_vesting_accounts
  <2> QED BY <1>2, <2>1 DEF FieldsOK, vestingAdmin
<1>5. ASSUME NEW asset \in VestingAssets, set_vesting_token(c, s, asset)
      PROVE  FieldsOK' /\ now' = now /\ registrations' \in 0..MAX_REGISTRATIONS
  <2>1. vesting_config' \in [Vestings -> [owner : Senders, token_info_manager : Senders,
                                          vesting_token : VestingAssets \cup {NONE}]]
    BY <1>2, <1>5 DEF FieldsOK, set_vesting_token
  <2> QED BY <1>2, <1>5, <2>1 DEF FieldsOK, set_vesting_token, vestingLedger
<1>6. CASE VestingAdminStep(c, s)
  <2>0. NewOwners \subseteq Senders /\ ExpiresIn \subseteq Nat
    BY ProposalAssumption
  <2>1. ASSUME NEW managers \in {{a} : a \in NewOwners},
               add_vesting_managers(c, s, managers) \/ remove_vesting_managers(c, s, managers)
        PROVE  FieldsOK' /\ now' = now /\ registrations' \in 0..MAX_REGISTRATIONS
    <3>1. managers \in SUBSET Senders
      BY <2>0
    <3>2. vesting_managers' \in [Vestings -> SUBSET Senders]
      BY <1>2, <2>1, <3>1 DEF FieldsOK, add_vesting_managers, remove_vesting_managers
    <3> QED BY <1>2, <2>1, <3>2
            DEF FieldsOK, add_vesting_managers, remove_vesting_managers, vestingLedger
  <2>2. ASSUME NEW a \in NewOwners, NEW t \in ExpiresIn, propose_new_owner(c, s, a, t)
        PROVE  FieldsOK' /\ now' = now /\ registrations' \in 0..MAX_REGISTRATIONS
    <3>1. ProposalOf(a, t) \in [owner : Senders, ttl : Nat]
      BY <1>2, <2>0 DEF ProposalOf
    <3>2. ownership_proposal' \in [Vestings -> [owner : Senders, ttl : Nat] \cup {NONE}]
      BY <1>2, <2>2, <3>1 DEF FieldsOK, propose_new_owner
    <3> QED BY <1>2, <2>2, <3>2 DEF FieldsOK, propose_new_owner, vestingLedger
  <2>3. CASE drop_ownership_proposal(c, s)
    <3>1. ownership_proposal' \in [Vestings -> [owner : Senders, ttl : Nat] \cup {NONE}]
      BY <1>2, <2>3 DEF FieldsOK, drop_ownership_proposal
    <3> QED BY <1>2, <2>3, <3>1 DEF FieldsOK, drop_ownership_proposal, vestingLedger
  <2>4. CASE claim_ownership(c, s)
    <3>1. ownership_proposal' \in [Vestings -> [owner : Senders, ttl : Nat] \cup {NONE}]
      BY <1>2, <2>4 DEF FieldsOK, claim_ownership
    <3>2. ownership_proposal[c].owner \in Senders
      BY <1>2, <2>4 DEF FieldsOK, claim_ownership, OwnershipClaimable
    <3>3. vesting_config' \in [Vestings -> [owner : Senders, token_info_manager : Senders,
                                            vesting_token : VestingAssets \cup {NONE}]]
      BY <1>2, <2>4, <3>2 DEF FieldsOK, claim_ownership
    <3> QED BY <1>2, <2>4, <3>1, <3>3 DEF FieldsOK, claim_ownership, vestingLedger
  <2> QED BY <1>6, <2>1, <2>2, <2>3, <2>4 DEF VestingAdminStep
<1> QED BY <1>1, <1>3, <1>4, <1>5, <1>6

\* Every message to a contract keeps the books of all.
LEMMA LedgerStep ==
    ASSUME VestingInv, VestingStep
    PROVE  BooksInv'
<1>1. PICK c \in deployed, s \in Senders :
        \/ \E asset \in VestingAssets, accounts \in VestingRequests, a \in VestingAmounts :
               register_vesting_accounts(c, s, asset, accounts, a)
        \/ \E a \in ClaimAmounts \cup {NONE} : claim(c, s, a)
        \/ \E accounts \in SUBSET Users : remove_vesting_accounts(c, s, accounts)
        \/ UNCHANGED <<now, vestingLedger>>
  BY DEF VestingStep, set_vesting_token, VestingAdminStep, add_vesting_managers,
         remove_vesting_managers, propose_new_owner, drop_ownership_proposal, claim_ownership
<1>2. c \in Vestings
  BY VestingAssumption DEF VestingInv, FieldsOK
<1>3. CASE UNCHANGED <<now, vestingLedger>>
  BY <1>3, TimeAssumption, BooksLater DEF vestingLedger, VestingInv
<1> QED BY <1>1, <1>2, <1>3, RegisterStep, ClaimStep, RemoveStep

\* The invariant is inductive.
LEMMA VestingInvStep ==
    ASSUME VestingInv, [VestingLpStep]_lpMigrationVars
    PROVE  VestingInv'
<1>1. now \in Nat /\ now \in 0..MAX_TIME /\ MAX_TIME \in Nat
      /\ registrations \in 0..MAX_REGISTRATIONS /\ FieldsOK /\ HoldsOK
  BY TimeAssumption DEF VestingInv
<1>2. CASE VestingTick /\ UNCHANGED <<lp_migrated, lp_holds>>
  <2>1. now' = now + 1 /\ now' \in 0..MAX_TIME
        /\ UNCHANGED <<vestingAdmin, vestingLedger, lp_holds>>
    BY <1>1, <1>2 DEF VestingTick, NextBlock
  <2>2. BooksInv'
    BY <1>1, <2>1, BooksLater DEF vestingLedger
  <2> QED BY <1>1, <2>1, <2>2 DEF VestingInv, FieldsOK, HoldsOK, vestingAdmin, vestingLedger
<1>3. CASE VestingStep /\ UNCHANGED <<lp_migrated, lp_holds>>
  <2>1. FieldsOK' /\ now' = now /\ registrations' \in 0..MAX_REGISTRATIONS /\ BooksInv'
    BY <1>3, FieldsStep, LedgerStep
  <2> QED BY <1>1, <1>3, <2>1 DEF VestingInv, HoldsOK
<1>4. ASSUME UNCHANGED vestingVars, HoldsOK'
      PROVE  VestingInv'
  <2>1. UNCHANGED <<now, vestingAdmin, vestingLedger>>
    BY <1>4 DEF vestingVars
  <2>2. BooksInv'
    BY <1>1, <2>1, BooksLater DEF vestingLedger
  <2> QED BY <1>1, <1>4, <2>1, <2>2 DEF VestingInv, FieldsOK, vestingAdmin, vestingLedger
<1>5. CASE migrate \/ UNCHANGED lpMigrationVars
  BY <1>1, <1>4, <1>5 DEF migrate, lpMigrationVars, HoldsOK
<1>6. CASE Donate
  BY <1>4, <1>6, PairAssumption DEF Donate, HoldsOK
<1>7. ASSUME NEW u \in Users, NEW price \in SharePrices, NEW m \in MintedLp,
             MigrateLiquidityToPCLPool(u, price, m)
      PROVE  VestingInv'
  <2>1. BooksInv' /\ lp_holds' = lp_holds
    BY <1>7, MigrateStep
  <2>2. UNCHANGED <<now, vestingAdmin, registrations>>
    BY <1>7 DEF MigrateLiquidityToPCLPool
  <2> QED BY <1>1, <2>1, <2>2 DEF VestingInv, FieldsOK, HoldsOK, vestingAdmin
<1>8. ASSUME registrations < MAX_REGISTRATIONS, NEW u \in Users, NEW info \in DirectInfos,
             receive_cw20(u, info)
      PROVE  VestingInv'
  <2>1. BooksInv'
    BY <1>8, DirectStep
  <2>2. /\ UNCHANGED <<now, vestingAdmin, lp_holds>>
        /\ registrations' = registrations + 1
    BY <1>8 DEF receive_cw20
  <2>3. registrations' \in 0..MAX_REGISTRATIONS
    BY <1>1, <1>8, <2>2, VestingAssumption
  <2> QED BY <1>1, <2>1, <2>2, <2>3 DEF VestingInv, FieldsOK, HoldsOK, vestingAdmin
<1> QED BY <1>2, <1>3, <1>5, <1>6, <1>7, <1>8 DEF VestingLpStep

\* The invariant holds of the vesting contracts.
LEMMA VestingInvariant == VestingLpSpec => []VestingInv
<1>1. VestingLpInit => VestingInv
  BY VestingInvInit
<1>2. VestingInv /\ [VestingLpStep]_lpMigrationVars => VestingInv'
  BY VestingInvStep
<1> QED BY <1>1, <1>2, PTL DEF VestingLpSpec
-----------------------------------------------------------------------------
\* Type correctness of the vesting contracts, with the migration of vesting-lp:
\* no checked subtraction of a balance or a total goes below zero.
THEOREM VestingTypeCorrect == VestingLpSpec => []VestingTypeOK
<1>1. VestingInv => VestingTypeOK
  <2> SUFFICES ASSUME VestingInv PROVE VestingTypeOK
    OBVIOUS
  <2>1. ASSUME NEW c \in Vestings
        PROVE  /\ DOMAIN vesting_info[c] \subseteq Users
               /\ vesting_state[c] \in VestingStates \cup {NONE} /\ token_balance[c] \in Nat
               /\ unfunded[c] \in SUBSET Users /\ unfunded_claims[c] \in Nat
               /\ \A u \in DOMAIN vesting_info[c] :
                      /\ vesting_info[c][u].released_amount \in Nat
                      /\ vesting_info[c][u].schedules \in Seq(Schedules)
    BY DEF VestingInv, BooksInv, ContractOK, LedgerOK, StoredOK, StoredInfos
  <2>2. /\ vesting_state \in [Vestings -> VestingStates \cup {NONE}]
        /\ token_balance \in [Vestings -> Nat]
        /\ unfunded \in [Vestings -> SUBSET Users] /\ unfunded_claims \in [Vestings -> Nat]
    BY <2>1 DEF VestingInv, BooksInv
  <2> QED BY <2>1, <2>2 DEF VestingTypeOK, VestingInv, FieldsOK
<1> QED BY <1>1, VestingInvariant, PTL

\* The accounts whose tokens came, by themselves.
LEMMA FundedAccounts ==
    ASSUME NEW c \in Vestings, NEW funded,
           funded = Without(vesting_info[c], unfunded[c])
    PROVE  /\ DOMAIN funded = Funded(c)
           /\ \A u \in Funded(c) : funded[u] = vesting_info[c][u]
           /\ UnclaimedOfAll(c) = Owed(funded)
<1>1. /\ DOMAIN funded = Funded(c)
      /\ \A u \in Funded(c) : funded[u] = vesting_info[c][u]
  BY DEF Without, Funded
<1>2. [u \in Funded(c) |-> Unclaimed(vesting_info[c][u])]
        = [u \in DOMAIN funded |-> Unclaimed(funded[u])]
  BY <1>1 DEF Unclaimed
<1> QED BY <1>1, <1>2 DEF UnclaimedOfAll, Owed, OwedTo

\* Whatever is registered twice, claimed in part, clawed back or migrated, a
\* vesting contract holds what it still owes the accounts whose tokens came; the
\* managed ones hold exactly that, and vesting-lp-pcl is short by no more than
\* the accounts that no tokens came for have claimed.
THEOREM GrantsFundedAlways == VestingLpSpec => []GrantsFunded
<1>1. VestingInv => GrantsFunded
  <2> SUFFICES ASSUME VestingInv, NEW c \in Vestings
               PROVE  /\ UnclaimedOfAll(c) <= token_balance[c] + unfunded_claims[c]
                      /\ extensions[c].managed =>
                             /\ UnclaimedOfAll(c) = token_balance[c]
                             /\ Funded(c) = DOMAIN vesting_info[c]
                             /\ unfunded_claims[c] = 0
    BY DEF GrantsFunded
  <2>1. PICK funded, cs : funded = Without(vesting_info[c], unfunded[c])
                          /\ cs = Credited(vesting_state[c], unfunded_claims[c])
    OBVIOUS
  <2>2. UnclaimedOfAll(c) = Owed(funded)
    BY <2>1, FundedAccounts
  <2>3. BooksOK(extensions[c].managed, funded, cs, token_balance[c] + unfunded_claims[c])
        /\ token_balance[c] \in Nat
    BY <2>1 DEF VestingInv, BooksInv, ContractOK, LedgerOK
  <2>4. ASSUME extensions[c].managed
        PROVE  unfunded[c] = {} /\ unfunded_claims[c] = 0
    <3>1. c # "pcl"
      BY <2>4, Extensions
    <3> QED BY <3>1, PlainContract
  <2>5. ASSUME extensions[c].managed PROVE Funded(c) = DOMAIN vesting_info[c]
    BY <2>4, <2>5 DEF Funded
  <2>6. ASSUME extensions[c].managed PROVE Owed(funded) = token_balance[c]
    <3>1. Owed(funded) = token_balance[c] + 0
      BY <2>3, <2>4, <2>6 DEF BooksOK
    <3> QED BY <2>3, <3>1
  <2>7. Owed(funded) <= token_balance[c] + unfunded_claims[c]
    BY <2>3 DEF BooksOK
  <2> QED BY <2>2, <2>4, <2>5, <2>6, <2>7
<1> QED BY <1>1, VestingInvariant, PTL

\* The totals of VESTING_STATE, from which the DAO reads voting power, cover the
\* accounts whose tokens came, but for the claims of the others; in a managed
\* contract each total is the sum over the accounts.
THEOREM TotalsMatchAlways == VestingLpSpec => []TotalsMatchAccounts
<1>1. VestingInv => TotalsMatchAccounts
  <2> SUFFICES ASSUME VestingInv, NEW c \in Vestings
               PROVE  /\ UnclaimedOfAll(c) <= TotalUnclaimed(c) + unfunded_claims[c]
                      /\ (extensions[c].managed /\ vesting_state[c] # NONE) =>
                           /\ vesting_state[c].total_granted
                                = GrantedTo(vesting_info[c], DOMAIN vesting_info[c])
                           /\ vesting_state[c].total_released
                                = PaidTo(vesting_info[c], DOMAIN vesting_info[c])
    BY DEF TotalsMatchAccounts, GrantedTo, PaidTo
  <2>1. PICK state, k, b, funded, cs :
            /\ state = vesting_state[c] /\ k = unfunded_claims[c] /\ b = token_balance[c] + k
            /\ funded = Without(vesting_info[c], unfunded[c]) /\ cs = Credited(state, k)
    OBVIOUS
  <2>2. /\ BooksOK(extensions[c].managed, funded, cs, b)
        /\ k \in Nat /\ state \in VestingStates \cup {NONE} /\ ClaimsOK(state, k)
        /\ AccountsOK(funded, now) /\ now \in Nat
    BY <2>1, TimeAssumption DEF VestingInv, BooksInv, ContractOK, LedgerOK
  <2>3. UnclaimedOfAll(c) = Owed(funded)
    BY <2>1, FundedAccounts
  <2>4. UnclaimedOfAll(c) <= TotalUnclaimed(c) + unfunded_claims[c]
    <3>1. CASE state = NONE
      <4>1. DOMAIN funded = {}
        BY <2>1, <2>2, <3>1 DEF BooksOK, Credited
      <4>2. Owed(funded) = 0
        BY <4>1, NoBooks
      <4> QED BY <2>1, <2>2, <2>3, <3>1, <4>2 DEF TotalUnclaimed
    <3>2. CASE state # NONE
      <4>1. PICK x, y : x = state.total_granted /\ y = state.total_released
        OBVIOUS
      <4>2. x \in Nat /\ y \in Nat
        BY <2>2, <3>2, <4>1 DEF VestingStates
      <4>3. cs = [state EXCEPT !.total_released = @ - k] /\ cs # NONE
        <5>1. cs = [state EXCEPT !.total_released = @ - k]
          BY <2>1, <3>2 DEF Credited
        <5>2. k <= y
          BY <2>2, <3>2, <4>1 DEF ClaimsOK
        <5>3. cs \in VestingStates
          BY <2>2, <3>2, <4>1, <4>2, <5>1, <5>2 DEF VestingStates
        <5> QED BY <5>1, <5>3, OptionAssumption
      <4>4. cs.total_granted = x /\ cs.total_released = y - k
        BY <2>2, <3>2, <4>1, <4>3 DEF VestingStates
      <4>5. Owed(funded) <= cs.total_granted - cs.total_released
        BY <2>2, <4>3 DEF BooksOK
      <4>6. TotalUnclaimed(c) = x - y
        BY <2>1, <3>2, <4>1 DEF TotalUnclaimed
      <4>7. Owed(funded) \in Int
        BY <2>2, SumsOverUsers
      <4> QED BY <2>1, <2>2, <2>3, <4>2, <4>4, <4>5, <4>6, <4>7
    <3> QED BY <3>1, <3>2
  <2>5. ASSUME extensions[c].managed, vesting_state[c] # NONE
        PROVE  /\ vesting_state[c].total_granted
                      = GrantedTo(vesting_info[c], DOMAIN vesting_info[c])
               /\ vesting_state[c].total_released
                      = PaidTo(vesting_info[c], DOMAIN vesting_info[c])
    <3>1. PICK infos : infos = vesting_info[c]
      OBVIOUS
    <3>2. /\ BooksOK(extensions[c].managed, infos, state, token_balance[c])
          /\ AccountsOK(infos, now) /\ now \in Nat
      <4>1. c # "pcl"
        BY <2>5, Extensions
      <4> QED BY <2>1, <3>1, <4>1, PlainContract
    <3>3. /\ state.total_granted = TotalOf(Granted(infos))
          /\ state.total_released = TotalOf(Paid(infos))
      BY <2>1, <2>5, <3>2 DEF BooksOK
    <3> QED BY <2>1, <3>1, <3>2, <3>3, SumsOverUsers
  <2> QED BY <2>4, <2>5
<1> QED BY <1>1, VestingInvariant, PTL

\* compute_available_amount never fails for an account whose tokens came: its
\* schedules are valid, and it was never paid more than they have released.
THEOREM NeverAheadAlways == VestingLpSpec => []NeverAheadOfSchedule
<1>1. VestingInv => NeverAheadOfSchedule
  <2> SUFFICES ASSUME VestingInv, NEW c \in Vestings, NEW u \in Funded(c)
               PROVE  /\ \A i \in DOMAIN vesting_info[c][u].schedules :
                             Releasable(vesting_info[c][u].schedules[i])
                      /\ Available(vesting_info[c][u]) >= 0
    BY DEF NeverAheadOfSchedule
  <2>1. PICK info, s, funded : /\ info = vesting_info[c][u] /\ s = info.schedules
                               /\ funded = Without(vesting_info[c], unfunded[c])
    OBVIOUS
  <2>2. AccountsOK(funded, now) /\ now \in Nat
    BY <2>1, TimeAssumption DEF VestingInv, BooksInv, ContractOK, LedgerOK
  <2>3. u \in DOMAIN funded /\ funded[u] = info
    BY <2>1, FundedAccounts
  <2>4. Fair(info, now)
    BY <2>2, <2>3 DEF AccountsOK
  <2>5. /\ info.released_amount <= TotalReleased(info.schedules, now)
        /\ info.released_amount \in Nat /\ TotalReleased(info.schedules, now) \in Nat
    BY <2>2, <2>4, FairAccount
  <2>6. Available(info) = TotalReleased(info.schedules, now) - info.released_amount
    BY AvailableIs
  <2>7. ASSUME NEW i \in DOMAIN s PROVE Releasable(s[i])
    <3>1. s \in Seq(ValidSchedules)
      BY <2>1, <2>4 DEF Fair, AccountInfos
    <3>2. s[i] \in ValidSchedules
      BY <3>1
    <3>3. PICK x : x = s[i]
      OBVIOUS
    <3>4. x \in Schedules /\ ValidSchedule(x)
      BY <3>2, <3>3 DEF ValidSchedules
    <3>5. Releasable(x)
      <4> SUFFICES ASSUME x.end_point # NONE
                   PROVE  /\ x.start_point.time <= x.end_point.time
                          /\ x.start_point.amount <= x.end_point.amount
        BY DEF Releasable
      <4>1. x.start_point \in SchedulePoints /\ x.end_point \in SchedulePoints
        BY <3>4 DEF Schedules
      <4>2. /\ x.start_point.time \in Nat /\ x.start_point.amount \in Nat
            /\ x.end_point.time \in Nat /\ x.end_point.amount \in Nat
        BY <4>1 DEF SchedulePoints
      <4>3. x.start_point.time < x.end_point.time /\ x.start_point.amount < x.end_point.amount
        BY <3>4 DEF ValidSchedule
      <4> QED BY <4>2, <4>3
    <3> QED BY <3>3, <3>5
  <2>8. Available(info) >= 0
    BY <2>5, <2>6
  <2> QED BY <2>1, <2>7, <2>8
<1> QED BY <1>1, VestingInvariant, PTL

\* A migration moves the tokens that its own calls brought, all of them and no
\* others: only a gift changes what vesting-lp holds besides its vesting token.
THEOREM OthersTokensNeverTouched == VestingLpSpec => OthersTokensUntouched
<1>1. VestingInv /\ [VestingLpStep]_lpMigrationVars
        => [lp_holds' # lp_holds =>
               lp_holds' = [ntrn |-> DONATION, paired |-> DONATION, pcl_lp |-> DONATION]
               /\ UNCHANGED vestingVars]_lpMigrationVars
  <2> SUFFICES ASSUME VestingInv, [VestingLpStep]_lpMigrationVars, lp_holds' # lp_holds
               PROVE  lp_holds' = [ntrn |-> DONATION, paired |-> DONATION, pcl_lp |-> DONATION]
                      /\ UNCHANGED vestingVars
    OBVIOUS
  <2>1. CASE Donate
    BY <2>1 DEF Donate
  <2>2. ASSUME NEW u \in Users, NEW price \in SharePrices, NEW m \in MintedLp,
               MigrateLiquidityToPCLPool(u, price, m)
        PROVE  FALSE
    BY <2>2, MigrateStep
  <2>3. CASE migrate \/ UNCHANGED lpMigrationVars \/ UNCHANGED <<lp_migrated, lp_holds>>
             \/ \E u \in Users, info \in DirectInfos : receive_cw20(u, info)
    BY <2>3 DEF migrate, lpMigrationVars, receive_cw20
  <2> QED BY <2>1, <2>2, <2>3 DEF VestingLpStep
<1> QED BY <1>1, VestingInvariant, PTL DEF VestingLpSpec, OthersTokensUntouched
-----------------------------------------------------------------------------
(***************************************************************************)
(* The refinement of Handover, step by step: a message is an Offer, a Lapse *)
(* or a TakeOver of the contract it is sent to, a new block lets any number *)
(* of proposals lapse.                                                      *)
(***************************************************************************)
OwnerOf(c) == vesting_config[c].owner
\* The heirs of a contract under the refinement mapping.
HeirsOf(c) == Heirs(ownership_proposal[c])

\* What a step means for the ownership of one contract.
Handed(c) ==
    \/ OwnerOf(c)' = OwnerOf(c) /\ HeirsOf(c)' = HeirsOf(c)
    \/ OwnerOf(c)' = OwnerOf(c) /\ \E a \in Senders \ {OwnerOf(c)} : HeirsOf(c)' = {a}
    \/ OwnerOf(c)' = OwnerOf(c) /\ HeirsOf(c)' = {}
    \/ OwnerOf(c)' \in HeirsOf(c) /\ HeirsOf(c)' = {}

\* A step of a contract is a step of the abstract handover, or none.
LEMMA HandoverStep ==
    ASSUME VestingInv, [VestingLpStep]_lpMigrationVars, NEW c \in Vestings
    PROVE  Handed(c)
<1>1. now \in Nat /\ FieldsOK
  BY TimeAssumption DEF VestingInv
<1>2. ASSUME UNCHANGED <<now, vesting_config, ownership_proposal>> PROVE Handed(c)
  BY <1>2 DEF Handed, OwnerOf, HeirsOf, Heirs
<1>3. CASE VestingTick
  <2>1. now' = now + 1 /\ UNCHANGED <<vesting_config, ownership_proposal>>
    BY <1>3 DEF VestingTick, NextBlock, vestingAdmin
  <2>2. OwnerOf(c)' = OwnerOf(c)
    BY <2>1 DEF OwnerOf
  <2>3. HeirsOf(c)' = HeirsOf(c) \/ HeirsOf(c)' = {}
    <3>1. ownership_proposal[c] # NONE => ownership_proposal[c].ttl \in Nat
      BY <1>1 DEF FieldsOK
    <3> QED BY <1>1, <2>1, <3>1 DEF HeirsOf, Heirs
  <2> QED BY <2>2, <2>3 DEF Handed
<1>4. ASSUME NEW d \in deployed, NEW s \in Senders, NEW asset \in VestingAssets,
             set_vesting_token(d, s, asset)
      PROVE  Handed(c)
  <2>1. UNCHANGED <<now, ownership_proposal>>
        /\ vesting_config' = [vesting_config EXCEPT ![d].vesting_token = asset]
    BY <1>4 DEF set_vesting_token
  <2>2. d \in Vestings
    BY <1>1, VestingAssumption DEF FieldsOK
  <2>3. vesting_config'[c].owner = vesting_config[c].owner
    BY <1>1, <2>1, <2>2 DEF FieldsOK
  <2> QED BY <2>1, <2>3 DEF Handed, OwnerOf, HeirsOf, Heirs
<1>5. ASSUME NEW d \in deployed, NEW s \in Senders, NEW a \in NewOwners, NEW t \in ExpiresIn,
             propose_new_owner(d, s, a, t)
      PROVE  Handed(c)
  <2>1. /\ UNCHANGED <<now, vesting_config>>
        /\ ownership_proposal' = [ownership_proposal EXCEPT ![d] = ProposalOf(a, t)]
        /\ a # vesting_config[d].owner
    BY <1>5 DEF propose_new_owner, ProposalAccepted
  <2>2. CASE c # d
    <3>1. ownership_proposal'[c] = ownership_proposal[c]
      BY <1>1, <2>1, <2>2 DEF FieldsOK
    <3> QED BY <2>1, <3>1 DEF Handed, OwnerOf, HeirsOf, Heirs
  <2>3. CASE c = d
    <3>1. ownership_proposal'[c] = [owner |-> a, ttl |-> now + t]
      BY <1>1, <2>1, <2>3 DEF FieldsOK, ProposalOf
    <3>2. a \in Senders \ {vesting_config[c].owner} /\ t \in Nat
      BY <2>1, <2>3, ProposalAssumption
    <3>3. HeirsOf(c)' = {a} \/ HeirsOf(c)' = {}
      BY <3>1 DEF HeirsOf, Heirs
    <3> QED BY <2>1, <3>2, <3>3 DEF Handed, OwnerOf
  <2> QED BY <2>2, <2>3
<1>6. ASSUME NEW d \in deployed, NEW s \in Senders, drop_ownership_proposal(d, s)
      PROVE  Handed(c)
  <2>1. /\ UNCHANGED <<now, vesting_config>>
        /\ ownership_proposal' = [ownership_proposal EXCEPT ![d] = NONE]
    BY <1>6 DEF drop_ownership_proposal
  <2>2. CASE c # d
    <3>1. ownership_proposal'[c] = ownership_proposal[c]
      BY <1>1, <2>1, <2>2 DEF FieldsOK
    <3> QED BY <2>1, <3>1 DEF Handed, OwnerOf, HeirsOf, Heirs
  <2>3. CASE c = d
    <3>1. ownership_proposal'[c] = NONE
      BY <1>1, <2>1, <2>3 DEF FieldsOK
    <3>2. HeirsOf(c)' = {}
      BY <3>1 DEF HeirsOf, Heirs
    <3> QED BY <2>1, <3>2 DEF Handed, OwnerOf
  <2> QED BY <2>2, <2>3
<1>7. ASSUME NEW d \in deployed, NEW s \in Senders, claim_ownership(d, s)
      PROVE  Handed(c)
  <2>1. /\ now' = now
        /\ ownership_proposal' = [ownership_proposal EXCEPT ![d] = NONE]
        /\ vesting_config' = [vesting_config EXCEPT ![d].owner = ownership_proposal[d].owner]
        /\ ownership_proposal[d] # NONE /\ now <= ownership_proposal[d].ttl
    BY <1>7 DEF claim_ownership, OwnershipClaimable
  <2>2. CASE c # d
    <3>1. ownership_proposal'[c] = ownership_proposal[c]
          /\ vesting_config'[c] = vesting_config[c]
      BY <1>1, <2>1, <2>2 DEF FieldsOK
    <3> QED BY <2>1, <3>1 DEF Handed, OwnerOf, HeirsOf, Heirs
  <2>3. CASE c = d
    <3>1. ownership_proposal'[c] = NONE
          /\ vesting_config'[c].owner = ownership_proposal[c].owner
      BY <1>1, <2>1, <2>3 DEF FieldsOK
    <3>2. HeirsOf(c)' = {}
      BY <3>1 DEF HeirsOf, Heirs
    <3>3. OwnerOf(c)' \in HeirsOf(c)
      BY <2>1, <2>3, <3>1 DEF OwnerOf, HeirsOf, Heirs
    <3> QED BY <3>2, <3>3 DEF Handed
  <2> QED BY <2>2, <2>3
<1>8. CASE VestingStep
  <2>1. PICK d \in deployed, s \in Senders :
          \/ \E asset \in VestingAssets, accounts \in VestingRequests, a \in VestingAmounts :
                 register_vesting_accounts(d, s, asset, accounts, a)
          \/ \E a \in ClaimAmounts \cup {NONE} : claim(d, s, a)
          \/ \E accounts \in SUBSET Users : remove_vesting_accounts(d, s, accounts)
          \/ \E asset \in VestingAssets : set_vesting_token(d, s, asset)
          \/ VestingAdminStep(d, s)
    BY <1>8 DEF VestingStep
  <2>2. CASE \/ \E asset \in VestingAssets, accounts \in VestingRequests, a \in VestingAmounts :
                    register_vesting_accounts(d, s, asset, accounts, a)
             \/ \E a \in ClaimAmounts \cup {NONE} : claim(d, s, a)
             \/ \E accounts \in SUBSET Users : remove_vesting_accounts(d, s, accounts)
    <3>1. UNCHANGED <<now, vestingAdmin>>
      BY <2>2 DEF register_vesting_accounts, claim, remove_vesting_accounts
    <3> QED BY <1>2, <3>1 DEF vestingAdmin
  <2>3. CASE VestingAdminStep(d, s)
    <3>1. CASE \E managers \in {{a} : a \in NewOwners} :
                  \/ add_vesting_managers(d, s, managers)
                  \/ remove_vesting_managers(d, s, managers)
      BY <1>2, <3>1 DEF add_vesting_managers, remove_vesting_managers
    <3> QED BY <1>5, <1>6, <1>7, <2>3, <3>1 DEF VestingAdminStep
  <2> QED BY <1>4, <2>1, <2>2, <2>3
<1>9. CASE migrate \/ Donate \/ UNCHANGED lpMigrationVars
  BY <1>2, <1>9 DEF migrate, Donate, lpMigrationVars, vestingVars, vestingAdmin
<1>10. ASSUME NEW u \in Users, NEW price \in SharePrices, NEW m \in MintedLp,
              MigrateLiquidityToPCLPool(u, price, m)
       PROVE  Handed(c)
  BY <1>2, <1>10 DEF MigrateLiquidityToPCLPool, vestingAdmin
<1>11. ASSUME NEW u \in Users, NEW info \in DirectInfos, receive_cw20(u, info)
       PROVE  Handed(c)
  BY <1>2, <1>11 DEF receive_cw20, vestingAdmin
<1> QED BY <1>3, <1>8, <1>9, <1>10, <1>11 DEF VestingLpStep

\* propose_new_owner, drop_ownership_proposal and claim_ownership, with the
\* clock, implement the abstract handover: a contract changes hands only to an
\* address its owner named, in time, and once.
THEOREM HandoverImplemented == VestingLpSpec => OwnershipHandedOver
<1>1. VestingLpInit => OwnerHandover!HandoverInit
  <2> SUFFICES ASSUME VestingLpInit PROVE OwnerHandover!HandoverInit
    OBVIOUS
  <2>1. ASSUME NEW c \in Vestings PROVE vesting_config[c].owner = OWNER /\ ownership_proposal[c] = NONE
    BY DEF VestingLpInit, VestingInit
  <2>2. OWNER \in Senders
    BY DEF Senders
  <2> QED BY <2>1, <2>2 DEF OwnerHandover!HandoverInit, Heirs
<1>2. VestingInv /\ [VestingLpStep]_lpMigrationVars
        => [\A c \in Vestings :
               OwnerHandover!Keep(c) \/ OwnerHandover!Offer(c)
               \/ OwnerHandover!Lapse(c) \/ OwnerHandover!TakeOver(c)]_<<
                   [c \in Vestings |-> vesting_config[c].owner],
                   [c \in Vestings |-> Heirs(ownership_proposal[c])]>>
  <2> SUFFICES ASSUME VestingInv, [VestingLpStep]_lpMigrationVars, NEW c \in Vestings
               PROVE  OwnerHandover!Keep(c) \/ OwnerHandover!Offer(c)
                      \/ OwnerHandover!Lapse(c) \/ OwnerHandover!TakeOver(c)
    OBVIOUS
  <2>1. Handed(c)
    BY HandoverStep
  <2>2. /\ [d \in Vestings |-> vesting_config[d].owner][c] = OwnerOf(c)
        /\ [d \in Vestings |-> vesting_config'[d].owner][c] = OwnerOf(c)'
        /\ [d \in Vestings |-> Heirs(ownership_proposal[d])][c] = HeirsOf(c)
        /\ [d \in Vestings |-> Heirs(ownership_proposal[d])]'[c] = HeirsOf(c)'
    BY DEF OwnerOf, HeirsOf, Heirs
  <2> QED BY <2>1, <2>2 DEF Handed, OwnerHandover!Keep, OwnerHandover!Offer,
                            OwnerHandover!Lapse, OwnerHandover!TakeOver
<1> QED BY <1>1, <1>2, VestingInvariant, PTL
        DEF VestingLpSpec, OwnershipHandedOver, OwnerHandover!HandoverSpec
=============================================================================
