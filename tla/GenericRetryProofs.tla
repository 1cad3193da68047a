--------------------------- MODULE GenericRetryProofs ---------------------------
(***************************************************************************)
(* Theorems about the delays of a retry, for every configuration and any   *)
(* number of calls.  What they need is that the last delay given is the    *)
(* interval kept, that there are as many delays as attempts, and that an   *)
(* interval does not get smaller when it grows.  The closed form of the    *)
(* delays needs an induction over the natural numbers besides, by which    *)
(* the powers of a multiplier are what their recursive definition says.    *)
(***************************************************************************)
EXTENDS GenericRetryExecution, SequenceTheorems, WellFoundedInduction, TLAPS

\* The configurations for which delays may not shrink.
GrowingRetry ==
    /\ genericRetry.num >= genericRetry.den
    /\ HasMaximum => genericRetry.initialInterval <= genericRetry.maxInterval

RetryInv ==
    /\ RetryTypeOK
    /\ Len(delays) = lastAttemptIndex
    /\ lastAttemptIndex <= 2 => currentInterval = genericRetry.initialInterval
    /\ HasLimit => lastAttemptIndex <= genericRetry.maxAttempts
    /\ exhausted => IsLastAttempt
    /\ DelaysAreCut
    /\ GrowingRetry =>
          /\ HasMaximum => currentInterval <= genericRetry.maxInterval
          /\ \A i \in DOMAIN delays : delays[i] <= currentInterval
          /\ DelaysNeverShrink
-------------------------------------------------------------------------------
LEMMA GrowthIsNoLoss ==
    ASSUME NEW interval \in Nat, NEW num \in Nat, NEW den \in Nat,
           den > 0, num >= den
    PROVE  (interval * num) \div den >= interval
  <1> DEFINE p == interval * num
  <1>1. interval * den <= p
    <2>1. PICK k \in Nat : num = den + k
      <3>1. num - den \in Nat /\ num = den + (num - den)
        OBVIOUS
      <3> QED
        BY <3>1
    <2>2. p = interval * den + interval * k /\ interval * k >= 0
      BY <2>1
    <2> QED
      BY <2>2
  <1>2. p \in Nat
    OBVIOUS
  <1> HIDE DEF p
  <1> DEFINE q == p \div den
  <1>3. q \in Int /\ p < den * (q + 1)
    BY <1>2
  <1> HIDE DEF q
  <1>4. interval * den < den * (q + 1)
    BY <1>1, <1>2, <1>3
  <1>5. interval < q + 1
    BY <1>3, <1>4
  <1> QED
    BY <1>3, <1>5 DEF q, p

\* An interval that grows stays in the range of long and under the maximum.
LEMMA GrownInterval ==
    ASSUME RetryTypeOK, NEW interval \in 0..MaxLong
    PROVE  /\ Grown(interval) \in 0..MaxLong
           /\ HasMaximum => Grown(interval) <= genericRetry.maxInterval
           /\ /\ genericRetry.num >= genericRetry.den
              /\ HasMaximum => interval <= genericRetry.maxInterval
              => Grown(interval) >= interval
  <1> DEFINE product == (interval * genericRetry.num) \div genericRetry.den
  <1>1. /\ genericRetry.num \in Nat
        /\ genericRetry.den \in Nat /\ genericRetry.den > 0
        /\ genericRetry.maxInterval \in Int
        /\ genericRetry.maxInterval >= -1
        /\ genericRetry.maxInterval <= MaxLong
        /\ MaxLong \in Nat /\ interval \in Nat
    BY RetryExecutionAssumption DEF RetryTypeOK, GenericRetry
  <1>2. product \in Nat
    BY <1>1
  <1>3. genericRetry.num >= genericRetry.den => product >= interval
    BY <1>1, GrowthIsNoLoss
  <1> HIDE DEF product
  <1> QED
    BY <1>1, <1>2, <1>3 DEF Grown, Multiplied, Least, HasMaximum, product

LEMMA NextIntervalType ==
    ASSUME RetryTypeOK
    PROVE  NextInterval \in 0..MaxLong
  BY GrownInterval DEF NextInterval, RetryTypeOK

LEMMA InitialRetry == RetryInit => RetryInv
  <1> SUFFICES ASSUME RetryInit
               PROVE  RetryInv
    OBVIOUS
  <1>1. genericRetry \in GenericRetry
    BY RetryExecutionAssumption DEF RetryInit
  <1>2. genericRetry.initialInterval \in 0..MaxLong
        /\ genericRetry.maxAttempts \in Int
    BY <1>1 DEF GenericRetry
  <1>3. RetryTypeOK
    <2>1. <<>> \in Seq(0..MaxLong)
      OBVIOUS
    <2> QED
      BY <1>1, <1>2, <2>1 DEF RetryInit, RetryTypeOK
  <1>4. Len(delays) = 0 /\ DOMAIN delays = {}
    BY DEF RetryInit
  <1>5. DelaysAreCut /\ DelaysNeverShrink
    BY <1>4 DEF DelaysAreCut, DelaysNeverShrink
  <1>6. HasLimit => lastAttemptIndex <= genericRetry.maxAttempts
    BY <1>2 DEF RetryInit, HasLimit
  <1> QED
    BY <1>3, <1>4, <1>5, <1>6 DEF RetryInit, RetryInv, GrowingRetry

LEMMA DelayGiven ==
    ASSUME RetryInv, GivesDelay
    PROVE  RetryInv'
  <1> DEFINE n == lastAttemptIndex + 1
  <1>1. /\ RetryTypeOK
        /\ genericRetry' = genericRetry /\ exhausted' = exhausted
        /\ delays \in Seq(0..MaxLong) /\ lastAttemptIndex \in Nat
        /\ Len(delays) = lastAttemptIndex
        /\ NextInterval \in 0..MaxLong
        /\ currentInterval' = NextInterval
        /\ lastAttemptIndex' = n
        /\ delays' = Append(delays, NextInterval)
    BY NextIntervalType DEF RetryInv, RetryTypeOK, GivesDelay
  <1>2. /\ delays' \in Seq(0..MaxLong)
        /\ Len(delays') = n
        /\ DOMAIN delays = 1..lastAttemptIndex
        /\ DOMAIN delays' = 1..n
        /\ delays'[n] = NextInterval
        /\ \A i \in 1..lastAttemptIndex : delays'[i] = delays[i]
    BY <1>1
  <1>3. RetryTypeOK'
    BY <1>1, <1>2 DEF RetryTypeOK
  <1>4. n <= 2 => NextInterval = genericRetry.initialInterval
    BY <1>1 DEF NextInterval, RetryInv
  <1>5. n > 2 => NextInterval = Grown(currentInterval)
    BY <1>1 DEF NextInterval
  <1>6. currentInterval \in 0..MaxLong
    BY <1>1 DEF RetryTypeOK
  <1>7. HasLimit' => lastAttemptIndex' <= genericRetry'.maxAttempts
    BY <1>1 DEF GivesDelay, IsLastAttempt, HasLimit, RetryTypeOK, GenericRetry
  <1>8. ~exhausted'
    BY <1>1 DEF GivesDelay, RetryInv
  <1>9. DelaysAreCut'
    <2>1. n > 2 /\ HasMaximum => NextInterval <= genericRetry.maxInterval
      BY <1>1, <1>5, <1>6, GrownInterval
    <2>2. \A i \in 1..lastAttemptIndex :
             IF i <= 2 THEN delays'[i] = genericRetry.initialInterval
                       ELSE HasMaximum => delays'[i] <= genericRetry.maxInterval
      BY <1>2 DEF RetryInv, DelaysAreCut
    <2>3. IF n <= 2 THEN delays'[n] = genericRetry.initialInterval
                    ELSE HasMaximum => delays'[n] <= genericRetry.maxInterval
      BY <1>1, <1>2, <1>4, <2>1
    <2>4. \A i \in 1..n : i \in 1..lastAttemptIndex \/ i = n
      BY <1>1
    <2> QED
      BY <1>1, <1>2, <2>2, <2>3, <2>4 DEF DelaysAreCut, HasMaximum
  <1>10. ASSUME GrowingRetry
         PROVE  /\ HasMaximum => NextInterval <= genericRetry.maxInterval
                /\ NextInterval >= currentInterval
    <2>1. HasMaximum => currentInterval <= genericRetry.maxInterval
      BY <1>10 DEF RetryInv
    <2>2. CASE n <= 2
      BY <1>1, <1>6, <2>1, <2>2 DEF NextInterval
    <2>3. CASE n > 2
      BY <1>1, <1>5, <1>6, <1>10, <2>1, <2>3, GrownInterval DEF GrowingRetry
    <2> QED
      BY <1>1, <2>2, <2>3
  <1>11. ASSUME GrowingRetry
         PROVE  \A i, j \in 1..n : i <= j => delays'[i] <= delays'[j]
    <2>1. \A i \in 1..lastAttemptIndex : delays[i] \in Int
      <3>1. \A i \in 1..Len(delays) : delays[i] \in 0..MaxLong
        BY <1>1, ElementOfSeq
      <3> QED
        BY <1>1, <3>1
    <2>2. \A i \in 1..lastAttemptIndex : delays[i] <= NextInterval
      BY <1>1, <1>2, <1>6, <1>10, <1>11, <2>1 DEF RetryInv
    <2>3. \A i, j \in 1..lastAttemptIndex : i <= j => delays[i] <= delays[j]
      BY <1>2, <1>11 DEF RetryInv, DelaysNeverShrink, GrowingRetry
    <2> QED
      BY <1>1, <1>2, <2>2, <2>3
  <1>12. GrowingRetry' =>
            /\ HasMaximum' => currentInterval' <= genericRetry'.maxInterval
            /\ \A i \in DOMAIN delays' : delays'[i] <= currentInterval'
            /\ DelaysNeverShrink'
    <2> SUFFICES ASSUME GrowingRetry
                 PROVE  /\ HasMaximum => NextInterval <= genericRetry.maxInterval
                        /\ \A i \in 1..n : delays'[i] <= NextInterval
                        /\ \A i, j \in 1..n : i <= j => delays'[i] <= delays'[j]
      BY <1>1, <1>2 DEF GrowingRetry, HasMaximum, DelaysNeverShrink
    <2>1. n \in 1..n /\ \A i \in 1..n : i <= n
      BY <1>1
    <2> QED
      BY <1>2, <1>10, <1>11, <2>1
  <1> QED
    BY <1>1, <1>2, <1>3, <1>4, <1>7, <1>8, <1>9, <1>12 DEF RetryInv

LEMMA NoneGiven ==
    ASSUME RetryInv, GivesNone
    PROVE  RetryInv'
  BY DEF RetryInv, GivesNone, RetryTypeOK, GrowingRetry, HasLimit, HasMaximum,
         IsLastAttempt, DelaysAreCut, DelaysNeverShrink

\* The invariant of all configurations.
THEOREM RetryInvariant == RetrySpec => []RetryInv
  <1>1. RetryInv /\ UNCHANGED retryVars => RetryInv'
    BY DEF RetryInv, retryVars, RetryTypeOK, GrowingRetry, HasLimit, HasMaximum,
           IsLastAttempt, DelaysAreCut, DelaysNeverShrink
  <1>2. RetryInv /\ [RetryNext]_retryVars => RetryInv'
    BY <1>1, DelayGiven, NoneGiven DEF RetryNext
  <1> QED
    BY <1>2, InitialRetry, PTL DEF RetrySpec

\* nextDelay keeps the interval in the range of a long that is no less than 0,
\* as Timer.schedule demands.
THEOREM RetryTypeCorrect == RetrySpec => []RetryTypeOK
  <1>1. RetryInv => RetryTypeOK
    BY DEF RetryInv
  <1> QED
    BY <1>1, RetryInvariant, PTL

\* A resource is retried as often as configured, and not once more.
THEOREM LimitIsKept == RetrySpec => []LimitIsExact
  <1>1. RetryInv => LimitIsExact
    BY DEF RetryInv, LimitIsExact, IsLastAttempt, HasLimit, RetryTypeOK,
           GenericRetry
  <1> QED
    BY <1>1, RetryInvariant, PTL

\* Every delay but the first two is cut at the maximum.
THEOREM DelaysAreBounded == RetrySpec => []DelaysAreCut
  <1>1. RetryInv => DelaysAreCut
    BY DEF RetryInv
  <1> QED
    BY <1>1, RetryInvariant, PTL

\* With a multiplier of at least 1 the delays grow, or stay as they are.
THEOREM DelaysAreMonotonic == RetrySpec => []DelaysNeverShrink
  <1>1. RetryInv => DelaysNeverShrink
    BY DEF RetryInv, GrowingRetry, DelaysNeverShrink
  <1> QED
    BY <1>1, RetryInvariant, PTL
-------------------------------------------------------------------------------
\* A set of natural numbers has a least element: the order is well-founded.
LEMMA LeastElement ==
    ASSUME NEW S, S \subseteq Nat, S # {}
    PROVE  \E m \in S : \A k \in S : m <= k
  <1>1. PICK m \in S : \A k \in S : <<k, m>> \notin OpToRel(<, Nat)
    BY NatLessThanWellFounded, WFMin
  <1>2. \A k \in S : ~(k < m)
    BY <1>1 DEF OpToRel
  <1> QED
    BY <1>2

\* Induction, with the property of a number given by the set of those that
\* have it.
LEMMA InductionOnSet ==
    ASSUME NEW S, 0 \in S, \A n \in Nat : n \in S => n + 1 \in S
    PROVE  Nat \subseteq S
  <1> SUFFICES ASSUME Nat \ S # {}
               PROVE  FALSE
    OBVIOUS
  <1>1. PICK m \in Nat \ S : \A k \in Nat \ S : m <= k
    BY LeastElement
  <1>2. m - 1 \in Nat /\ m - 1 \in S
    BY <1>1
  <1> QED
    BY <1>1, <1>2

\* The values of g up to n are the powers of base.
ArePowers(g, base, n) ==
    g[0] = 1 /\ \A k \in 1..n : g[k] = base * g[k - 1]

\* The powers up to n are a function for each n; these functions agree, and
\* together they are the one that the recursive definition asks for.
LEMMA PowersExist ==
    ASSUME NEW base \in Nat
    PROVE  \E f \in [Nat -> Nat] : \A n \in Nat : ArePowers(f, base, n)
  <1> DEFINE Upto(n) == {g \in [Nat -> Nat] : ArePowers(g, base, n)}
             S == {n \in Nat : Upto(n) # {}}
             f == [n \in Nat |-> (CHOOSE g \in Upto(n) : TRUE)[n]]
  <1>1. 0 \in S
    <2>1. [k \in Nat |-> 1] \in Upto(0)
      BY DEF ArePowers
    <2> QED
      BY <2>1
  <1>2. ASSUME NEW n \in Nat, n \in S
        PROVE  n + 1 \in S
    <2>1. PICK g \in Upto(n) : TRUE
      BY <1>2
    <2> DEFINE h == [g EXCEPT ![n + 1] = base * g[n]]
    <2>2. h \in [Nat -> Nat]
      OBVIOUS
    <2>3. ArePowers(h, base, n + 1)
      <3>1. h[0] = g[0]
        OBVIOUS
      <3>2. ASSUME NEW k \in 1..n PROVE h[k] = base * h[k - 1]
        <4>1. k # n + 1 /\ k - 1 # n + 1 /\ k - 1 \in Nat
          OBVIOUS
        <4> QED BY <4>1 DEF ArePowers
      <3>3. h[n + 1] = base * h[(n + 1) - 1]
        OBVIOUS
      <3> QED
        BY <2>1, <3>1, <3>2, <3>3 DEF ArePowers
    <2>4. h \in Upto(n + 1)
      <3> HIDE DEF h
      <3> QED
        BY <2>2, <2>3
    <2>5. n + 1 \in Nat
      OBVIOUS
    <2> HIDE DEF Upto
    <2> QED
      BY <2>4, <2>5
  <1>3. \A n \in Nat : Upto(n) # {}
    <2> HIDE DEF Upto
    <2> QED
      BY <1>1, <1>2, InductionOnSet
  <1>4. ASSUME NEW n \in Nat, NEW g \in Upto(n), NEW m \in Nat,
               NEW h \in Upto(m), n <= m
        PROVE  \A k \in 0..n : g[k] = h[k]
    <2> DEFINE T == {k \in Nat : k <= n => g[k] = h[k]}
    <2>1. 0 \in T
      BY DEF ArePowers
    <2>2. ASSUME NEW k \in Nat, k \in T
          PROVE  k + 1 \in T
      <3>1. CASE k + 1 <= n
        <4>1. k + 1 \in 1..n /\ k + 1 \in 1..m /\ (k + 1) - 1 = k /\ k <= n
          BY <1>4, <3>1
        <4>2. g[k + 1] = base * g[k] /\ h[k + 1] = base * h[k]
          BY <4>1 DEF ArePowers
        <4> QED
          BY <2>2, <4>1, <4>2
      <3> QED
        BY <3>1
    <2>3. Nat \subseteq T
      <3> HIDE DEF T
      <3> QED
        BY <2>1, <2>2, InductionOnSet
    <2> QED
      BY <2>3
  <1> DEFINE G(n) == CHOOSE g \in Upto(n) : TRUE
  <1>5. \A n \in Nat : G(n) \in Upto(n)
    <2> HIDE DEF Upto
    <2> QED
      BY <1>3
  <1>6. f = [n \in Nat |-> G(n)[n]]
    OBVIOUS
  <1> HIDE DEF f, G
  <1>7. f \in [Nat -> Nat]
    BY <1>5, <1>6
  <1>8. f[0] = 1
    BY <1>5, <1>6 DEF ArePowers
  <1>9. ASSUME NEW k \in Nat, k > 0
        PROVE  f[k] = base * f[k - 1]
    <2>1. k - 1 \in Nat /\ k - 1 <= k /\ k - 1 \in 0..(k - 1) /\ k \in 1..k
      BY <1>9
    <2>2. f[k] = G(k)[k] /\ f[k - 1] = G(k - 1)[k - 1]
      BY <1>6, <2>1
    <2>3. G(k)[k] = base * G(k)[k - 1]
      BY <1>5, <2>1 DEF ArePowers
    <2>4. G(k - 1)[k - 1] = G(k)[k - 1]
      <3>1. G(k - 1) \in Upto(k - 1) /\ G(k) \in Upto(k)
        BY <1>5, <2>1
      <3> HIDE DEF Upto
      <3> QED
        BY <1>4, <2>1, <3>1
    <2> QED
      BY <2>2, <2>3, <2>4
  <1> QED
    BY <1>7, <1>8, <1>9 DEF ArePowers

LEMMA PowersAreDefined ==
    ASSUME NEW base \in Nat
    PROVE  /\ Powers(base) \in [Nat -> Nat]
           /\ Powers(base)[0] = 1
           /\ \A n \in Nat : Powers(base)[n + 1] = base * Powers(base)[n]
  <1> DEFINE IsPower(p) ==
                p = [n \in Nat |-> IF n = 0 THEN 1 ELSE base * p[n - 1]]
  <1>1. PICK f \in [Nat -> Nat] : \A n \in Nat : ArePowers(f, base, n)
    BY PowersExist
  <1>2. IsPower(f)
    <2>1. \A n \in Nat : f[n] = IF n = 0 THEN 1 ELSE base * f[n - 1]
      BY <1>1 DEF ArePowers
    <2> QED
      BY <2>1
  <1>3. Powers(base) = CHOOSE p : IsPower(p)
    BY DEF Powers
  <1>4. IsPower(Powers(base))
    <2> HIDE DEF IsPower
    <2> QED
      BY <1>2, <1>3
  <1> DEFINE p == Powers(base)
  <1> HIDE DEF p
  <1>5. p = [n \in Nat |-> IF n = 0 THEN 1 ELSE base * p[n - 1]]
    BY <1>4 DEF p
  <1>6. p[0] = 1 /\ \A n \in Nat : p[n + 1] = base * p[n]
    <2>1. \A n \in Nat : p[n] = IF n = 0 THEN 1 ELSE base * p[n - 1]
      BY <1>5
    <2> QED
      BY <2>1
  <1>7. p \in [Nat -> Nat]
    <2> DEFINE T == {n \in Nat : p[n] \in Nat}
    <2>1. 0 \in T
      BY <1>6
    <2>2. ASSUME NEW n \in Nat, n \in T PROVE n + 1 \in T
      BY <1>6, <2>2
    <2>3. Nat \subseteq T
      <3> HIDE DEF T
      <3> QED
        BY <2>1, <2>2, InductionOnSet
    <2>4. \A n \in Nat : p[n] \in Nat
      BY <2>3
    <2> QED
      BY <1>5, <2>4
  <1> QED
    BY <1>6, <1>7 DEF p
-------------------------------------------------------------------------------
\* An interval of any size, cut to the range of long and to the maximum.
Cut(x) ==
    IF HasMaximum THEN Least(Least(x, MaxLong), genericRetry.maxInterval)
                  ELSE Least(x, MaxLong)

\* The interval from which the n-th delay, a later one than the second, is cut.
FullInterval(n) ==
    genericRetry.initialInterval * Powers(genericRetry.num)[n - 2]

WholeRetry == genericRetry.den = 1 /\ genericRetry.num > 0

ExponentialInv ==
    WholeRetry =>
        /\ DelaysAreExponential
        /\ lastAttemptIndex > 2 =>
              currentInterval = Cut(FullInterval(lastAttemptIndex))

LEMMA Fields ==
    ASSUME RetryTypeOK
    PROVE  /\ MaxLong \in Nat
           /\ genericRetry.initialInterval \in Nat
           /\ genericRetry.initialInterval <= MaxLong
           /\ genericRetry.num \in Nat
           /\ genericRetry.maxInterval \in Int
           /\ genericRetry.maxInterval <= MaxLong
           /\ HasMaximum => genericRetry.maxInterval >= 0
  BY RetryExecutionAssumption DEF RetryTypeOK, GenericRetry, HasMaximum

LEMMA DivisionByOne ==
    ASSUME NEW x \in Nat
    PROVE  x \div 1 = x
  OBVIOUS

\* An interval in the range of long is multiplied, and the product is cut.
LEMMA GrownIsCut ==
    ASSUME RetryTypeOK, WholeRetry, NEW x \in Nat
    PROVE  Grown(x) = Cut(x * genericRetry.num)
  <1>1. x * genericRetry.num \in Nat
    BY Fields
  <1>2. (x * genericRetry.num) \div genericRetry.den = x * genericRetry.num
    BY <1>1, DivisionByOne DEF WholeRetry
  <1> QED
    BY <1>2 DEF Grown, Multiplied, Cut

LEMMA ProductIsNoLess ==
    ASSUME NEW x \in Nat, NEW k \in Nat, k > 0
    PROVE  x * k \in Nat /\ x * k >= x
  <1>1. PICK j \in Nat : k = j + 1
    <2>1. k - 1 \in Nat /\ k = (k - 1) + 1
      OBVIOUS
    <2> QED
      BY <2>1
  <1>2. x * k = x * j + x /\ x * j \in Nat
    BY <1>1
  <1> QED
    BY <1>2

\* Cutting before a multiplication and after it is the same as cutting after it.
LEMMA CutOnce ==
    ASSUME RetryTypeOK, WholeRetry, NEW x \in Nat
    PROVE  Grown(Cut(x)) = Cut(x * genericRetry.num)
  <1> DEFINE k == genericRetry.num
             m == IF HasMaximum THEN genericRetry.maxInterval ELSE MaxLong
  <1>1. m \in Nat /\ k \in Nat /\ k > 0
    BY Fields DEF WholeRetry
  <1>2. \A y \in Nat : Cut(y) = IF y < m THEN y ELSE m
    BY Fields DEF Cut, Least
  <1> HIDE DEF m, k
  <1>3. CASE x < m
    <2>1. Cut(x) = x
      BY <1>2, <1>3
    <2> QED
      BY <2>1, GrownIsCut
  <1>4. CASE m <= x
    <2>1. Cut(x) = m
      BY <1>1, <1>2, <1>4
    <2>2. x * k \in Nat /\ x * k >= m /\ m * k \in Nat /\ m * k >= m
      BY <1>1, <1>4, ProductIsNoLess
    <2>3. Cut(x * k) = m /\ Cut(m * k) = m
      BY <1>1, <1>2, <2>2
    <2> QED
      BY <1>1, <2>1, <2>3, GrownIsCut DEF k
  <1> QED
    BY <1>1, <1>3, <1>4

\* One more growth is one more power of the multiplier.
LEMMA NextPower ==
    ASSUME RetryTypeOK, NEW n \in Nat, n > 1
    PROVE  /\ FullInterval(n) \in Nat
           /\ FullInterval(n + 1) = FullInterval(n) * genericRetry.num
           /\ FullInterval(2) = genericRetry.initialInterval
  <1> DEFINE p == Powers(genericRetry.num)
  <1>1. genericRetry.num \in Nat /\ genericRetry.initialInterval \in Nat
    BY Fields
  <1>2. /\ p \in [Nat -> Nat] /\ p[0] = 1
        /\ \A j \in Nat : p[j + 1] = genericRetry.num * p[j]
    BY <1>1, PowersAreDefined
  <1> HIDE DEF p
  <1>3. n - 2 \in Nat /\ (n + 1) - 2 = (n - 2) + 1 /\ 2 - 2 = 0
    OBVIOUS
  <1>4. p[n - 2] \in Nat /\ p[(n - 2) + 1] = genericRetry.num * p[n - 2]
    BY <1>2, <1>3
  <1> QED
    BY <1>1, <1>2, <1>3, <1>4 DEF FullInterval, p

\* What DelaysAreExponential says of the i-th delay, and the same in terms of
\* what is cut.
ExpectedDelay(i) ==
    LET growths == IF i <= 2 THEN 0 ELSE i - 2
        full == Least(genericRetry.initialInterval
                         * Powers(genericRetry.num)[growths],
                      MaxLong)
    IN  IF HasMaximum /\ i > 2 THEN Least(full, genericRetry.maxInterval)
                               ELSE full
ClosedForm(i) ==
    IF i > 2 THEN Cut(FullInterval(i)) ELSE genericRetry.initialInterval

LEMMA ExpectedIsClosed ==
    ASSUME RetryTypeOK, NEW i \in Int
    PROVE  ExpectedDelay(i) = ClosedForm(i)
  <1> DEFINE p == Powers(genericRetry.num)
  <1>1. genericRetry.num \in Nat /\ genericRetry.initialInterval \in Nat
        /\ MaxLong \in Nat /\ genericRetry.initialInterval <= MaxLong
    BY Fields
  <1>2. p[0] = 1
    BY <1>1, PowersAreDefined
  <1> HIDE DEF p
  <1>3. CASE i > 2
    BY <1>3 DEF ExpectedDelay, ClosedForm, Cut, FullInterval, p
  <1>4. CASE i <= 2
    <2>1. ExpectedDelay(i) = Least(genericRetry.initialInterval * p[0], MaxLong)
      BY <1>4 DEF ExpectedDelay, p
    <2>2. ExpectedDelay(i) = Least(genericRetry.initialInterval, MaxLong)
      BY <1>1, <1>2, <2>1
    <2> QED
      BY <1>1, <1>4, <2>2 DEF ClosedForm, Least
  <1> QED
    BY <1>3, <1>4

LEMMA ExponentialDelayGiven ==
    ASSUME RetryInv, ExponentialInv, GivesDelay
    PROVE  ExponentialInv'
  <1> DEFINE n == lastAttemptIndex + 1
  <1>1. RetryTypeOK /\ RetryTypeOK'
    BY DelayGiven DEF RetryInv
  <1>2. /\ genericRetry' = genericRetry
        /\ lastAttemptIndex \in Nat /\ Len(delays) = lastAttemptIndex
        /\ currentInterval' = NextInterval
        /\ lastAttemptIndex' = n
        /\ delays' = Append(delays, NextInterval)
        /\ delays \in Seq(0..MaxLong) /\ NextInterval \in 0..MaxLong
    BY <1>1, NextIntervalType DEF GivesDelay, RetryInv, RetryTypeOK
  <1>3. /\ DOMAIN delays = 1..lastAttemptIndex
        /\ DOMAIN delays' = 1..n
        /\ delays'[n] = NextInterval
        /\ \A i \in 1..lastAttemptIndex : delays'[i] = delays[i]
    BY <1>2
  <1>4. /\ WholeRetry' <=> WholeRetry
        /\ \A i : ClosedForm(i)' = ClosedForm(i)
        /\ \A i : Cut(FullInterval(i))' = Cut(FullInterval(i))
    BY <1>2 DEF WholeRetry, ClosedForm, Cut, FullInterval, HasMaximum
  <1> SUFFICES ASSUME WholeRetry
               PROVE  /\ \A i \in 1..n : delays'[i] = ClosedForm(i)
                      /\ n > 2 => NextInterval = Cut(FullInterval(n))
    <2>1. \A i : ExpectedDelay(i)' = ExpectedDelay(i)
      BY <1>2 DEF ExpectedDelay, HasMaximum
    <2>2. \A i \in 1..n : ExpectedDelay(i) = ClosedForm(i)
      BY <1>1, ExpectedIsClosed
    <2>3. (\A i \in 1..n : delays'[i] = ExpectedDelay(i)')
             => DelaysAreExponential'
      BY <1>3 DEF DelaysAreExponential, ExpectedDelay
    <2> QED
      BY <1>2, <1>4, <2>1, <2>2, <2>3 DEF ExponentialInv
  <1>5. \A i \in 1..lastAttemptIndex : delays'[i] = ClosedForm(i)
    <2>1. \A i \in DOMAIN delays : delays[i] = ExpectedDelay(i)
      BY DEF ExponentialInv, DelaysAreExponential, WholeRetry, ExpectedDelay
    <2>2. \A i \in DOMAIN delays : ExpectedDelay(i) = ClosedForm(i)
      BY <1>1, <1>3, ExpectedIsClosed
    <2> QED
      BY <1>3, <2>1, <2>2
  <1>6. n > 2 => NextInterval = Cut(FullInterval(n))
    <2>1. CASE n = 3
      <3>1. NextInterval = Grown(genericRetry.initialInterval)
        BY <1>2, <2>1 DEF NextInterval, RetryInv
      <3>2. NextInterval = Cut(genericRetry.initialInterval * genericRetry.num)
        BY <1>1, <3>1, Fields, GrownIsCut
      <3>3. FullInterval(2 + 1) = genericRetry.initialInterval * genericRetry.num
        BY <1>1, NextPower
      <3> QED
        BY <2>1, <3>2, <3>3
    <2>2. CASE n > 3
      <3>1. /\ lastAttemptIndex > 2
            /\ NextInterval = Grown(Cut(FullInterval(lastAttemptIndex)))
        BY <1>2, <2>2 DEF NextInterval, ExponentialInv
      <3>2. /\ FullInterval(lastAttemptIndex) \in Nat
            /\ FullInterval(n) =
                  FullInterval(lastAttemptIndex) * genericRetry.num
        BY <1>1, <1>2, <3>1, NextPower
      <3> QED
        BY <1>1, <3>1, <3>2, CutOnce
    <2> QED
      BY <1>2, <2>1, <2>2
  <1>7. NextInterval = ClosedForm(n)
    BY <1>2, <1>6 DEF ClosedForm, NextInterval, RetryInv
  <1> QED
    BY <1>2, <1>3, <1>5, <1>6, <1>7

\* The closed form of the delays, for a whole multiplier of at least 1: the
\* n-th is the initial interval times the power of the multiplier, cut once,
\* however often the loop of nextDelay has cut it before.
THEOREM DelaysHaveClosedForm == RetrySpec => []DelaysAreExponential
  <1>1. RetryInit => ExponentialInv
    <2> SUFFICES ASSUME RetryInit
                 PROVE  ExponentialInv
      OBVIOUS
    <2>1. DOMAIN delays = {} /\ lastAttemptIndex = 0
      BY DEF RetryInit
    <2> QED
      BY <2>1 DEF ExponentialInv, DelaysAreExponential
  <1>2. RetryInv /\ ExponentialInv /\ [RetryNext]_retryVars => ExponentialInv'
    <2>1. ExponentialInv /\ UNCHANGED <<genericRetry, lastAttemptIndex,
                                       currentInterval, delays>>
             => ExponentialInv'
      BY DEF ExponentialInv, WholeRetry, Cut, FullInterval, HasMaximum,
             DelaysAreExponential
    <2> QED
      BY <2>1, ExponentialDelayGiven DEF RetryNext, GivesNone, retryVars
  <1>3. RetryInv /\ ExponentialInv => DelaysAreExponential
    BY DEF ExponentialInv, DelaysAreExponential, WholeRetry
  <1> QED
    BY <1>1, <1>2, <1>3, RetryInvariant, PTL DEF RetrySpec
===============================================================================
