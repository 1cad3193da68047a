------------------------ MODULE GenericRetryExecution ------------------------
(***************************************************************************)
(* GenericRetryExecution.java: the delays before the retries of one        *)
(* resource.  The event processor calls nextDelay after each failure that  *)
(* no event has followed, and drops the execution after a success.         *)
(*                                                                         *)
(* The multiplier is a double; here it is the fraction num / den, which a  *)
(* double is exactly.  The rounding of doubles is left out: that of the    *)
(* product beyond 2^53, and of multipliers that need many bits, like 1.1.  *)
(* The conversion of the product to long drops the fraction and stops at   *)
(* the largest long.                                                       *)
(***************************************************************************)
EXTENDS Integers, Sequences

CONSTANTS Configurations,  \* the GenericRetry objects
          MaxLong,         \* Long.MAX_VALUE
          MaxCalls         \* bound: delays asked for when there is no limit

GenericRetry ==
    {c \in [maxAttempts : Int, initialInterval : 0..MaxLong, num : Nat,
            den : Nat, maxInterval : Int] :
        /\ c.maxAttempts >= -1
        /\ c.den > 0
        /\ -1 <= c.maxInterval /\ c.maxInterval <= MaxLong}

ASSUME RetryExecutionAssumption ==
    /\ MaxLong \in Nat
    /\ MaxCalls \in Nat
    /\ Configurations \subseteq GenericRetry

VARIABLES genericRetry,
          lastAttemptIndex,
          currentInterval,
          delays,      \* history: the delays given so far
          exhausted    \* history: the last answer was Optional.empty()

retryVars == <<genericRetry, lastAttemptIndex, currentInterval, delays,
               exhausted>>

RetryInit ==
    /\ genericRetry \in Configurations
    /\ lastAttemptIndex = 0
    /\ currentInterval = genericRetry.initialInterval
    /\ delays = <<>>
    /\ exhausted = FALSE
-------------------------------------------------------------------------------
Least(a, b) == IF a < b THEN a ELSE b

HasLimit == genericRetry.maxAttempts > -1
HasMaximum == genericRetry.maxInterval > -1

\* Mutant of the next definition: off by one.
OneMoreAttempt == HasLimit /\ lastAttemptIndex > genericRetry.maxAttempts

\* isLastAttempt, and the first condition of nextDelay.
IsLastAttempt == HasLimit /\ lastAttemptIndex >= genericRetry.maxAttempts

\* Mutant of the next definition: the product is kept as it is.
Unlimited(interval) == (interval * genericRetry.num) \div genericRetry.den

\* (long) (currentInterval * intervalMultiplier).
Multiplied(interval) ==
    Least((interval * genericRetry.num) \div genericRetry.den, MaxLong)

\* Mutant of the next definition: the maximum is looked at first.
CutBeforeGrowth(interval) ==
    IF HasMaximum /\ interval > genericRetry.maxInterval
      THEN genericRetry.maxInterval ELSE Multiplied(interval)

Grown(interval) ==
    IF HasMaximum THEN Least(Multiplied(interval), genericRetry.maxInterval)
                  ELSE Multiplied(interval)

\* Mutant of the next definition: the first two delays differ.
GrowsFromTheSecond ==
    IF lastAttemptIndex > 0 THEN Grown(currentInterval) ELSE currentInterval

NextInterval ==
    IF lastAttemptIndex > 1 THEN Grown(currentInterval) ELSE currentInterval

\* nextDelay.
GivesDelay ==
    /\ ~IsLastAttempt
    /\ lastAttemptIndex < MaxCalls
    /\ currentInterval' = NextInterval
    /\ lastAttemptIndex' = lastAttemptIndex + 1
    /\ delays' = Append(delays, NextInterval)
    /\ UNCHANGED <<genericRetry, exhausted>>

GivesNone ==
    /\ IsLastAttempt
    /\ exhausted' = TRUE
    /\ UNCHANGED <<genericRetry, lastAttemptIndex, currentInterval, delays>>

RetryNext == GivesDelay \/ GivesNone

RetrySpec == RetryInit /\ [][RetryNext]_retryVars
-------------------------------------------------------------------------------
RetryTypeOK ==
    /\ genericRetry \in GenericRetry
    /\ lastAttemptIndex \in Nat
    /\ currentInterval \in 0..MaxLong
    /\ delays \in Seq(0..MaxLong)
    /\ exhausted \in BOOLEAN

\* As many delays are given as there are attempts, and no retry after them;
\* an unlimited retry never ends (GenericRetryExecution.java:18-20).
LimitIsExact ==
    /\ HasLimit => Len(delays) <= genericRetry.maxAttempts
    /\ exhausted => HasLimit /\ Len(delays) = genericRetry.maxAttempts

\* No delay that has grown exceeds the maximum (line 23); the first two are the
\* initial interval, even if that is larger than the maximum.
DelaysAreCut ==
    \A i \in DOMAIN delays :
        IF i <= 2 THEN delays[i] = genericRetry.initialInterval
                  ELSE HasMaximum => delays[i] <= genericRetry.maxInterval

\* With a multiplier of at least 1 a later retry never waits for a shorter time
\* than an earlier one: neither the cut fraction nor the end of the long range
\* makes the interval smaller.  An initial interval above the maximum is left
\* out: there the third delay is shorter than the second.
DelaysNeverShrink ==
    /\ genericRetry.num >= genericRetry.den
    /\ HasMaximum => genericRetry.initialInterval <= genericRetry.maxInterval
    => \A i, j \in DOMAIN delays : i <= j => delays[i] <= delays[j]

\* The powers of a multiplier.
Powers(base) ==
    LET power[n \in Nat] == IF n = 0 THEN 1 ELSE base * power[n - 1]
    IN  power

\* For a whole multiplier the growth is exponential from the third delay on:
\* cutting at each step is the same as cutting once.
DelaysAreExponential ==
    genericRetry.den = 1 /\ genericRetry.num > 0 =>
        \A i \in DOMAIN delays :
            LET growths == IF i <= 2 THEN 0 ELSE i - 2
                full == Least(genericRetry.initialInterval
                                 * Powers(genericRetry.num)[growths],
                              MaxLong)
            IN  delays[i] = IF HasMaximum /\ i > 2
                              THEN Least(full, genericRetry.maxInterval)
                              ELSE full
===============================================================================
