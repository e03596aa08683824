---------------------------- MODULE Exponential -----------------------------
(***************************************************************************)
(* The strategies of package backoff: the delays each may draw.            *)
(*                                                                         *)
(* A delay is a number of units.  Its float64 is an exact number here: it  *)
(* grows past what a time.Duration holds, which is MaxDuration, and is     *)
(* clamped before it is converted.  The random draw is its two ends and    *)
(* its middle.                                                             *)
(***************************************************************************)
EXTENDS Integers

CONSTANTS
  MaxDuration,   \* math.MaxInt64.
  Horizon        \* How far a schedule is followed.

ASSUME DurationsAssumption == MaxDuration \in Nat \ {0} /\ Horizon \in Nat

\* A Constant strategy, and an Exponential: the factor is a fraction, the
\* jitter in hundredths.
Constant(delay) == [type |-> "constant", delay |-> delay]
Exponential(base, num, den, jitter, limit) ==
  [type |-> "exponential", base |-> base, num |-> num, den |-> den,
   jitter |-> jitter, limit |-> limit]

\* Its delays are of type time.Duration.
IsStrategy(s) ==
  \/ s.type = "constant" /\ s.delay \in 0..MaxDuration
  \/ /\ s.type = "exponential"
     /\ {s.base, s.num, s.jitter, s.limit} \subseteq Int /\ s.den \in Nat \ {0}
     /\ s.base <= MaxDuration /\ s.limit <= MaxDuration

DefaultBase == 250
DefaultNum  == 3
DefaultDen  == 2

\* A setting that is zero or less means its default.
Base(s)  == IF s.base > 0 THEN s.base ELSE DefaultBase
Num(s)   == IF s.num > 0 THEN s.num ELSE DefaultNum
Den(s)   == IF s.num > 0 THEN s.den ELSE DefaultDen
Limit(s) == IF s.limit > 0 THEN s.limit ELSE MaxDuration

\* Mutant: the power of the attempt after.
NominalAhead(s) ==
  LET x[n \in 0..Horizon] == IF n = 0 THEN Base(s) ELSE (x[n - 1] * Num(s)) \div Den(s)
  IN x

\* `float64(base) * math.Pow(f, float64(n-1))'.
Nominal(s) ==
  LET x[n \in 1..Horizon] == IF n = 1 THEN Base(s) ELSE (x[n - 1] * Num(s)) \div Den(s)
  IN x

\* A jitter outside (0, 1) is none.
Jittered(s, x) ==
  IF 0 < s.jitter /\ s.jitter < 100
  THEN {x - (x * s.jitter) \div 100, x, x + (x * s.jitter) \div 100}
  ELSE {x}

\* Mutant: not clamped after the jitter.
DelayUnclamped(s, n) ==
  IF n = 0 THEN {0}
  ELSE IF s.type = "constant" THEN {s.delay}
  ELSE LET x == Nominal(s)[n]
       IN IF x >= Limit(s) THEN {Limit(s)} ELSE Jittered(s, x)

\* None before the first attempt.  An exponential one is clamped before the
\* jitter and again after it.
Delay(s, n) ==
  IF n = 0 THEN {0}
  ELSE IF s.type = "constant" THEN {s.delay}
  ELSE LET x == Nominal(s)[n]
       IN IF x >= Limit(s) THEN {Limit(s)}
          ELSE {IF y >= Limit(s) THEN Limit(s) ELSE y : y \in Jittered(s, x)}
=============================================================================
