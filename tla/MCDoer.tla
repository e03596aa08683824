------------------------------- MODULE MCDoer -------------------------------
(***************************************************************************)
(* The schedules of both clients, one that has no setting at all, one that *)
(* shrinks to nothing, ones whose jitter is out of range or whose limit is *)
(* below the base, and constants; each in a bounded loop, and some in one  *)
(* that resets or has no bound.  MaxDuration is reached within the Horizon *)
(* by the one that has no limit.                                           *)
(***************************************************************************)
EXTENDS Doer

Loop5(strategy) == [strategy |-> strategy, maxAttempts |-> 5, resets |-> FALSE]
Resetting(strategy, most) == [strategy |-> strategy, maxAttempts |-> most, resets |-> TRUE]

MCDoers ==
  {Loop5(s) : s \in {OfClient, Exponential(150, 6, 5, 20, 5000), Exponential(2, 1, 3, 0, 0),
                     Exponential(100, 2, 1, 100, 0), Exponential(100, 3, 1, -50, 300),
                     Exponential(500, 3, 1, 30, 400), Constant(0)}}
    \cup {Resetting(Constant(7), 4), Resetting(Exponential(300, 3, 2, 30, 600), 4),
          Resetting(Exponential(0, 0, 1, 0, 0), 0)}
    \cup {[strategy |-> Exponential(1000, 3, 1, 50, -1), maxAttempts |-> 0, resets |-> FALSE],
          [strategy |-> Constant(1), maxAttempts |-> 1, resets |-> FALSE]}
=============================================================================
