------------------------------ MODULE MCHttpDo ------------------------------
(***************************************************************************)
(* HttpDo on one call of three attempts: calls share nothing in Do, so     *)
(* one call has every behaviour of many.                                   *)
(***************************************************************************)
EXTENDS HttpDo

MCRequests ==
  [policy : Policies, payload : {"none", "seeker", "oneshot"}, recv : {FALSE}]
    \cup [policy : {"retry"}, payload : {"memory"}, recv : {TRUE}]

\* A conflict to retry, a verdict, a rate limit that asks for a wait, a
\* full spool, a gateway's 502 and a plain 503.
MCAnswers == {StatusError(409, "DedupInFlight", 0),
              StatusError(410, "StaleToken", 0),
              StatusError(429, "RateLimited", 2),
              StatusError(507, "SpoolFull", 0),
              StatusError(502, "Unknown", 0),
              StatusError(503, "Unknown", 0)}

MCBreakages == {{"dial"}, {"other"}, {"bodyRead", "dial"}}

\* The exponential delays with their jitter, in units: 0 stands for a draw
\* that rounds down to nothing.
MCBackoff == [i \in 1..Tries |-> IF i = 1 THEN {0, 1} ELSE {1, 3}]
=============================================================================
