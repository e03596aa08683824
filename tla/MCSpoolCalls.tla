---------------------------- MODULE MCSpoolCalls ----------------------------
(***************************************************************************)
(* Two calls of two attempts each on one lease and one dedup key: enough   *)
(* for a retry to meet its own earlier attempt, late or under way, and for *)
(* two calls to meet over the key or the lease.                            *)
(***************************************************************************)
EXTENDS SpoolCalls, TLC

CONSTANTS k1, l1

Change(policy, recv, key, lease) ==
  [policy |-> policy, payload |-> "none", recv |-> recv, key |-> key, lease |-> lease]

\* A payload that is fetched over the network, as it is sent.
Fetched(change) == [change EXCEPT !.payload = "oneshot"]

Ack        == Change("retry", FALSE, NoKey, l1)
Create     == Change("retry", TRUE, NoKey, NoLease)
Send       == Change("retrySendUnknown", FALSE, NoKey, NoLease)
SendKeyed  == Change("retrySend", FALSE, k1, NoLease)
SendUnique == Change("retrySendUnknown", FALSE, k1, NoLease)
AckAndSend == Change("retrySendUnknown", FALSE, k1, l1)

OneCallRequests  == {Ack, Create, Send, Fetched(Send), SendKeyed, SendUnique, AckAndSend}
TwoCallsRequests == {Ack, SendUnique, AckAndSend}

\* Of two calls, a timeout alone leaves a result unknown.
TwoCallsAnswers == {StatusError(503, "Unknown", 0), Stale, InFlight, Claimed}
OneCallAnswers  == TwoCallsAnswers \cup {StatusError(500, "OperationUnconfirmed", 0)}

CallSymmetry == Permutations(Calls)

OneCallBreakages  == {{"dial"}, {"bodyRead", "dial"}, {"other"}}
TwoCallsBreakages == {{"dial"}}

MCBackoff == [i \in 1..Tries |-> {1}]
=============================================================================
