------------------------------ MODULE Failures ------------------------------
(***************************************************************************)
(* The failures of a call and what the client makes of them.               *)
(*                                                                         *)
(* A call of httputil.Client.Do fails with AttemptErrors: the failure of   *)
(* every attempt, oldest first, each one a StatusError (the server or a    *)
(* gateway answered outside 2xx), a TransportError (no answer) or a        *)
(* BodyError (a 2xx answer whose body did not decode).  This module holds  *)
(* the pure decisions taken on them: may the attempt be retried, does it   *)
(* leave the change open, and which errors the caller can match.           *)
(***************************************************************************)
EXTENDS Integers, Sequences, Wire

Max2(a, b) == IF a >= b THEN a ELSE b

\* "Unknown" is ErrorKindUnknown: an answer that names no kind, or one this
\* version of the package does not know.
ErrorKinds == DOMAIN errorKind2wire \cup {"Unknown"}

\* `after' is the Retry-After header, parsed; absent or malformed is 0.
StatusError(code, kind, after) ==
  [type |-> "status", code |-> code, kind |-> kind, after |-> after]

(***************************************************************************)
(* What a transport's error wraps, as errors.As and errors.Is see it.  A   *)
(* payload that is itself fetched over the network can fail with a dial    *)
(* error of its own: bodyReader marks such a chain with "bodyRead".        *)
(***************************************************************************)
ErrorChains == SUBSET {"bodyRead", "dns", "dial", "canceled", "deadline", "other"}

\* Mutant: a network error of the payload's own source passes for one of the
\* connection.
RequestSentByType(chain) == chain \cap {"dns", "dial"} = {}

RequestSent(chain) ==
  \/ "bodyRead" \in chain
  \/ chain \cap {"dns", "dial"} = {}

TransportError(chain) ==
  [type |-> "transport", chain |-> chain, sent |-> RequestSent(chain)]

BodyError(chain) == [type |-> "body", chain |-> chain]

StatusErrors ==
  [type : {"status"}, code : 300..599, kind : ErrorKinds, after : Nat]
TransportErrors == [type : {"transport"}, chain : ErrorChains, sent : BOOLEAN]
BodyErrors      == [type : {"body"}, chain : ErrorChains]

Failures == StatusErrors \cup TransportErrors \cup BodyErrors

-----------------------------------------------------------------------------
(***************************************************************************)
(* The three retry policies of client.go.                                  *)
(***************************************************************************)

\* Mutant: every server error passes for transient.
TransientServerError(f) == f.code \in {429, 500, 502, 503}

\* "Only the docs' transient statuses": 503 and 429, on every operation.
TransientStatus(f) == f.code \in {503, 429}

Retry(f) ==
  /\ f.type = "status"
  /\ f.kind \in {"QueueBusy", "QueueCreating"} \/ TransientStatus(f)

RetrySend(f) ==
  /\ f.type = "status"
  /\ f.kind = "DedupInFlight" \/ TransientStatus(f)

\* One attempt's failure leaves open that the change happened.
AttemptUnknown(f) ==
  \/ f.type = "status" /\ f.code >= 500 /\ f.code \notin {507, 503}
  \/ f.type = "transport" /\ f.sent
  \/ f.type = "body"

RetrySendUnknown(f) == RetrySend(f) \/ AttemptUnknown(f)

Policies == {"retry", "retrySend", "retrySendUnknown"}

Allows(policy, f) ==
  \/ policy = "retry" /\ Retry(f)
  \/ policy = "retrySend" /\ RetrySend(f)
  \/ policy = "retrySendUnknown" /\ RetrySendUnknown(f)

-----------------------------------------------------------------------------
(***************************************************************************)
(* What the caller of an operation can match in its error.                 *)
(***************************************************************************)
LastOf(errs) == errs[Len(errs)]

\* Mutant: only the last attempt is looked at.
ResultUnknownOfLast(errs) == errs # <<>> /\ AttemptUnknown(LastOf(errs))

\* Any attempt, not only the last: a later verdict settles nothing.
ResultUnknown(errs) == \E i \in DOMAIN errs : AttemptUnknown(errs[i])

\* A 503 without a kind this package knows.
StatusCondition(errs) ==
  IF /\ errs # <<>>
     /\ LastOf(errs).type = "status"
     /\ LastOf(errs).code = 503
     /\ LastOf(errs).kind = "Unknown"
  THEN {"ErrUnavailable"} ELSE {}

\* The kind of the last answer, or the context error the last failure wraps.
Contract(errs) ==
  IF errs = <<>> THEN {}
  ELSE LET f == LastOf(errs)
       IN IF f.type = "status" THEN {f.kind} \ {"Unknown"}
          ELSE IF "canceled" \in f.chain THEN {"canceled"}
          ELSE f.chain \cap {"deadline"}

RpcError(errs) ==
  Contract(errs) \cup StatusCondition(errs)
    \cup IF ResultUnknown(errs) THEN {"ErrResultUnknown"} ELSE {}
=============================================================================
