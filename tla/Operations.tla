----------------------------- MODULE Operations -----------------------------
(***************************************************************************)
(* The operations of Client, one definition each: what the operation       *)
(* refuses before anything is sent, and the request it makes of            *)
(* httputil.Client otherwise.                                              *)
(*                                                                         *)
(* A field of a request is told apart only as far as the code looks at it: *)
(* a name or a token is there or not, Data is nil, empty or has bytes, a mode or a state is one of Wire's   *)
(* values or, "Undefined", a number that names none.                       *)
(***************************************************************************)
EXTENDS Integers, Sequences, Wire

\* The fields of all the request types together; Unset is the zero value.
Unset == [spool |-> FALSE, queue |-> FALSE, lease |-> FALSE, handle |-> FALSE,
          data |-> "nil", source |-> "none", retryUnknown |-> FALSE,
          mode |-> "Unknown", state |-> "Unknown", wait |-> "default",
          stream |-> FALSE]

\* A check is <<what must hold, the error when it does not>>; the first that
\* fails names the refusal.
Refusal(checks) ==
  LET failing == {i \in DOMAIN checks : ~checks[i][1]}
  IN IF failing = {} THEN "none"
     ELSE checks[CHOOSE i \in failing : \A j \in failing : i <= j][2]

NeedSpool(q)  == <<q.spool, "spool name is required">>
NeedQueue(q)  == <<q.queue, "queue name is required">>
NeedLease(q)  == <<q.lease, "lease is required">>
NeedHandle(q) == <<q.handle, "handle is required">>
OneData(q)    == <<q.data = "nil" \/ q.source = "none", "either Data or DataSource">>

\* What the operation hands to httputil: its policy, how its payload opens,
\* and what it does with a success: drop the body, decode it or stream it.
Operation(checks, policy, payload, takes) ==
  [refusal |-> Refusal(checks), policy |-> policy, payload |-> payload,
   takes |-> takes]

\* `data := req.DataSource.r', or the bytes of Data; without any, nothing is sent.
PayloadOf(q) ==
  IF q.source # "none" THEN q.source
  ELSE IF q.data = "bytes" THEN "memory" ELSE "none"

\* An append is the only change whose unknown result may be retried.
AppendPolicy(q) == IF q.retryUnknown THEN "retrySendUnknown" ELSE "retrySend"

-----------------------------------------------------------------------------
\* Reads of the spool and its queues.
Spool(q)  == Operation(<<NeedSpool(q)>>, "retry", "none", "decode")
Queues(q) == Operation(<<NeedSpool(q)>>, "retry", "none", "decode")
Queue(q)  == Operation(<<NeedSpool(q), NeedQueue(q)>>, "retry", "none", "decode")

\* The zero state lists every state; any other needs its name on the wire.
Messages(q) ==
  Operation(<<NeedSpool(q), NeedQueue(q),
              <<q.state # "Unknown" => HasWire(messageState2wire, q.state), "State">>>>,
            "retry", "none", "decode")

\* Changes of a queue; their settings travel as JSON, from memory.
CreateQueue(q) ==
  Operation(<<NeedSpool(q), NeedQueue(q)>>, "retry", "memory", "decode")
UpdateQueue(q) ==
  Operation(<<NeedSpool(q), NeedQueue(q)>>, "retry", "memory", "drop")
DeleteQueue(q) ==
  Operation(<<NeedSpool(q), NeedQueue(q),
              <<HasWire(queueDeleteMode2wire, q.mode), "Mode">>>>,
            "retry", "none", "drop")

\* Appends.
Send(q) ==
  Operation(<<NeedSpool(q), NeedQueue(q), OneData(q)>>,
            AppendPolicy(q), PayloadOf(q), "drop")
AckAndSend(q) ==
  Operation(<<NeedSpool(q), NeedQueue(q), NeedLease(q), OneData(q)>>,
            AppendPolicy(q), PayloadOf(q), "drop")

\* A delivery, and the settles of one.
Recv(q) ==
  Operation(<<NeedSpool(q), NeedQueue(q), <<q.wait # "negative", "WaitSeconds">>>>,
            "retry", "none", "stream")

Settle(q)  == Operation(<<NeedSpool(q), NeedLease(q)>>, "retry", "none", "drop")
Renew(q)   == Settle(q)
Ack(q)     == Settle(q)
Nack(q)    == Settle(q)
Release(q) == Settle(q)
Fails(q)   == Settle(q)

\* A message by its lease or by its handle.
Discard(q) ==
  Operation(<<NeedSpool(q),
              <<~(q.lease /\ q.handle), "either lease or handle, not both">>,
              <<q.lease \/ q.handle, "either lease or handle">>>>,
            "retry", "none", "drop")
Inspect(q) == Operation(<<NeedSpool(q), NeedHandle(q)>>, "retry", "none", "stream")
Recover(q) == Operation(<<NeedSpool(q), NeedHandle(q)>>, "retry", "none", "drop")

-----------------------------------------------------------------------------
Ops == {"Spool", "Queues", "Messages", "CreateQueue", "Queue", "UpdateQueue",
        "DeleteQueue", "Send", "AckAndSend", "Recv", "Renew", "Ack", "Nack",
        "Release", "Fail", "Discard", "Inspect", "Recover"}

\* A job is an operation and its request.
Wanted(j) ==
  CASE j.op = "Spool"       -> Spool(j.q)
    [] j.op = "Queues"      -> Queues(j.q)
    [] j.op = "Messages"    -> Messages(j.q)
    [] j.op = "CreateQueue" -> CreateQueue(j.q)
    [] j.op = "Queue"       -> Queue(j.q)
    [] j.op = "UpdateQueue" -> UpdateQueue(j.q)
    [] j.op = "DeleteQueue" -> DeleteQueue(j.q)
    [] j.op = "Send"        -> Send(j.q)
    [] j.op = "AckAndSend"  -> AckAndSend(j.q)
    [] j.op = "Recv"        -> Recv(j.q)
    [] j.op = "Renew"       -> Renew(j.q)
    [] j.op = "Ack"         -> Ack(j.q)
    [] j.op = "Nack"        -> Nack(j.q)
    [] j.op = "Release"     -> Release(j.q)
    [] j.op = "Fail"        -> Fails(j.q)
    [] j.op = "Discard"     -> Discard(j.q)
    [] j.op = "Inspect"     -> Inspect(j.q)
    [] j.op = "Recover"     -> Recover(j.q)

\* The request httputil.Client.Do is called with.
HttpRequest(j) ==
  [policy |-> Wanted(j).policy, payload |-> Wanted(j).payload,
   recv |-> Wanted(j).takes = "decode"]
=============================================================================
