-------------------------- MODULE MCOperationLife ---------------------------
(***************************************************************************)
(* An operation, any of them, with a whole request or one that misses one  *)
(* thing, and another that only initialises a client: either may use the   *)
(* client or a clone of it.  Answers are the API's, a newer version's, a   *)
(* gateway's, and longer than what is kept of them.  What a context that   *)
(* ends does to the attempts is left to the runs of HttpDo.                *)
(***************************************************************************)
EXTENDS OperationLife

CONSTANT Bystander   \* The call that is refused.

Job(op, q) == [op |-> op, q |-> q]

Named == [Unset EXCEPT !.spool = TRUE, !.queue = TRUE]
Whole == [Named EXCEPT !.lease = TRUE, !.handle = TRUE, !.mode = "Drain"]

MCJobs ==
  {Job("Spool", Unset), Job("Queues", Named), Job("Queue", Named),
   Job("Messages", [Named EXCEPT !.state = "Undefined"]),
   Job("Messages", [Named EXCEPT !.state = "Failed"]),
   Job("CreateQueue", Named),
   Job("UpdateQueue", [Named EXCEPT !.queue = FALSE]), Job("UpdateQueue", Named),
   Job("DeleteQueue", Named), Job("DeleteQueue", Whole),
   Job("DeleteQueue", [Whole EXCEPT !.mode = "Undefined"]),
   Job("Send", [Named EXCEPT !.data = "empty", !.source = "seeker"]),
   Job("Send", [Named EXCEPT !.source = "seeker"]),
   Job("Send", [Named EXCEPT !.source = "oneshot", !.retryUnknown = TRUE]),
   Job("AckAndSend", Named), Job("AckAndSend", [Whole EXCEPT !.data = "empty", !.retryUnknown = TRUE]),
   Job("Recv", [Named EXCEPT !.wait = "negative"]),
   Job("Recv", Named), Job("Recv", [Named EXCEPT !.stream = TRUE]),
   Job("Renew", Named), Job("Renew", Whole), Job("Ack", Whole), Job("Nack", Whole),
   Job("Release", Whole), Job("Fail", Whole),
   Job("Discard", Whole), Job("Discard", Named),
   Job("Discard", [Whole EXCEPT !.lease = FALSE]),
   Job("Inspect", Named), Job("Inspect", Whole),
   Job("Inspect", [Whole EXCEPT !.stream = TRUE]),
   Job("Recover", Whole)}

\* What the jobs ask of httputil, which JobsAssumption compares with them.
Asks(policy, payload, recv) == [policy |-> policy, payload |-> payload, recv |-> recv]

MCRequests ==
  {Asks("retry", "none", TRUE), Asks("retry", "memory", TRUE),
   Asks("retry", "none", FALSE), Asks("retry", "memory", FALSE),
   Asks("retrySend", "none", FALSE), Asks("retrySend", "seeker", FALSE),
   Asks("retrySendUnknown", "none", FALSE), Asks("retrySendUnknown", "oneshot", FALSE)}

MCJobsOf ==
  [c \in Calls |->
     IF c = Bystander THEN {Job("UpdateQueue", [Named EXCEPT !.queue = FALSE])} ELSE MCJobs]

After(form, n) == [form |-> form, n |-> n]

MCWireAnswers ==
  {[Answer(503) EXCEPT !.form = "other"],
   [Answer(503) EXCEPT !.kind = "newer", !.after = After("date", -1)],
   [Answer(503) EXCEPT !.message = TRUE],
   [Answer(410) EXCEPT !.kind = "stale_token", !.message = TRUE],
   [Answer(410) EXCEPT !.kind = "stale_token", !.message = TRUE, !.long = TRUE],
   [Answer(500) EXCEPT !.kind = "operation_unconfirmed"],
   [Answer(429) EXCEPT !.kind = "rate_limited", !.after = After("malformed", 0)],
   [Answer(429) EXCEPT !.kind = "rate_limited", !.after = After("seconds", 1)],
   [Answer(404) EXCEPT !.kind = "queue_not_found", !.details = "malformed"],
   [Answer(404) EXCEPT !.kind = "queue_not_found", !.details = "null"],
   [Answer(507) EXCEPT !.kind = "spool_full", !.details = "object", !.limit = "dataBytes"],
   [Answer(507) EXCEPT !.kind = "spool_full", !.details = "object", !.limit = "newer"]}

\* The failures Do makes of them, which WireAssumption compares with them.
MCAnswers ==
  {StatusError(503, "Unknown", 0), StatusError(500, "OperationUnconfirmed", 0),
   StatusError(410, "StaleToken", 0), StatusError(410, "Unknown", 0),
   StatusError(429, "RateLimited", 0), StatusError(429, "RateLimited", 1),
   StatusError(404, "QueueNotFound", 0), StatusError(507, "SpoolFull", 0)}

\* All that can be read, nothing, nothing that can be read, and one thing amiss.
MCWireHeaders ==
  LET all(form) == [h \in HeaderNames |-> form]
  IN {all("readable"), [all("absent") EXCEPT !["Lease"] = "readable"],
      [all("unreadable") EXCEPT !["Lease"] = "readable"]}
       \cup {[all("readable") EXCEPT ![h] = "unreadable"] : h \in HeaderNames \ {"Lease"}}

MCBreakages == {{"dial"}, {"other"}}
MCBackoff   == [i \in 1..Tries |-> {1}]
=============================================================================
