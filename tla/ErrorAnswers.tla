---------------------------- MODULE ErrorAnswers ----------------------------
(***************************************************************************)
(* What the client reads from an answer outside 2xx.                       *)
(*                                                                         *)
(* An answer on the wire is its status, its Retry-After header and a body. *)
(* The API's body is a JSON object of a kind, a message and details; what  *)
(* comes from a gateway, or from a newer version of the API, may be        *)
(* anything.  Of the body the client keeps the first 4096 bytes.           *)
(***************************************************************************)
EXTENDS Failures

Header == [form : {"absent", "malformed", "seconds", "date"}, n : Int]

\* The API's body: an object that fits, with nothing in it and no header.
Answer(code) ==
  [code |-> code,
   form |-> "object",      \* or "other": anything the decoder refuses.
   long |-> FALSE,         \* The object runs past what is kept.
   kind |-> "",            \* Its name on the wire, "" when there is none.
   message |-> FALSE,
   details |-> "absent",   \* "absent", "null", "object", or "malformed":
                           \* not the object the kind has.
   limit |-> Absent,       \* In the details of spool_full: the cap's name.
   after |-> [form |-> "absent", n |-> 0]]

\* An answer that names a kind, carries a message, or both.
OfAPI(a) == a.form = "object" /\ (a.kind # "" \/ a.message)

\* ParseRetryAfter: a delay, or a date relative to now, which may be past.
Parses(h) == h.form \in {"seconds", "date"}
ParseRetryAfter(h) == IF Parses(h) THEN Max2(h.n, 0) ELSE 0

\* StatusError.Desc: what was kept of the body decodes.
Desc(a) == a.form = "object" /\ ~a.long

\* errorObj.toKind: a kind this version does not know fails nothing.
toKind(a) == IF Desc(a) THEN FromWire(errorKind4wire, a.kind) ELSE "Unknown"

\* The failure Do makes of the answer, and the policies see.
StatusOf(a) == StatusError(a.code, toKind(a), ParseRetryAfter(a.after))

-----------------------------------------------------------------------------
HaveDetails == {"UnknownHeader", "RetentionLimit", "QueueLimit", "QueueNotFound",
                "QueueReplaced", "DedupClaimed", "RateLimited", "SpoolFull"}

\* A cap of a name this version does not know leaves the rest readable.
SpoolLimit(a) == {FromWire(spoolLimit4wire, a.limit)} \ {"Unknown"}

\* parseDetails never fails: the details are nil, zero, or the facts.  A null
\* decodes into any of them and leaves it zero.
ParseDetails(kind, a) ==
  IF kind \notin HaveDetails THEN {}
  ELSE IF kind = "RateLimited" THEN (IF Parses(a.after) THEN {"details", "facts"} ELSE {})
  ELSE CASE a.details = "object" ->
              {"details", "facts"} \cup (IF kind = "SpoolFull" THEN SpoolLimit(a) ELSE {})
         [] a.details = "null"   -> {"details"}
         [] OTHER                -> {}

\* Mutant: an Error is made of an answer whose details read only.
HttpErrorDetailed(a) ==
  IF Desc(a) /\ OfAPI(a) /\ (toKind(a) \in HaveDetails => ParseDetails(toKind(a), a) # {})
  THEN {"Error"} \cup (IF a.message THEN {"message"} ELSE {}) \cup ParseDetails(toKind(a), a)
  ELSE {}

\* httpError: what the caller reads of the answer besides the kind it matches.
HttpError(a) ==
  IF Desc(a) /\ OfAPI(a)
  THEN {"Error"} \cup (IF a.message THEN {"message"} ELSE {}) \cup ParseDetails(toKind(a), a)
  ELSE {}
=============================================================================
