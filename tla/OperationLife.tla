--------------------------- MODULE OperationLife ----------------------------
(***************************************************************************)
(* The life of an operation: Client.init of a client or of a clone of it,  *)
(* the refusals, the request hook around the whole of it, the attempts of  *)
(* HttpDo, and what the caller gets: of an error and the answer it came    *)
(* with, of a success and its headers, of a payload.                       *)
(***************************************************************************)
EXTENDS HttpDo, Operations, ErrorAnswers, SuccessHeaders

CONSTANTS
  Jobs,          \* The operations callers run, with their requests.
  JobsOf,        \* Those each of them may run.
  NoJob,
  WireAnswers,   \* The answers outside 2xx, as they come.
  NoAnswer,
  WireHeaders    \* The headers of a success, as they come.

Clients == {"original", "copy"}

ASSUME JobsAssumption ==
  /\ \A j \in Jobs : j.op \in Ops /\ DOMAIN j.q = DOMAIN Unset
  /\ NoJob \notin Jobs
  /\ JobsOf \in [Calls -> SUBSET Jobs]
  /\ Requests = {HttpRequest(j) : j \in Jobs}
ASSUME WireAssumption ==
  /\ \A a \in WireAnswers : DOMAIN a = DOMAIN Answer(0) /\ a.after \in Header
  /\ NoAnswer \notin WireAnswers
  /\ Answers = {StatusOf(a) : a \in WireAnswers}

ASSUME HeadersAssumption ==
  /\ WireHeaders \subseteq [HeaderNames -> Forms]
  /\ \A h \in WireHeaders : h["Lease"] # "unreadable"

VARIABLES
  key,      \* Client.APIKey is set.
  client,   \* Client.once: "fresh", then for good "ready" or "keyless";
            \* "none" while there is no copy.
  bare,     \* History: the clients first used without a key.
  job,      \* The operation of a call.
  on,       \* The client it runs on.
  answer,   \* The last answer outside 2xx, as it came.
  stage,    \* Where the operation is.
  hook,     \* The OnRequest hook: not called, called, and its func called.
  told,     \* The error that func was called with.
  given,    \* The error the caller got: what it matches, and "error".
  code,     \* The status of the success, 0 while there is none.
  body,     \* The body of the success.
  headers,  \* Its headers, of those the operation reads: what they are.
  parsed,   \* How many of these were read.
  result,   \* What the operation's result has of each.
  reported  \* How often OnMalformedResponse was called with each.

settings == <<key, client, bare>>
receipt  == <<headers, parsed, result, reported>>
lifeVars == <<settings, job, on, answer, stage, hook, told, given, code, body, receipt>>
vars == <<doVars, lifeVars>>

Stages == {"new", "do", "parse", "copy", "handed", "returned"}
Matches == ErrorKinds \cup {"error", "ErrInvalidRequest", "ErrResultUnknown",
                            "ErrUnavailable", "canceled", "deadline",
                            "Error", "message", "details", "facts"}
             \cup DOMAIN spoolLimit2wire

ReceiptTypeOK ==
  /\ headers \in [Calls -> [HeaderNames -> Forms]]
  /\ parsed \in [Calls -> Nat]
  /\ result \in [Calls -> [HeaderNames -> Values]]
  /\ reported \in [Calls -> [HeaderNames -> Nat]]

LifeTypeOK ==
  /\ TypeOK
  /\ key \in [Clients -> BOOLEAN]
  /\ client \in [Clients -> {"none", "fresh", "ready", "keyless"}]
  /\ bare \subseteq Clients
  /\ job \in [Calls -> Jobs \cup {NoJob}]
  /\ on \in [Calls -> Clients \cup {"none"}]
  /\ \A c \in Calls : on[c] # "none" => client[on[c]] \in {"ready", "keyless"}
  /\ answer \in [Calls -> WireAnswers \cup {NoAnswer}]
  /\ stage \in [Calls -> Stages]
  /\ hook \in [Calls -> {"none", "begun", "ended"}]
  /\ told \in [Calls -> SUBSET Matches]
  /\ given \in [Calls -> SUBSET Matches]
  /\ code \in [Calls -> {0} \cup (200..299)]
  /\ body \in [Calls -> {"none", "open", "closed"}]
  /\ ReceiptTypeOK

Init ==
  /\ DoInit
  /\ \E set \in BOOLEAN : key = [k \in Clients |-> set /\ k = "original"]
  /\ client = [k \in Clients |-> IF k = "original" THEN "fresh" ELSE "none"]
  /\ bare = {}
  /\ job = [c \in Calls |-> NoJob]
  /\ on = [c \in Calls |-> "none"]
  /\ answer = [c \in Calls |-> NoAnswer]
  /\ stage = [c \in Calls |-> "new"]
  /\ hook = [c \in Calls |-> "none"]
  /\ told = [c \in Calls |-> {}]
  /\ given = [c \in Calls |-> {}]
  /\ code = [c \in Calls |-> 0]
  /\ body = [c \in Calls |-> "none"]
  /\ headers = [c \in Calls |-> [h \in HeaderNames |-> "absent"]]
  /\ parsed = [c \in Calls |-> 0]
  /\ result = [c \in Calls |-> Blank]
  /\ reported = [c \in Calls |-> [h \in HeaderNames |-> 0]]

Takes(c) == Wanted(job[c]).takes
Reads(c) == HeadersOf(job[c].op)

-----------------------------------------------------------------------------
\* Client.init runs once and its outcome sticks; whoever comes later waits
\* for it and shares it.
Initialised(k) ==
  IF client[k] # "fresh" THEN client[k] ELSE IF key[k] THEN "ready" ELSE "keyless"

Initialise(k) ==
  /\ client[k] # "none"
  /\ client' = [client EXCEPT ![k] = Initialised(k)]
  /\ bare' = IF client[k] = "fresh" /\ ~key[k] THEN bare \cup {k} ELSE bare
  /\ UNCHANGED key

\* The application sets the key of a client made without one.
SetKey(k) ==
  /\ client[k] # "none"
  /\ ~key[k]
  /\ key' = [key EXCEPT ![k] = TRUE]
  /\ UNCHANGED <<doVars, client, bare, job, on, answer, stage, hook, told, given,
                 code, body, receipt>>

\* Mutant: the client is copied by value, its once with it.
CloneByValue(k, x) ==
  /\ client[k] # "none" /\ client[x] = "none"
  /\ key' = [key EXCEPT ![x] = key[k]]
  /\ client' = [client EXCEPT ![x] = client[k]]
  /\ UNCHANGED <<doVars, bare, job, on, answer, stage, hook, told, given, code,
                 body, receipt>>

\* Client.Clone: the settings of k, and a once of its own.
Clone(k, x) ==
  /\ client[k] # "none" /\ client[x] = "none"
  /\ key' = [key EXCEPT ![x] = key[k]]
  /\ client' = [client EXCEPT ![x] = "fresh"]
  /\ UNCHANGED <<doVars, bare, job, on, answer, stage, hook, told, given, code,
                 body, receipt>>

\* Mutant: the hook is called before the request is looked at.
RefuseHooked(c, j, k) ==
  /\ stage[c] = "new"
  /\ Initialise(k)
  /\ Initialised(k) = "keyless" \/ Wanted(j).refusal # "none"
  /\ job' = [job EXCEPT ![c] = j]
  /\ on' = [on EXCEPT ![c] = k]
  /\ stage' = [stage EXCEPT ![c] = "returned"]
  /\ given' = [given EXCEPT ![c] = {"error", "ErrInvalidRequest"}]
  /\ hook' = [hook EXCEPT ![c] = "ended"]
  /\ UNCHANGED <<doVars, answer, told, code, body, receipt>>

\* Refused: no hook is called and no request is made.
Refuse(c, j, k) ==
  /\ stage[c] = "new"
  /\ Initialise(k)
  /\ Initialised(k) = "keyless" \/ Wanted(j).refusal # "none"
  /\ job' = [job EXCEPT ![c] = j]
  /\ on' = [on EXCEPT ![c] = k]
  /\ stage' = [stage EXCEPT ![c] = "returned"]
  /\ given' = [given EXCEPT ![c] = {"error", "ErrInvalidRequest"}]
  /\ UNCHANGED <<doVars, answer, hook, told, code, body, receipt>>

\* The hook is called, then Do.
Run(c, j, k) ==
  /\ stage[c] = "new"
  /\ Initialise(k)
  /\ Initialised(k) = "ready" /\ Wanted(j).refusal = "none"
  /\ job' = [job EXCEPT ![c] = j]
  /\ on' = [on EXCEPT ![c] = k]
  /\ stage' = [stage EXCEPT ![c] = "do"]
  /\ hook' = [hook EXCEPT ![c] = "begun"]
  /\ Start(c, HttpRequest(j)) \/ CannotEncode(c, HttpRequest(j))
  /\ UNCHANGED <<answer, told, given, code, body, receipt>>

\* An attempt that failed by an answer is one of the failures StatusOf makes.
Heard(c) ==
  IF errs'[c] # errs[c] /\ LastOf(errs'[c]).type = "status"
  THEN \E a \in WireAnswers :
         /\ LastOf(errs'[c]) = StatusOf(a)
         /\ answer' = [answer EXCEPT ![c] = a]
  ELSE UNCHANGED answer

\* Do runs on; what it does is HttpDo's.
Doing(c) ==
  /\ \/ stage[c] = "do" /\ Loop(c)
     \/ Environment(c)
  /\ Heard(c)
  /\ UNCHANGED <<settings, job, on, stage, hook, told, given, code, body, receipt>>

\* The operation ends: the hook's func and the caller get the same error.
End(c, err) ==
  /\ hook' = [hook EXCEPT ![c] = "ended"]
  /\ told' = [told EXCEPT ![c] = err]
  /\ given' = [given EXCEPT ![c] = err]
  /\ stage' = [stage EXCEPT ![c] = "returned"]

\* Only an error of the last attempt's answer carries an answer.
OfAnswer(c) ==
  IF errs[c] # <<>> /\ LastOf(errs[c]).type = "status" THEN HttpError(answer[c]) ELSE {}

\* do and doData: Do failed.
DoFailed(c) ==
  /\ stage[c] = "do"
  /\ pc[c] = "done" /\ out[c] # "ok"
  /\ End(c, RpcError(errs[c]) \cup OfAnswer(c) \cup {"error"})
  /\ UNCHANGED <<doVars, settings, job, on, answer, code, body, receipt>>

\* Do succeeded on an operation that keeps nothing of the body: Do closed it.
DoSucceeded(c) ==
  /\ stage[c] = "do"
  /\ pc[c] = "done" /\ out[c] = "ok" /\ Takes(c) # "stream" /\ Reads(c) = <<>>
  /\ \E s \in {200, 201, 204} : code' = [code EXCEPT ![c] = s]
  /\ body' = [body EXCEPT ![c] = "closed"]
  /\ End(c, {})
  /\ UNCHANGED <<doVars, settings, job, on, answer, receipt>>

\* The headers of a success, to be read.
Came(c) ==
  /\ \E came \in WireHeaders :
       headers' = [headers EXCEPT ![c] = Carried(job[c].op, came)]
  /\ stage' = [stage EXCEPT ![c] = "parse"]
  /\ UNCHANGED <<parsed, result, reported>>

\* A renewal: do is over, and the hook with it, before the expiry is read.  Any
\* 2xx will do; it is taken for a 200.
Renewed(c) ==
  /\ stage[c] = "do"
  /\ pc[c] = "done" /\ out[c] = "ok" /\ Takes(c) # "stream" /\ Reads(c) # <<>>
  /\ code' = [code EXCEPT ![c] = 200]
  /\ body' = [body EXCEPT ![c] = "closed"]
  /\ Came(c)
  /\ hook' = [hook EXCEPT ![c] = "ended"]
  /\ UNCHANGED <<doVars, settings, job, on, answer, told, given>>

\* A message came, with its body unread.
Delivered(c) ==
  /\ stage[c] = "do"
  /\ pc[c] = "done" /\ out[c] = "ok" /\ Takes(c) = "stream"
  /\ code' = [code EXCEPT ![c] = 200]
  /\ body' = [body EXCEPT ![c] = "open"]
  /\ Came(c)
  /\ UNCHANGED <<doVars, settings, job, on, answer, hook, told, given>>

\* A renewal has its result; a payload is copied, or handed over as a stream.
AfterHeaders(c) ==
  IF Takes(c) # "stream" THEN "returned"
  ELSE IF job[c].q.stream THEN "handed" ELSE "copy"

\* Mutant: the first header that does not parse ends the reading, as an error
\* ends everything else.
ReadHeaderOrReturn(c) ==
  /\ stage[c] = "parse"
  /\ LET h    == Reads(c)[parsed[c] + 1]
         form == headers[c][h]
         last == Unreadable(h, form) \/ parsed[c] + 1 = Len(Reads(c))
     IN /\ result' = [result EXCEPT ![c] =
                        IF Unreadable(h, form) THEN Blank
                        ELSE [@ EXCEPT ![h] = ValueOf(h, form)]]
        /\ reported' = [reported EXCEPT ![c][h] = IF Unreadable(h, form) THEN @ + 1 ELSE @]
        /\ stage' = [stage EXCEPT ![c] = IF last THEN AfterHeaders(c) ELSE @]
  /\ parsed' = [parsed EXCEPT ![c] = @ + 1]
  /\ UNCHANGED <<doVars, settings, job, on, answer, hook, told, given, code, body, headers>>

\* One header after the other is read; of one that is unreadable the
\* application hears, by a call of OnMalformedResponse, and the reading goes on.
ReadHeader(c) ==
  /\ stage[c] = "parse"
  /\ LET h    == Reads(c)[parsed[c] + 1]
         form == headers[c][h]
     IN /\ result' = [result EXCEPT ![c][h] = ValueOf(h, form)]
        /\ reported' = [reported EXCEPT ![c][h] = IF Unreadable(h, form) THEN @ + 1 ELSE @]
  /\ parsed' = [parsed EXCEPT ![c] = @ + 1]
  /\ stage' = [stage EXCEPT ![c] = IF parsed[c] + 1 = Len(Reads(c)) THEN AfterHeaders(c) ELSE @]
  /\ UNCHANGED <<doVars, settings, job, on, answer, hook, told, given, code, body, headers>>

\* Mutant: the body of a success without a message is left open.
NotDeliveredOpen(c) ==
  /\ stage[c] = "do"
  /\ pc[c] = "done" /\ out[c] = "ok" /\ Takes(c) = "stream"
  /\ \E s \in {202, 204} :
       /\ code' = [code EXCEPT ![c] = s]
       /\ End(c, IF s = 204 /\ job[c].op = "Recv" THEN {} ELSE {"error"})
  /\ body' = [body EXCEPT ![c] = "open"]
  /\ UNCHANGED <<doVars, settings, job, on, answer, receipt>>

\* No message within the wait, or a success the operation does not expect.
\* Only a receive expects 204; either way the body is closed unread.
NotDelivered(c) ==
  /\ stage[c] = "do"
  /\ pc[c] = "done" /\ out[c] = "ok" /\ Takes(c) = "stream"
  /\ \E s \in {202, 204} :
       /\ code' = [code EXCEPT ![c] = s]
       /\ End(c, IF s = 204 /\ job[c].op = "Recv" THEN {} ELSE {"error"})
  /\ body' = [body EXCEPT ![c] = "closed"]
  /\ UNCHANGED <<doVars, settings, job, on, answer, receipt>>

\* What a failure to read a payload matches: a context's error shows through.
PayloadErrors == {{"error"} \cup cause : cause \in {{}, {"canceled"}, {"deadline"}}}

\* Mutant: a payload that cannot be read leaves no result, as other failures do.
CopyDropsResult(c) ==
  /\ stage[c] = "copy"
  /\ \/ End(c, {}) /\ UNCHANGED result
     \/ /\ \E err \in PayloadErrors : End(c, err \cup {"ErrResultUnknown"})
        /\ result' = [result EXCEPT ![c] = Blank]
  /\ body' = [body EXCEPT ![c] = "closed"]
  /\ UNCHANGED <<doVars, settings, job, on, answer, code, headers, parsed, reported>>

\* The buffered payload is read to its end and its body closed, or one of them
\* fails; the result is returned in either case.
Copy(c) ==
  /\ stage[c] = "copy"
  /\ \/ End(c, {})
     \/ \E err \in PayloadErrors : End(c, err \cup {"ErrResultUnknown"})
  /\ body' = [body EXCEPT ![c] = "closed"]
  /\ UNCHANGED <<doVars, settings, job, on, answer, code, receipt>>

\* The caller has the stream; DataStream is what becomes of it.  Read to its
\* end, failed or closed, it ends the operation.
StreamEnds(c) ==
  /\ stage[c] = "handed"
  /\ hook[c] = "begun"
  /\ \E err \in {{}} \cup PayloadErrors : told' = [told EXCEPT ![c] = err]
  /\ hook' = [hook EXCEPT ![c] = "ended"]
  /\ body' = [body EXCEPT ![c] = "closed"]
  /\ UNCHANGED <<doVars, settings, job, on, answer, stage, given, code, receipt>>

\* Every operation is over and its stream closed.
AllOver ==
  /\ \A c \in Calls : stage[c] \in {"handed", "returned"} /\ hook[c] # "begun"
  /\ UNCHANGED vars

Next ==
  \/ \E k \in Clients : SetKey(k) \/ \E x \in Clients : Clone(k, x)
  \/ \E c \in Calls :
       \/ \E j \in JobsOf[c], k \in Clients : Refuse(c, j, k) \/ Run(c, j, k)
       \/ Doing(c)
       \/ DoFailed(c) \/ DoSucceeded(c) \/ Renewed(c)
       \/ Delivered(c) \/ NotDelivered(c) \/ ReadHeader(c) \/ Copy(c)
       \/ StreamEnds(c)
  \/ AllOver

Spec == Init /\ [][Next]_vars

\* The caller's goroutine runs on, a request is cut by the timeout if by
\* nothing else, and the caller reads a stream to its end or closes it.
FairSpec ==
  /\ Spec
  /\ \A c \in Calls :
       WF_vars(\/ stage[c] = "do" /\ Loop(c) /\ UNCHANGED lifeVars
               \/ DoFailed(c) \/ DoSucceeded(c) \/ Renewed(c)
               \/ Delivered(c) \/ NotDelivered(c) \/ ReadHeader(c) \/ Copy(c)
               \/ StreamEnds(c))
       /\ WF_vars(TimedOut(c) /\ UNCHANGED lifeVars)

-----------------------------------------------------------------------------
\* OnRequest is called once for an operation that was not refused, before any
\* attempt, and its func once the operation is over, with the caller's error.
\* What is refused calls no hook and sends nothing.
HookBracketsOperation ==
  \A c \in Calls :
    /\ attempt[c] > 0 => hook[c] # "none"
    /\ stage[c] \in {"do", "copy"} => hook[c] = "begun"
    /\ stage[c] = "parse" /\ Takes(c) = "stream" => hook[c] = "begun"
    /\ stage[c] = "returned" =>
         IF "ErrInvalidRequest" \in given[c]
         THEN hook[c] = "none" /\ attempt[c] = 0
         ELSE hook[c] = "ended" /\ told[c] = given[c]

\* What a success says of a message or a lease reaches the caller, the lease
\* first of all, whatever else of it does not parse and however the reading of
\* the payload ends.  A value that did not parse was reported, once, and nothing
\* else was: a zero nobody was told of is the answer's own, and a count that is
\* not -1 is a count.  An error beside a result leaves it unknown, and an
\* operation without a success has none.
ReceiptReachesCaller ==
  \A c \in Calls :
    /\ stage[c] \in {"handed", "returned"} /\ code[c] = 200 =>
         \A h \in Range(Reads(c)) :
           /\ result[c][h] = "value" <=> headers[c][h] = "readable"
           /\ headers[c][h] = "unreadable" => reported[c][h] = 1
           /\ reported[c][h] = 0 /\ result[c][h] = "zero" => headers[c][h] = "absent"
           /\ reported[c][h] > 0 => result[c][h] # "value"
           /\ h = "Retries" /\ reported[c][h] > 0 => result[c][h] = "minus one"
    /\ out[c] # "ok" => result[c] = Blank /\ \A h \in HeaderNames : reported[c][h] = 0
    /\ stage[c] = "returned" /\ result[c] # Blank /\ "error" \in given[c]
         => "ErrResultUnknown" \in given[c]

\* The body of a success is closed when the operation is over, so that its
\* connection can be used again.
NoAnswerLeftOpen ==
  \A c \in Calls : hook[c] = "ended" => body[c] # "open"

\* A request with nothing missing is refused only on a client whose own first
\* operation came without a key: what became of one client decides nothing for
\* the copies of it.
CopiesStartAfresh ==
  \A c \in Calls :
    /\ stage[c] = "returned" /\ "ErrInvalidRequest" \in given[c]
    /\ Wanted(job[c]).refusal = "none"
    => on[c] \in bare

\* The call failed and the last attempt had an answer.
FailedByAnswer(c) ==
  /\ stage[c] = "returned" /\ out[c] = "failed"
  /\ LastOf(errs[c]).type = "status"

\* What the answer says reaches the caller whatever the rest of it is: its kind
\* and no other, its message, its details if they are of that kind; a kind of a
\* newer version leaves the message, and a 503 what it is without a kind.
AnswerReachesCaller ==
  \A c \in Calls : FailedByAnswer(c) =>
    LET a == answer[c]
        kinds == given[c] \cap DOMAIN errorKind2wire
    IN /\ \A kind \in kinds : errorKind2wire[kind] = a.kind
       /\ ~a.long => \A kind \in DOMAIN errorKind2wire :
                        OfAPI(a) /\ errorKind2wire[kind] = a.kind => kind \in given[c]
       /\ ~a.long => (OfAPI(a) <=> "Error" \in given[c])
       /\ ~a.long /\ OfAPI(a) => (a.message <=> "message" \in given[c])
       /\ "facts" \in given[c] =>
            IF a.kind = "rate_limited" THEN Parses(a.after) ELSE a.details = "object"
       /\ a.code = 503 /\ kinds = {} => "ErrUnavailable" \in given[c]

\* "Every operation returns one, wrapped, for such an answer": an Error, for an
\* answer that names a kind, carries a message, or both.
EveryAnswerIsAnError ==
  \A c \in Calls : FailedByAnswer(c) /\ OfAPI(answer[c]) => "Error" \in given[c]

\* Every operation that began ends, and tells its hook.
EveryOperationEnds ==
  \A c \in Calls : hook[c] = "begun" ~> hook[c] = "ended"
=============================================================================
