------------------------------- MODULE HttpDo -------------------------------
(***************************************************************************)
(* httputil.Client.Do: the attempt loop behind every operation.            *)
(*                                                                         *)
(* A call sends its request, and after a failure asks its policy, opens    *)
(* the body again, waits and sends it once more, up to its attempts.  The  *)
(* network and the server are the environment: any answer, any transport   *)
(* failure, at any moment the call waits for one.                          *)
(*                                                                         *)
(* Time is relative to the call: budget[c] is what is left until the       *)
(* context's deadline, spent by waits and by answers that take their time. *)
(***************************************************************************)
EXTENDS Failures

CONSTANTS
  Calls,       \* Concurrent calls, one goroutine each.
  Impatient,   \* The calls whose caller may cancel their context.
  Requests,    \* What a caller may ask for: records with at least the
               \* fields policy, payload and recv.
  Attempts,    \* Request.Attempts, as Client.attempts hands it down.
  Answers,     \* The non-2xx answers of the server and its gateways.
  Breakages,   \* The error chains a request without an answer fails with.
  Backoff,     \* Backoff[i]: the delays the strategy may draw before attempt i.
  Budgets,     \* Time to the context's deadline, or NoDeadline.
  NoDeadline,
  NoRequest

\* How the payload opens: absent or of size zero, from memory, from a
\* seeker that rewinds (or fails to), or from a reader that reads once.
Payloads == {"none", "memory", "seeker", "oneshot"}

\* `max(r.Attempts, 1)': the loop runs once whatever was asked.
Tries == Max2(Attempts, 1)

ASSUME RequestsAssumption ==
  \A r \in Requests : /\ r.policy \in Policies
                      /\ r.payload \in Payloads
                      /\ r.recv \in BOOLEAN
ASSUME AttemptsAssumption == Attempts \in Int
ASSUME AnswersAssumption  == Answers \subseteq StatusErrors
ASSUME BreakagesAssumption == Breakages \subseteq ErrorChains
ASSUME BackoffAssumption  == Backoff \in [1..Tries -> SUBSET Nat]
ASSUME BudgetsAssumption  == Budgets \subseteq Nat \cup {NoDeadline}
                             /\ NoDeadline \notin Nat
ASSUME NoRequestAssumption == NoRequest \notin Requests

(***************************************************************************)
(* The API pairs the kinds the policies retry with a status that changed   *)
(* nothing (errors_test.go gives each of them a 409).                      *)
(***************************************************************************)
ASSUME RetryKindsAssumption ==
  \A a \in Answers :
    AttemptUnknown(a) => a.kind \notin {"QueueBusy", "QueueCreating", "DedupInFlight"}

VARIABLES
  pc,       \* Where the call is.
  req,      \* Its request.
  attempt,  \* Attempts begun: the loop's counter, counted from one.
  errs,     \* AttemptErrors: the failure of every attempt so far.
  after,    \* retryAfter: the delay the last answer asked for.
  wait,     \* The backoff before the attempt being prepared.
  used,     \* streamBody.used: the payload was opened before.
  open,     \* A request body is open and the call still has to close it.
  ctx,      \* The caller's context.
  ended,    \* History: the attempts begun when the context ended.
  budget,   \* Time left until its deadline.
  out       \* How the call ended.

doVars == <<pc, req, attempt, errs, after, wait, used, open, ctx, ended,
            budget, out>>

Places   == {"idle", "flight", "decide", "wait", "done"}
Outcomes == {"none", "ok", "refused", "failed"}
Times    == Nat \cup {NoDeadline}

\* Every variable has its type, and only a call never begun has no request.
TypeOK ==
  /\ pc \in [Calls -> Places]
  /\ req \in [Calls -> Requests \cup {NoRequest}]
  /\ \A c \in Calls : pc[c] # "idle" => req[c] \in Requests
  /\ attempt \in [Calls -> 0..Tries]
  /\ errs \in [Calls -> Seq(Failures)]
  /\ after \in [Calls -> Nat]
  /\ wait \in [Calls -> Nat]
  /\ used \in [Calls -> BOOLEAN]
  /\ open \in [Calls -> BOOLEAN]
  /\ ctx \in [Calls -> {"live", "canceled", "expired"}]
  /\ ended \in [Calls -> 0..Tries]
  /\ budget \in [Calls -> Times]
  /\ out \in [Calls -> Outcomes]

DoInit ==
  /\ pc = [c \in Calls |-> "idle"]
  /\ req = [c \in Calls |-> NoRequest]
  /\ attempt = [c \in Calls |-> 0]
  /\ errs = [c \in Calls |-> <<>>]
  /\ after = [c \in Calls |-> 0]
  /\ wait = [c \in Calls |-> 0]
  /\ used = [c \in Calls |-> FALSE]
  /\ open = [c \in Calls |-> FALSE]
  /\ ctx = [c \in Calls |-> "live"]
  /\ ended = [c \in Calls |-> 0]
  /\ budget \in [Calls -> Budgets]
  /\ out = [c \in Calls |-> "none"]

-----------------------------------------------------------------------------
(***************************************************************************)
(* Steps of the caller and of its context.                                 *)
(***************************************************************************)

\* The first attempt: nothing to wait for, and a body never opened opens.
\* The transport takes the body over and closes it, whatever happens.
Start(c, r) ==
  /\ pc[c] = "idle"
  /\ pc' = [pc EXCEPT ![c] = "flight"]
  /\ req' = [req EXCEPT ![c] = r]
  /\ attempt' = [attempt EXCEPT ![c] = 1]
  /\ used' = [used EXCEPT ![c] = r.payload # "none"]
  /\ UNCHANGED <<errs, after, wait, open, ctx, ended, budget, out>>

\* The payload cannot be encoded: a seeker that cannot tell its size.
\* No attempt was made, so the error carries none.
CannotEncode(c, r) ==
  /\ pc[c] = "idle"
  /\ r.payload = "seeker"
  /\ pc' = [pc EXCEPT ![c] = "done"]
  /\ req' = [req EXCEPT ![c] = r]
  /\ out' = [out EXCEPT ![c] = "refused"]
  /\ UNCHANGED <<attempt, errs, after, wait, used, open, ctx, ended, budget>>

\* The caller cancels the context, at any time before the call returns.
Cancel(c) ==
  /\ c \in Impatient
  /\ pc[c] # "done"
  /\ ctx[c] = "live"
  /\ ctx' = [ctx EXCEPT ![c] = "canceled"]
  /\ ended' = [ended EXCEPT ![c] = attempt[c]]
  /\ UNCHANGED <<pc, req, attempt, errs, after, wait, used, open, budget, out>>

\* The deadline comes: while a request is in flight, which may take any time;
\* at the end of a wait that takes all that is left; or with nothing left.
Expire(c) ==
  /\ pc[c] # "done"
  /\ ctx[c] = "live"
  /\ budget[c] # NoDeadline
  /\ \/ budget[c] = 0
     \/ pc[c] = "flight"
     \/ pc[c] = "wait" /\ budget[c] = wait[c]
  /\ ctx' = [ctx EXCEPT ![c] = "expired"]
  /\ ended' = [ended EXCEPT ![c] = attempt[c]]
  /\ budget' = [budget EXCEPT ![c] = 0]
  /\ UNCHANGED <<pc, req, attempt, errs, after, wait, used, open, out>>

-----------------------------------------------------------------------------
(***************************************************************************)
(* Steps of the environment: what becomes of a request in flight.          *)
(***************************************************************************)
Elapse(c) ==
  IF budget[c] = NoDeadline THEN {NoDeadline} ELSE 0..budget[c]

\* Every step of the environment takes its time and leaves the rest alone.
Answering(c) ==
  /\ pc[c] = "flight"
  /\ \E b \in Elapse(c) : budget' = [budget EXCEPT ![c] = b]
  /\ UNCHANGED <<req, attempt, wait, used, open, ctx, ended>>

\* A 2xx answer.  Its body is decoded when the caller asked for it.
Succeed(c) ==
  /\ Answering(c)
  /\ pc' = [pc EXCEPT ![c] = "done"]
  /\ out' = [out EXCEPT ![c] = "ok"]
  /\ UNCHANGED <<errs, after>>

\* A 2xx answer whose body does not decode ends the call: never a retry.
BodyLost(c, chain) ==
  /\ Answering(c)
  /\ req[c].recv /\ "bodyRead" \notin chain
  /\ pc' = [pc EXCEPT ![c] = "done"]
  /\ errs' = [errs EXCEPT ![c] = Append(@, BodyError(chain))]
  /\ out' = [out EXCEPT ![c] = "failed"]
  /\ UNCHANGED after

\* Any other answer, with the delay it asks for (none resets an older one).
Answered(c, a) ==
  /\ Answering(c)
  /\ pc' = [pc EXCEPT ![c] = "decide"]
  /\ errs' = [errs EXCEPT ![c] = Append(@, a)]
  /\ after' = [after EXCEPT ![c] = a.after]
  /\ UNCHANGED out

\* Mutant: the errors of the attempts before are dropped.
BrokenForgets(c, chain) ==
  /\ Answering(c)
  /\ pc' = [pc EXCEPT ![c] = "decide"]
  /\ errs' = [errs EXCEPT ![c] = <<TransportError(chain)>>]
  /\ after' = [after EXCEPT ![c] = 0]
  /\ UNCHANGED out

\* Mutant: the delay an older answer asked for is kept.
BrokenKeepsAfter(c, chain) ==
  /\ Answering(c)
  /\ pc' = [pc EXCEPT ![c] = "decide"]
  /\ errs' = [errs EXCEPT ![c] = Append(@, TransportError(chain))]
  /\ UNCHANGED <<after, out>>

\* No answer: the request failed with `chain' before one was read.  Only what
\* has a payload fails in reading it.
Broken(c, chain) ==
  /\ Answering(c)
  /\ "bodyRead" \in chain => req[c].payload # "none"
  /\ pc' = [pc EXCEPT ![c] = "decide"]
  /\ errs' = [errs EXCEPT ![c] = Append(@, TransportError(chain))]
  /\ after' = [after EXCEPT ![c] = 0]
  /\ UNCHANGED out

\* The context ended under the request.  It may have arrived.
CutByContext(c) ==
  \/ ctx[c] = "canceled" /\ Broken(c, {"canceled"})
  \/ ctx[c] = "expired" /\ Broken(c, {"deadline"})

\* Mutant: http.Client has no timeout.
NeverTimesOut(c) == FALSE

\* http.Client.Timeout, a minute unless set, ended the request; the context
\* is left alone.
TimedOut(c) == Broken(c, {"deadline"})

-----------------------------------------------------------------------------
(***************************************************************************)
(* Steps of the loop between two attempts.                                 *)
(***************************************************************************)
\* Mutant: one attempt too many.
MayRetryOnceMore(c) ==
  /\ attempt[c] <= Tries
  /\ ctx[c] = "live"
  /\ Allows(req[c].policy, LastOf(errs[c]))

\* Mutant: the context is not looked at.
MayRetryEnded(c) ==
  /\ attempt[c] < Tries
  /\ Allows(req[c].policy, LastOf(errs[c]))

MayRetry(c) ==
  /\ attempt[c] < Tries
  /\ ctx[c] = "live"
  /\ Allows(req[c].policy, LastOf(errs[c]))

\* Mutant: a body opened before opens again, whatever it is.
ReopensAny(c) == TRUE

\* streamBody.Open and jsonBody.Open, the second time.
CanReopen(c)       == used[c] => req[c].payload # "oneshot"
MayFailToReopen(c) == used[c] /\ req[c].payload \in {"seeker", "oneshot"}

\* Mutant: the body that was opened is not closed.
FailLeaks(c) ==
  /\ pc' = [pc EXCEPT ![c] = "done"]
  /\ out' = [out EXCEPT ![c] = "failed"]
  /\ UNCHANGED <<req, attempt, errs, after, wait, used, open, ctx, ended, budget>>

Fail(c) ==
  /\ pc' = [pc EXCEPT ![c] = "done"]
  /\ out' = [out EXCEPT ![c] = "failed"]
  /\ open' = [open EXCEPT ![c] = FALSE]
  /\ UNCHANGED <<req, attempt, errs, after, wait, used, ctx, ended, budget>>

\* Out of attempts, out of context, or a failure the policy does not retry.
GiveUp(c) ==
  /\ pc[c] = "decide"
  /\ ~MayRetry(c)
  /\ Fail(c)

\* The body does not open again: the answer already in hand stands.
CannotReopen(c) ==
  /\ pc[c] = "decide"
  /\ MayRetry(c)
  /\ MayFailToReopen(c)
  /\ Fail(c)

\* Mutant: off by one unit of time.
OutlivesLate(c, w) == budget[c] # NoDeadline /\ w > budget[c] + 1

Outlives(c, w) == budget[c] # NoDeadline /\ w > budget[c]

\* The wait would outlive the deadline: the body just opened is closed and
\* the call ends at once.
TooLate(c) ==
  /\ pc[c] = "decide"
  /\ MayRetry(c)
  /\ CanReopen(c)
  /\ \E d \in Backoff[attempt[c]] : Outlives(c, Max2(d, after[c]))
  /\ Fail(c)

\* The body is open and the call waits, as long as the server asked at least.
Prepare(c) ==
  /\ pc[c] = "decide"
  /\ MayRetry(c)
  /\ CanReopen(c)
  /\ \E d \in Backoff[attempt[c]] :
       /\ ~Outlives(c, Max2(d, after[c]))
       /\ wait' = [wait EXCEPT ![c] = Max2(d, after[c])]
  /\ pc' = [pc EXCEPT ![c] = "wait"]
  /\ open' = [open EXCEPT ![c] = req[c].payload # "none"]
  /\ UNCHANGED <<req, attempt, errs, after, used, ctx, ended, budget, out>>

\* The timer fired.  The context may have ended too: select then picks
\* either, and this is the pick that sends.  A wait of zero has no select.
Resend(c) ==
  /\ pc[c] = "wait"
  /\ pc' = [pc EXCEPT ![c] = "flight"]
  /\ attempt' = [attempt EXCEPT ![c] = @ + 1]
  /\ open' = [open EXCEPT ![c] = FALSE]
  /\ budget' = [budget EXCEPT ![c] = IF @ = NoDeadline THEN @ ELSE Max2(@ - wait[c], 0)]
  /\ UNCHANGED <<req, errs, after, wait, used, ctx, ended, out>>

\* The context ended during the wait.
CutWait(c) ==
  /\ pc[c] = "wait"
  /\ wait[c] > 0
  /\ ctx[c] # "live"
  /\ Fail(c)

-----------------------------------------------------------------------------
(***************************************************************************)
(* The loop against any server and any network.                            *)
(***************************************************************************)
Call(c) ==
  \/ \E r \in Requests : Start(c, r) \/ CannotEncode(c, r)
  \/ GiveUp(c) \/ CannotReopen(c) \/ TooLate(c) \/ Prepare(c)
  \/ Resend(c) \/ CutWait(c)

Environment(c) ==
  \/ Cancel(c) \/ Expire(c)
  \/ Succeed(c)
  \/ \E chain \in Breakages : BodyLost(c, chain) \/ Broken(c, chain)
  \/ \E a \in Answers : Answered(c, a)
  \/ CutByContext(c) \/ TimedOut(c)

\* Every call returned: nothing is left to do.
AllReturned ==
  /\ \A c \in Calls : pc[c] = "done"
  /\ UNCHANGED doVars

DoNext == (\E c \in Calls : Call(c) \/ Environment(c)) \/ AllReturned

DoSpec == DoInit /\ [][DoNext]_doVars

(***************************************************************************)
(* The goroutine of a call that has begun keeps running, and a request in  *)
(* flight is cut by http.Client.Timeout if by nothing else.                *)
(***************************************************************************)
Loop(c) == GiveUp(c) \/ CannotReopen(c) \/ TooLate(c) \/ Prepare(c)
             \/ Resend(c) \/ CutWait(c)

FairDoSpec ==
  DoSpec /\ \A c \in Calls : WF_doVars(Loop(c)) /\ WF_doVars(TimedOut(c))

-----------------------------------------------------------------------------
(***************************************************************************)
(* Safety.                                                                 *)
(***************************************************************************)

\* An attempt whose result is unknown is followed by another only when the
\* request asked for it (Client.Attempts: "one that leaves the result unknown
\* is returned at once [...] unless the request sets RetryUnknown").
UnknownNeverRetriedUnasked ==
  \A c \in Calls : \A i \in DOMAIN errs[c] :
    i < attempt[c] /\ AttemptUnknown(errs[c][i])
      => req[c].policy = "retrySendUnknown"

\* A payload that can be read once is sent once, RetryUnknown or not.
OneShotSentOnce ==
  \A c \in Calls :
    pc[c] # "idle" /\ req[c].payload = "oneshot" => attempt[c] <= 1

\* The caller's error holds the failure of every attempt that was made, and
\* the error of a call that made none holds none.
EveryFailureKept ==
  \A c \in Calls :
    /\ pc[c] \in {"decide", "wait"} \/ out[c] \in {"refused", "failed"}
         => Len(errs[c]) = attempt[c]
    /\ out[c] = "failed" => errs[c] # <<>>

\* A body opened for an attempt that is never sent is closed again.
NoBodyLeft == \A c \in Calls : pc[c] # "wait" => ~open[c]

\* The wait honours the Retry-After of the answer it follows, and never one
\* of an attempt before it.
Asked(f) == IF f.type = "status" THEN f.after ELSE 0

WaitIsFresh ==
  \A c \in Calls : pc[c] = "wait" =>
    \E d \in Backoff[attempt[c]] : wait[c] = Max2(d, Asked(LastOf(errs[c])))

\* No call waits past its deadline: it returns the answer in hand instead.
NoWaitPastDeadline ==
  \A c \in Calls :
    pc[c] = "wait" /\ ctx[c] = "live" /\ budget[c] # NoDeadline
      => wait[c] <= budget[c]

\* Once the context ended at most one more attempt is begun: the one whose
\* timer fired at the same time, or that had nothing to wait for.
EndedContextStopsRetries ==
  \A c \in Calls : ctx[c] # "live" => attempt[c] <= ended[c] + 1

-----------------------------------------------------------------------------
(***************************************************************************)
(* Why those hold: the inductive invariant, one conjunct per concern.      *)
(***************************************************************************)

\* How many failures a call has at each place of the loop.
Shape(c) ==
  /\ pc[c] = "idle" => attempt[c] = 0 /\ errs[c] = <<>>
  /\ pc[c] = "flight" => attempt[c] >= 1 /\ Len(errs[c]) = attempt[c] - 1
  /\ pc[c] \in {"decide", "wait"} => attempt[c] >= 1 /\ Len(errs[c]) = attempt[c]
  /\ pc[c] = "wait" => attempt[c] < Tries
  /\ out[c] = "ok" => Len(errs[c]) = attempt[c] - 1
  /\ out[c] = "refused" => attempt[c] = 0 /\ errs[c] = <<>>
  /\ out[c] = "failed" => attempt[c] >= 1 /\ Len(errs[c]) = attempt[c]
  /\ out[c] = "none" <=> pc[c] # "done"

\* Every failure that was followed by an attempt is one the policy allows,
\* and every status in hand is one the server can answer.
Policed(c) ==
  /\ \A i \in DOMAIN errs[c] :
       /\ errs[c][i].type = "status" => errs[c][i] \in Answers
       /\ i < attempt[c] => Allows(req[c].policy, errs[c][i])
  /\ pc[c] = "wait" => Allows(req[c].policy, LastOf(errs[c]))

\* A payload read once was opened by the first attempt, and never waits.
ReadOnce(c) ==
  pc[c] # "idle" /\ req[c].payload = "oneshot" =>
    /\ attempt[c] <= 1 /\ pc[c] # "wait"
    /\ attempt[c] = 1 => used[c]

\* The wait and the body belong to the attempt being prepared.
Prepared(c) ==
  /\ pc[c] = "decide" => after[c] = Asked(LastOf(errs[c]))
  /\ pc[c] = "wait" =>
       \E d \in Backoff[attempt[c]] : wait[c] = Max2(d, Asked(LastOf(errs[c])))
  /\ pc[c] = "wait" /\ ctx[c] = "live" /\ budget[c] # NoDeadline
       => wait[c] <= budget[c]
  /\ pc[c] # "wait" => ~open[c]

\* After the context ended, a wait it found is the last.
Ending(c) ==
  ctx[c] # "live" => /\ attempt[c] <= ended[c] + 1
                     /\ pc[c] = "wait" => attempt[c] <= ended[c]

IInv ==
  /\ TypeOK
  /\ \A c \in Calls : /\ Shape(c) /\ Policed(c) /\ ReadOnce(c)
                      /\ Prepared(c) /\ Ending(c)

-----------------------------------------------------------------------------
(***************************************************************************)
(* Liveness: every call that began returns, whatever the server does.      *)
(***************************************************************************)
EveryCallReturns == \A c \in Calls : pc[c] # "idle" ~> pc[c] = "done"
=============================================================================
