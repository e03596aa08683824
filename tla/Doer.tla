-------------------------------- MODULE Doer --------------------------------
(***************************************************************************)
(* backoff.Doer: a retry loop over a function of the caller's, with the    *)
(* delays of a strategy and a context that may end at any moment.  Do and  *)
(* Try are its loop without and with a bound.                              *)
(***************************************************************************)
EXTENDS Exponential, Sequences

CONSTANT Doers   \* Doer values: [strategy, maxAttempts, resets]; a bound of
                 \* zero is none, and then Horizon calls are followed.

ASSUME DoersAssumption ==
  \A x \in Doers : /\ IsStrategy(x.strategy)
                   /\ x.maxAttempts \in 0..Horizon
                   /\ x.resets \in BOOLEAN

VARIABLES
  d,        \* The Doer.
  pc,       \* Where the loop is.
  i,        \* Its counter: the attempts that failed.
  sched,    \* The attempt the next delay is drawn for.
  delay,    \* The delay drawn.
  err,      \* err0: the last error of the function, by its call, 0 for none.
  ctx,      \* "live" or "ended".
  called,   \* Calls of the function.
  late,     \* History: those begun after the context ended.
  ran,      \* History: whether each failed call ran as long as ResetAfter.
  slept,    \* History: all delays together, in a loop that never resets.
  out       \* What Do returned.

vars == <<d, pc, i, sched, delay, err, ctx, called, late, ran, slept, out>>

\* An error of the function is told by the number of its call.
Outcomes == [kind : {"none", "nil", "context", "exhausted"}, call : {0}]
              \cup [kind : {"error", "stop"}, call : 1..Horizon]
Outcome(kind, call) == [kind |-> kind, call |-> call]

\* "MaxAttempts bounds the total number of fn calls (including the initial
\* one)", long calls or not.
Most == IF d.maxAttempts > 0 THEN d.maxAttempts ELSE Horizon

\* No delay is negative, or longer than its limit or than a time.Duration.
Longest == IF d.strategy.type = "constant" THEN d.strategy.delay ELSE Limit(d.strategy)

DoerTypeOK ==
  /\ d \in Doers
  /\ pc \in {"top", "asleep", "calling", "failed", "returned"}
  /\ i \in 0..Horizon
  /\ sched \in 0..Horizon
  /\ delay \in 0..Longest \cap 0..MaxDuration
  /\ err \in 0..Horizon
  /\ ctx \in {"live", "ended"}
  /\ called \in 0..Most
  /\ late \in 0..Horizon
  /\ ran \in Seq(BOOLEAN)
  /\ slept \in Nat
  /\ out \in Outcomes

Init ==
  /\ d \in Doers
  /\ pc = "top"
  /\ i = 0
  /\ sched = 0
  /\ delay = 0
  /\ err = 0
  /\ ctx = "live"
  /\ called = 0
  /\ late = 0
  /\ ran = <<>>
  /\ slept = 0
  /\ out = Outcome("none", 0)

\* Mutant: the context's error in the place of the function's.
OrNotTheLast(kind) == Outcome(kind, 0)

\* cmp.Or: the function's last error before any other.
Or(kind) == IF err # 0 THEN Outcome("error", err) ELSE Outcome(kind, 0)

Return(o) ==
  /\ pc' = "returned"
  /\ out' = o
  /\ UNCHANGED <<d, i, sched, delay, err, ctx, called, late, ran, slept>>

-----------------------------------------------------------------------------
\* Mutant: one call too many.
BoundedLate == d.maxAttempts > 0 /\ i > d.maxAttempts

Bounded == d.maxAttempts > 0 /\ i >= d.maxAttempts

Exhausted ==
  /\ pc = "top"
  /\ Bounded
  /\ Return(Or("exhausted"))

\* The function is called; it may be called with the context already ended.
Call ==
  /\ called < Horizon
  /\ pc' = "calling"
  /\ called' = called + 1
  /\ late' = IF ctx = "ended" THEN late + 1 ELSE late
  /\ UNCHANGED <<d, i, sched, err, ctx, ran, slept, out>>

\* Wait: a delay of zero does not look at the context.
NoWait ==
  /\ pc = "top"
  /\ ~Bounded
  /\ 0 \in Delay(d.strategy, sched)
  /\ delay' = 0
  /\ Call

FallAsleep ==
  /\ pc = "top"
  /\ ~Bounded
  /\ called < Horizon
  /\ delay' \in Delay(d.strategy, sched) \ {0}
  /\ pc' = "asleep"
  /\ slept' = IF d.resets THEN 0 ELSE slept + delay'
  /\ UNCHANGED <<d, i, sched, err, ctx, called, late, ran, out>>

\* The timer fired; when the context ended as well, select picks either.
Awake ==
  /\ pc = "asleep"
  /\ UNCHANGED delay
  /\ Call

CutSleep ==
  /\ pc = "asleep"
  /\ ctx = "ended"
  /\ Return(Or("context"))

FnSucceeds ==
  /\ pc = "calling"
  /\ Return(Outcome("nil", 0))

\* A StopError: what it wraps is returned at once.
FnStops ==
  /\ pc = "calling"
  /\ pc' = "returned"
  /\ err' = called
  /\ out' = Outcome("stop", called)
  /\ UNCHANGED <<d, i, sched, delay, ctx, called, late, ran, slept>>

FnFails ==
  /\ pc = "calling"
  /\ pc' = "failed"
  /\ err' = called
  /\ \E long \in {d.resets, FALSE} : ran' = Append(ran, long)
  /\ UNCHANGED <<d, i, sched, delay, ctx, called, late, slept, out>>

FailsEnded ==
  /\ pc = "failed"
  /\ ctx = "ended"
  /\ Return(Or("context"))

\* Mutant: the schedule is never started again.
RescheduleOn ==
  /\ pc = "failed"
  /\ ctx = "live"
  /\ sched' = sched + 1
  /\ i' = i + 1
  /\ pc' = "top"
  /\ UNCHANGED <<d, delay, err, ctx, called, late, ran, slept, out>>

\* Mutant: a context that ended under the call is not looked at.
RescheduleEnded ==
  /\ pc = "failed"
  /\ sched' = IF d.resets /\ ran[Len(ran)] THEN 0 ELSE sched + 1
  /\ i' = i + 1
  /\ pc' = "top"
  /\ UNCHANGED <<d, delay, err, ctx, called, late, ran, slept, out>>

\* A failed call that ran long starts the schedule again.
Reschedule ==
  /\ pc = "failed"
  /\ ctx = "live"
  /\ sched' = IF d.resets /\ ran[Len(ran)] THEN 0 ELSE sched + 1
  /\ i' = i + 1
  /\ pc' = "top"
  /\ UNCHANGED <<d, delay, err, ctx, called, late, ran, slept, out>>

ContextEnds ==
  /\ pc # "returned"
  /\ ctx = "live"
  /\ ctx' = "ended"
  /\ UNCHANGED <<d, pc, i, sched, delay, err, called, late, ran, slept, out>>

\* The loop returned, or an unbounded one reached the horizon.
Over == (pc = "returned" \/ (called = Horizon /\ ~Bounded)) /\ UNCHANGED vars

Loop == Exhausted \/ NoWait \/ FallAsleep \/ Awake \/ CutSleep
          \/ FnSucceeds \/ FnStops \/ FnFails \/ FailsEnded \/ Reschedule

Next == Loop \/ ContextEnds \/ Over

Spec == Init /\ [][Next]_vars

-----------------------------------------------------------------------------
\* "On ctx cancellation Do returns the last error fn produced, not ctx.Err()":
\* whenever the function was called, Do returns what its last call did.
ReturnsLastError ==
  pc = "returned" /\ called > 0 =>
    \/ out.kind = "nil"
    \/ out.kind \in {"error", "stop"} /\ out.call = called

\* Once the context ended the function is called once more at most: when a
\* timer fired at the same time, or there was nothing to wait for.
EndedContextStopsCalls == late <= 1

\* The delay is that of the failures since the last call that ran long ("like
\* a first attempt").
SinceLong ==
  IF \E k \in DOMAIN ran : ran[k]
  THEN Len(ran) - (CHOOSE k \in DOMAIN ran : ran[k] /\ \A j \in k + 1..Len(ran) : ~ran[j])
  ELSE Len(ran)

ScheduleFollows ==
  pc = "top" => sched = IF d.resets THEN SinceLong ELSE Len(ran)

\* Client.init of package spooler: "the retries wait about 150ms, 450ms,
\* 1.35s and 4.05s, each +-25%: about 6s in all, 4.5s to 7.5s", in a loop of
\* DefaultAttempts, however each delay was drawn.
DefaultAttempts == 5
OfClient == Exponential(150, 3, 1, 25, 5000)

IsOfClient == d.strategy = OfClient /\ ~d.resets /\ d.maxAttempts = DefaultAttempts
WaitOfCall ==
  IsOfClient /\ called = DefaultAttempts => slept \in 4500..7500
=============================================================================
