---------------------------- MODULE HttpDoProofs ----------------------------
(***************************************************************************)
(* What every call of Client.Do keeps, for any number of calls, attempts,  *)
(* answers, delays and deadlines.                                          *)
(***************************************************************************)
EXTENDS HttpDo, TLAPS

\* The loop runs at least once, whatever number of attempts was asked for.
LEMMA TriesType == Tries \in Nat /\ Tries >= 1
BY AttemptsAssumption DEF Tries, Max2

\* What the server answers is a failure, with a delay that is a number.
LEMMA StatusTypes == \A a \in Answers : a \in Failures /\ a.after \in Nat
BY AnswersAssumption DEF Failures, StatusErrors

\* A broken request and a body that does not decode are failures too.
LEMMA ChainTypes ==
  \A chain \in Breakages \cup {{"canceled"}, {"deadline"}} :
    /\ BodyError(chain) \in Failures /\ BodyError(chain).type = "body"
    /\ TransportError(chain) \in Failures /\ TransportError(chain).type = "transport"
<1>1. ASSUME NEW chain \in ErrorChains
      PROVE  /\ BodyError(chain) \in Failures /\ BodyError(chain).type = "body"
             /\ TransportError(chain) \in Failures
             /\ TransportError(chain).type = "transport"
  BY <1>1 DEF Failures, BodyErrors, TransportErrors, BodyError, TransportError,
              RequestSent
<1>2. {"canceled"} \in ErrorChains /\ {"deadline"} \in ErrorChains
  BY DEF ErrorChains
<1> QED BY <1>1, <1>2, BreakagesAssumption

\* However long an answer takes, the time left stays a time.
LEMMA ElapseType ==
  ASSUME NEW c \in Calls, budget[c] \in Times, NEW b \in Elapse(c)
  PROVE  b \in Times /\ (budget[c] # NoDeadline => b \in Nat)
BY BudgetsAssumption DEF Elapse, Times

\* A request in flight ends with one failure more: `Broken' and `Answered' go
\* on to decide, `BodyLost' is done.
LEMMA Appending ==
  ASSUME NEW s \in Seq(Failures), NEW f \in Failures
  PROVE  /\ Append(s, f) \in Seq(Failures)
         /\ Len(Append(s, f)) = Len(s) + 1
         /\ LastOf(Append(s, f)) = f
         /\ \A i \in DOMAIN Append(s, f) :
              Append(s, f)[i] = IF i = Len(s) + 1 THEN f ELSE s[i]
         /\ DOMAIN Append(s, f) = DOMAIN s \cup {Len(s) + 1}
BY DEF LastOf

-----------------------------------------------------------------------------
\* Before any call begins the invariant holds.
LEMMA InitIInv == DoInit => IInv
<1> SUFFICES ASSUME DoInit PROVE IInv
  OBVIOUS
<1>1. budget \in [Calls -> Times]
  BY BudgetsAssumption DEF DoInit, Times
<1>2. <<>> \in Seq(Failures) /\ 0 \in 0..Tries
  BY TriesType
<1>3. TypeOK
  BY <1>1, <1>2 DEF DoInit, TypeOK, Places, Outcomes
<1>4. \A c \in Calls : Shape(c) /\ ReadOnce(c) /\ Prepared(c) /\ Ending(c)
  BY DEF DoInit, Shape, ReadOnce, Prepared, Ending
<1>5. \A c \in Calls : Policed(c)
  BY DEF DoInit, Policed
<1> QED
  BY <1>3, <1>4, <1>5 DEF IInv

-----------------------------------------------------------------------------
(***************************************************************************)
(* Types and the number of failures, one step per action.                  *)
(***************************************************************************)
Typed == TypeOK /\ \A c \in Calls : Shape(c)

\* Types, and the number of failures at each place of the loop, inductive
\* together.
LEMMA TypedStep == Typed /\ [DoNext]_doVars => Typed'
<1> SUFFICES ASSUME Typed, [DoNext]_doVars
             PROVE  Typed'
  OBVIOUS
<1> USE DEF Typed
<1>1. ASSUME NEW c \in Calls, NEW r \in Requests, Start(c, r)
      PROVE  Typed'
  <2>1. TypeOK'
    BY <1>1, TriesType DEF Start, TypeOK, Places
  <2>2. \A d \in Calls : Shape(d)'
    BY <1>1 DEF Start, TypeOK, Shape
  <2> QED BY <2>1, <2>2
<1>2. ASSUME NEW c \in Calls, NEW r \in Requests, CannotEncode(c, r)
      PROVE  Typed'
  <2>1. TypeOK'
    BY <1>2 DEF CannotEncode, TypeOK, Places, Outcomes
  <2>2. \A d \in Calls : Shape(d)'
    BY <1>2 DEF CannotEncode, TypeOK, Shape
  <2> QED BY <2>1, <2>2
<1>3. ASSUME NEW c \in Calls, pc[c] \in {"decide", "wait"}, Fail(c)
      PROVE  Typed'
  <2>1. TypeOK'
    BY <1>3 DEF Fail, TypeOK, Places, Outcomes
  <2>2. \A d \in Calls : Shape(d)'
    BY <1>3 DEF Fail, TypeOK, Shape
  <2> QED BY <2>1, <2>2
<1>4. ASSUME NEW c \in Calls, Prepare(c)
      PROVE  Typed'
  <2>1. attempt[c] \in 1..Tries /\ attempt[c] < Tries
    BY <1>4, TriesType DEF Prepare, MayRetry, TypeOK, Shape
  <2>2. \A d \in Backoff[attempt[c]] : Max2(d, after[c]) \in Nat
    BY <2>1, BackoffAssumption DEF Max2, TypeOK
  <2>3. wait' \in [Calls -> Nat]
    BY <1>4, <2>2 DEF Prepare, TypeOK
  <2>4. TypeOK'
    BY <1>4, <2>3 DEF Prepare, TypeOK, Places
  <2>5. \A d \in Calls : Shape(d)'
    BY <1>4, <2>1 DEF Prepare, TypeOK, Shape
  <2> QED BY <2>4, <2>5
<1>5. ASSUME NEW c \in Calls, Resend(c)
      PROVE  Typed'
  <2>1. attempt[c] \in 1..Tries /\ attempt[c] < Tries
    BY <1>5, TriesType DEF Resend, TypeOK, Shape
  <2>2. attempt' \in [Calls -> 0..Tries]
    BY <1>5, <2>1, TriesType DEF Resend, TypeOK
  <2>3. budget' \in [Calls -> Times]
    BY <1>5, BudgetsAssumption DEF Resend, TypeOK, Times, Max2
  <2>4. TypeOK'
    BY <1>5, <2>2, <2>3 DEF Resend, TypeOK, Places
  <2>5. \A d \in Calls : Shape(d)'
    BY <1>5, <2>1 DEF Resend, TypeOK, Shape
  <2> QED BY <2>4, <2>5
<1>6. ASSUME NEW c \in Calls, Cancel(c)
      PROVE  Typed'
  <2>1. TypeOK'
    BY <1>6 DEF Cancel, TypeOK
  <2>2. \A d \in Calls : Shape(d)'
    BY <1>6 DEF Cancel, TypeOK, Shape
  <2> QED BY <2>1, <2>2
<1>7. ASSUME NEW c \in Calls, Expire(c)
      PROVE  Typed'
  <2>1. TypeOK'
    BY <1>7 DEF Expire, TypeOK, Times
  <2>2. \A d \in Calls : Shape(d)'
    BY <1>7 DEF Expire, TypeOK, Shape
  <2> QED BY <2>1, <2>2
<1>8. ASSUME NEW c \in Calls, Answering(c)
      PROVE  budget' \in [Calls -> Times]
  BY <1>8, ElapseType DEF Answering, TypeOK
<1>9. ASSUME NEW c \in Calls, Succeed(c)
      PROVE  Typed'
  <2>1. TypeOK'
    BY <1>8, <1>9 DEF Succeed, Answering, TypeOK, Places, Outcomes
  <2>2. \A d \in Calls : Shape(d)'
    BY <1>9 DEF Succeed, Answering, TypeOK, Shape
  <2> QED BY <2>1, <2>2
<1>10. ASSUME NEW c \in Calls, NEW chain \in Breakages, BodyLost(c, chain)
       PROVE  Typed'
  <2> DEFINE f == BodyError(chain)
  <2>1. errs[c] \in Seq(Failures) /\ f \in Failures
    BY ChainTypes DEF TypeOK
  <2> HIDE DEF f
  <2>2. TypeOK'
    BY <1>8, <1>10, <2>1, Appending DEF BodyLost, Answering, TypeOK, Places, Outcomes, f
  <2>3. \A d \in Calls : Shape(d)'
    BY <1>10, <2>1, Appending DEF BodyLost, Answering, TypeOK, Shape, f
  <2> QED BY <2>2, <2>3
<1>11. ASSUME NEW c \in Calls, NEW a \in Answers, Answered(c, a)
       PROVE  Typed'
  <2>1. errs[c] \in Seq(Failures) /\ a \in Failures /\ a.after \in Nat
    BY StatusTypes DEF TypeOK
  <2>2. TypeOK'
    BY <1>8, <1>11, <2>1, Appending DEF Answered, Answering, TypeOK, Places
  <2>3. \A d \in Calls : Shape(d)'
    BY <1>11, <2>1, Appending DEF Answered, Answering, TypeOK, Shape
  <2> QED BY <2>2, <2>3
<1>12. ASSUME NEW c \in Calls, NEW chain \in Breakages \cup {{"canceled"}, {"deadline"}},
              Broken(c, chain)
       PROVE  Typed'
  <2> DEFINE f == TransportError(chain)
  <2>1. errs[c] \in Seq(Failures) /\ f \in Failures
    BY ChainTypes DEF TypeOK
  <2> HIDE DEF f
  <2>2. TypeOK'
    BY <1>8, <1>12, <2>1, Appending DEF Broken, Answering, TypeOK, Places, f
  <2>3. \A d \in Calls : Shape(d)'
    BY <1>12, <2>1, Appending DEF Broken, Answering, TypeOK, Shape, f
  <2> QED BY <2>2, <2>3
<1>13. CASE UNCHANGED doVars
  BY <1>13 DEF doVars, TypeOK, Shape
<1> QED
  BY <1>1, <1>2, <1>3, <1>4, <1>5, <1>6, <1>7, <1>9, <1>10, <1>11, <1>12, <1>13
     DEF DoNext, Call, Environment, GiveUp, CannotReopen, TooLate, CutWait,
         CutByContext, TimedOut, AllReturned

-----------------------------------------------------------------------------
(***************************************************************************)
(* The other conjuncts, given the types.  The steps are put in four        *)
(* groups: a call begins, a request ends, the loop goes on, the context    *)
(* ends.                                                                   *)
(***************************************************************************)
Begins(c) == \E r \in Requests : Start(c, r) \/ CannotEncode(c, r)

\* A request in flight leaves one more failure `f', for which the server or
\* the transport has the name.
Leaves(c, f) ==
  /\ f \in Failures
  /\ f.type = "status" => f \in Answers
  /\ pc[c] = "flight" /\ pc'[c] \in {"decide", "done"}
  /\ errs' = [errs EXCEPT ![c] = Append(@, f)]
  /\ pc'[c] = "decide" => after'[c] = Asked(f)

Flies(c) == /\ Answering(c)
            /\ \/ pc'[c] = "done" /\ UNCHANGED errs
               \/ \E f \in Failures : Leaves(c, f)
            /\ \A d \in Calls \ {c} : pc'[d] = pc[d] /\ after'[d] = after[d]

StepOf(c) ==
  \/ Begins(c) \/ Flies(c) \/ Prepare(c) \/ Resend(c)
  \/ pc[c] \in {"decide", "wait"} /\ Fail(c)
  \/ Cancel(c) \/ Expire(c)

\* The steps of a call by what they do to it, for the lemmas that look at one
\* concern each.
LEMMA Grouped ==
  ASSUME Typed, DoNext
  PROVE  (\E c \in Calls : StepOf(c)) \/ UNCHANGED doVars
<1> USE DEF Typed
<1>1. ASSUME NEW c \in Calls, Succeed(c)
      PROVE  Flies(c)
  BY <1>1 DEF Succeed, Flies, TypeOK, Answering
<1>2. ASSUME NEW c \in Calls, NEW chain \in Breakages, BodyLost(c, chain)
      PROVE  Flies(c)
  <2>1. Leaves(c, BodyError(chain))
    BY <1>2, ChainTypes DEF BodyLost, Answering, Leaves, TypeOK, Asked
  <2> QED
    BY <1>2, <2>1, ChainTypes DEF BodyLost, Flies, TypeOK
<1>3. ASSUME NEW c \in Calls, NEW a \in Answers, Answered(c, a)
      PROVE  Flies(c)
  <2>1. Leaves(c, a)
    BY <1>3, StatusTypes, AnswersAssumption
       DEF Answered, Answering, Leaves, TypeOK, Asked, StatusErrors
  <2> QED
    BY <1>3, <2>1, StatusTypes DEF Answered, Flies, TypeOK
<1>4. ASSUME NEW c \in Calls, NEW chain \in Breakages \cup {{"canceled"}, {"deadline"}},
             Broken(c, chain)
      PROVE  Flies(c)
  <2>1. Leaves(c, TransportError(chain))
    BY <1>4, ChainTypes DEF Broken, Answering, Leaves, TypeOK, Asked
  <2> QED
    BY <1>4, <2>1, ChainTypes DEF Broken, Flies, TypeOK
<1> QED
  BY <1>1, <1>2, <1>3, <1>4
     DEF DoNext, Call, Environment, GiveUp, CannotReopen, TooLate, CutWait,
         CutByContext, TimedOut, AllReturned, Begins, StepOf

\* Every failure an attempt follows stays one the policy allows.
LEMMA PolicedStep ==
  Typed /\ (\A c \in Calls : Policed(c)) /\ [DoNext]_doVars
    => \A c \in Calls : Policed(c)'
<1> SUFFICES ASSUME Typed, \A c \in Calls : Policed(c), [DoNext]_doVars,
                    NEW d \in Calls
             PROVE  Policed(d)'
  OBVIOUS
<1> USE DEF Typed
<1>1. ASSUME NEW c \in Calls, Begins(c)
      PROVE  Policed(d)'
  <2>1. errs[c] = <<>> /\ pc[c] = "idle"
    BY <1>1 DEF Begins, Start, CannotEncode, Shape
  <2>2. CASE d = c
    BY <1>1, <2>1, <2>2 DEF Begins, Start, CannotEncode, Policed, TypeOK
  <2>3. CASE d # c
    BY <1>1, <2>3 DEF Begins, Start, CannotEncode, Policed, TypeOK
  <2> QED BY <2>2, <2>3
<1>2. ASSUME NEW c \in Calls, Flies(c)
      PROVE  Policed(d)'
  <2>1. CASE pc'[c] = "done" /\ UNCHANGED errs
    BY <1>2, <2>1 DEF Flies, Answering, Policed
  <2>2. ASSUME NEW f \in Failures, Leaves(c, f)
        PROVE  Policed(d)'
    <3>1. errs[c] \in Seq(Failures) /\ Len(errs[c]) = attempt[c] - 1
          /\ attempt[c] \in Nat
      BY <2>2, TriesType DEF TypeOK, Shape, Leaves
    <3>2. CASE d = c
      BY <1>2, <2>2, <3>1, <3>2, Appending DEF Flies, Leaves, Answering, Policed, TypeOK
    <3>3. CASE d # c
      BY <1>2, <2>2, <3>3 DEF Flies, Leaves, Answering, Policed, TypeOK
    <3> QED BY <3>2, <3>3
  <2> QED BY <1>2, <2>1, <2>2 DEF Flies
<1>3. ASSUME NEW c \in Calls, Prepare(c)
      PROVE  Policed(d)'
  BY <1>3 DEF Prepare, MayRetry, Policed, TypeOK
<1>4. ASSUME NEW c \in Calls, Resend(c)
      PROVE  Policed(d)'
  <2>1. CASE d = c
    <3>1. attempt[c] \in Nat /\ Len(errs[c]) = attempt[c] /\ errs[c] \in Seq(Failures)
      BY <1>4, TriesType DEF Resend, TypeOK, Shape
    <3>2. \A i \in DOMAIN errs[c] : i < attempt[c] \/ i = Len(errs[c])
      BY <3>1
    <3> QED
      BY <1>4, <2>1, <3>1, <3>2 DEF Resend, Policed, TypeOK, LastOf
  <2>2. CASE d # c
    BY <1>4, <2>2 DEF Resend, Policed, TypeOK
  <2> QED BY <2>1, <2>2
<1>5. ASSUME NEW c \in Calls, Fail(c)
      PROVE  Policed(d)'
  BY <1>5 DEF Fail, Policed, TypeOK
<1>6. ASSUME NEW c \in Calls, Cancel(c) \/ Expire(c)
      PROVE  Policed(d)'
  BY <1>6 DEF Cancel, Expire, Policed
<1>7. CASE UNCHANGED doVars
  BY <1>7 DEF doVars, Policed
<1> QED
  BY <1>1, <1>2, <1>3, <1>4, <1>5, <1>6, <1>7, Grouped DEF StepOf

\* A payload read once is not opened again.
LEMMA ReadOnceStep ==
  Typed /\ (\A c \in Calls : ReadOnce(c)) /\ [DoNext]_doVars
    => \A c \in Calls : ReadOnce(c)'
<1> SUFFICES ASSUME Typed, \A c \in Calls : ReadOnce(c), [DoNext]_doVars,
                    NEW d \in Calls
             PROVE  ReadOnce(d)'
  OBVIOUS
<1> USE DEF Typed, ReadOnce
<1>1. ASSUME NEW c \in Calls, Begins(c)
      PROVE  ReadOnce(d)'
  <2>1. CASE d = c
    <3>1. ASSUME NEW r \in Requests, Start(c, r)
          PROVE  ReadOnce(d)'
      <4>1. req'[c] = r /\ pc'[c] = "flight" /\ attempt'[c] = 1
        BY <3>1 DEF Start, TypeOK
      <4>2. used'[c] = (r.payload # "none")
        BY <3>1, Zenon DEF Start, TypeOK
      <4>3. r.payload = "oneshot" => used'[c]
        BY <4>2
      <4> QED
        BY <2>1, <4>1, <4>3
    <3>2. ASSUME NEW r \in Requests, CannotEncode(c, r)
          PROVE  ReadOnce(d)'
      BY <2>1, <3>2 DEF CannotEncode, TypeOK, Shape
    <3> QED
      BY <1>1, <3>1, <3>2 DEF Begins
  <2>2. CASE d # c
    BY <1>1, <2>2 DEF Begins, Start, CannotEncode, TypeOK
  <2> QED BY <2>1, <2>2
<1>2. ASSUME NEW c \in Calls, Flies(c)
      PROVE  ReadOnce(d)'
  BY <1>2 DEF Flies, Leaves, Answering, TypeOK
<1>3. ASSUME NEW c \in Calls, Prepare(c)
      PROVE  ReadOnce(d)'
  <2>1. CASE d = c
    <3>1. attempt[c] >= 1 /\ attempt[c] \in Nat /\ pc[c] = "decide"
      BY <1>3, TriesType DEF Prepare, TypeOK, Shape
    <3>2. req[c].payload # "oneshot"
      BY <1>3, <3>1 DEF Prepare, CanReopen
    <3> QED
      BY <1>3, <2>1, <3>2 DEF Prepare
  <2>2. CASE d # c
    BY <1>3, <2>2 DEF Prepare, TypeOK
  <2> QED BY <2>1, <2>2
<1>4. ASSUME NEW c \in Calls, Resend(c)
      PROVE  ReadOnce(d)'
  BY <1>4 DEF Resend, TypeOK
<1>5. ASSUME NEW c \in Calls, pc[c] \in {"decide", "wait"}, Fail(c)
      PROVE  ReadOnce(d)'
  BY <1>5 DEF Fail, TypeOK
<1>6. ASSUME NEW c \in Calls, Cancel(c) \/ Expire(c)
      PROVE  ReadOnce(d)'
  BY <1>6 DEF Cancel, Expire
<1>7. CASE UNCHANGED doVars
  BY <1>7 DEF doVars
<1> QED
  BY <1>1, <1>2, <1>3, <1>4, <1>5, <1>6, <1>7, Grouped DEF StepOf

\* The wait and the body belong to the attempt being prepared.
LEMMA PreparedStep ==
  Typed /\ (\A c \in Calls : Prepared(c)) /\ [DoNext]_doVars
    => \A c \in Calls : Prepared(c)'
<1> SUFFICES ASSUME Typed, \A c \in Calls : Prepared(c), [DoNext]_doVars,
                    NEW d \in Calls
             PROVE  Prepared(d)'
  OBVIOUS
<1> USE DEF Typed, Prepared
<1>1. ASSUME NEW c \in Calls, Begins(c)
      PROVE  Prepared(d)'
  <2>1. PICK r \in Requests : Start(c, r) \/ CannotEncode(c, r)
    BY <1>1 DEF Begins
  <2>2. CASE Start(c, r)
    BY <2>2 DEF Start, TypeOK
  <2>3. CASE CannotEncode(c, r)
    BY <2>3 DEF CannotEncode, TypeOK
  <2> QED
    BY <2>1, <2>2, <2>3
<1>2. ASSUME NEW c \in Calls, Flies(c)
      PROVE  Prepared(d)'
  <2>1. CASE pc'[c] = "done" /\ UNCHANGED errs
    BY <1>2, <2>1 DEF Flies, Answering, TypeOK
  <2>2. ASSUME NEW f \in Failures, Leaves(c, f)
        PROVE  Prepared(d)'
    <3>1. CASE d = c
      <4>1. errs'[c] = Append(errs[c], f) /\ errs[c] \in Seq(Failures)
        BY <2>2 DEF Leaves, TypeOK
      <4>2. LastOf(errs'[c]) = f
        BY <4>1, Appending
      <4> QED
        BY <1>2, <2>2, <3>1, <4>2 DEF Flies, Leaves, Answering, TypeOK
    <3>2. CASE d # c
      <4>1. pc'[d] = pc[d] /\ after'[d] = after[d] /\ errs'[d] = errs[d]
            /\ budget'[d] = budget[d]
        BY <1>2, <2>2, <3>2 DEF Flies, Leaves, Answering, TypeOK
      <4> QED
        BY <1>2, <4>1 DEF Flies, Answering
    <3> QED BY <3>1, <3>2
  <2> QED BY <1>2, <2>1, <2>2 DEF Flies
<1>3. ASSUME NEW c \in Calls, Prepare(c)
      PROVE  Prepared(d)'
  <2>1. CASE d = c
    <3>1. PICK w \in Backoff[attempt[c]] :
            /\ ~Outlives(c, Max2(w, after[c]))
            /\ wait'[c] = Max2(w, after[c])
      BY <1>3 DEF Prepare, TypeOK
    <3>2. attempt[c] \in 1..Tries
      BY <1>3, TriesType DEF Prepare, TypeOK, Shape
    <3>3. w \in Nat /\ after[c] \in Nat
      BY <3>2, BackoffAssumption DEF TypeOK
    <3>4. Max2(w, after[c]) \in Nat
      BY <3>3 DEF Max2
    <3>5. budget[c] # NoDeadline => budget[c] \in Nat
      BY DEF TypeOK, Times
    <3> QED
      BY <1>3, <2>1, <3>1, <3>4, <3>5 DEF Prepare, Outlives, TypeOK
  <2>2. CASE d # c
    BY <1>3, <2>2 DEF Prepare, TypeOK
  <2> QED BY <2>1, <2>2
<1>4. ASSUME NEW c \in Calls, Resend(c)
      PROVE  Prepared(d)'
  BY <1>4 DEF Resend, TypeOK
<1>5. ASSUME NEW c \in Calls, Fail(c)
      PROVE  Prepared(d)'
  BY <1>5 DEF Fail, TypeOK
<1>6. ASSUME NEW c \in Calls, Cancel(c) \/ Expire(c)
      PROVE  Prepared(d)'
  <2>1. CASE Cancel(c)
    BY <2>1 DEF Cancel, TypeOK
  <2>2. CASE Expire(c)
    BY <2>2 DEF Expire, TypeOK
  <2> QED
    BY <1>6, <2>1, <2>2
<1>7. CASE UNCHANGED doVars
  BY <1>7 DEF doVars
<1> QED
  BY <1>1, <1>2, <1>3, <1>4, <1>5, <1>6, <1>7, Grouped DEF StepOf

\* An ended context lets one more attempt begin.
LEMMA EndingStep ==
  Typed /\ (\A c \in Calls : Ending(c)) /\ [DoNext]_doVars
    => \A c \in Calls : Ending(c)'
<1> SUFFICES ASSUME Typed, \A c \in Calls : Ending(c), [DoNext]_doVars,
                    NEW d \in Calls
             PROVE  Ending(d)'
  OBVIOUS
<1> USE DEF Typed, Ending
<1>0. \A c \in Calls : attempt[c] \in Nat /\ ended[c] \in Nat
  BY TriesType DEF TypeOK
<1>1. ASSUME NEW c \in Calls, Begins(c)
      PROVE  Ending(d)'
  BY <1>0, <1>1 DEF Begins, Start, CannotEncode, TypeOK, Shape
<1>2. ASSUME NEW c \in Calls, Flies(c)
      PROVE  Ending(d)'
  BY <1>0, <1>2 DEF Flies, Leaves, Answering, TypeOK
<1>3. ASSUME NEW c \in Calls, Prepare(c)
      PROVE  Ending(d)'
  BY <1>0, <1>3 DEF Prepare, MayRetry, TypeOK
<1>4. ASSUME NEW c \in Calls, Resend(c)
      PROVE  Ending(d)'
  BY <1>0, <1>4 DEF Resend, TypeOK
<1>5. ASSUME NEW c \in Calls, Fail(c)
      PROVE  Ending(d)'
  BY <1>0, <1>5 DEF Fail, TypeOK
<1>6. ASSUME NEW c \in Calls, Cancel(c) \/ Expire(c)
      PROVE  Ending(d)'
  <2>1. UNCHANGED <<pc, attempt>> /\ ended' = [ended EXCEPT ![c] = attempt[c]]
    BY <1>6 DEF Cancel, Expire
  <2>2. CASE d = c
    BY <1>0, <2>1, <2>2 DEF TypeOK
  <2>3. CASE d # c
    BY <1>6, <2>1, <2>3 DEF Cancel, Expire, TypeOK
  <2> QED BY <2>2, <2>3
<1>7. CASE UNCHANGED doVars
  BY <1>7 DEF doVars
<1> QED
  BY <1>1, <1>2, <1>3, <1>4, <1>5, <1>6, <1>7, Grouped DEF StepOf

-----------------------------------------------------------------------------
\* The inductive invariant of the loop: what holds of every call at every
\* step of httputil.Client.Do, from which the theorems below follow.
THEOREM Inductive == DoSpec => []IInv
<1>1. IInv /\ [DoNext]_doVars => IInv'
  BY TypedStep, PolicedStep, ReadOnceStep, PreparedStep, EndingStep DEF IInv, Typed
<1> QED
  BY InitIInv, <1>1, PTL DEF DoSpec

\* The variables of every call keep their types.
THEOREM Typing == DoSpec => []TypeOK
<1>1. IInv => TypeOK
  BY DEF IInv
<1> QED
  BY Inductive, <1>1, PTL

\* The statuses `retry' and `retrySend' allow changed nothing, as the API pairs
\* them: only retrySendUnknown retries a failure attemptUnknown holds open.
LEMMA OnlyAskedRetriesUnknown ==
  ASSUME NEW f \in Failures, f.type = "status" => f \in Answers,
         NEW p, Allows(p, f), AttemptUnknown(f)
  PROVE  p = "retrySendUnknown"
<1>1. CASE f.type = "status"
  <2>1. f.code \in Int /\ f.kind \notin {"QueueBusy", "QueueCreating", "DedupInFlight"}
    BY <1>1, AnswersAssumption, RetryKindsAssumption DEF StatusErrors
  <2>2. ~TransientStatus(f)
    BY <1>1, <2>1 DEF AttemptUnknown, TransientStatus
  <2> QED
    BY <2>1, <2>2 DEF Allows, Retry, RetrySend
<1>2. CASE f.type # "status"
  BY <1>2 DEF Allows, Retry, RetrySend
<1> QED BY <1>1, <1>2

\* Client.Do never follows an attempt whose result is unknown by another one,
\* whatever the answers and the network, unless the request set RetryUnknown.
THEOREM UnknownRetries == DoSpec => []UnknownNeverRetriedUnasked
<1>1. IInv => UnknownNeverRetriedUnasked
  <2> SUFFICES ASSUME IInv, NEW c \in Calls, NEW i \in DOMAIN errs[c],
                      i < attempt[c], AttemptUnknown(errs[c][i])
               PROVE  req[c].policy = "retrySendUnknown"
    BY DEF UnknownNeverRetriedUnasked
  <2>1. errs[c][i] \in Failures
    BY DEF IInv, TypeOK
  <2> QED
    BY <2>1, OnlyAskedRetriesUnknown DEF IInv, Policed
<1> QED
  BY Inductive, <1>1, PTL

\* A payload from DataSourceReader goes out with the first attempt or never.
THEOREM OneShot == DoSpec => []OneShotSentOnce
<1>1. IInv => OneShotSentOnce
  BY DEF IInv, ReadOnce, OneShotSentOnce
<1> QED
  BY Inductive, <1>1, PTL

\* AttemptErrors loses no attempt: the caller's error has one failure for each.
THEOREM FailuresKept == DoSpec => []EveryFailureKept
<1>1. IInv => EveryFailureKept
  <2> SUFFICES ASSUME IInv, NEW c \in Calls
               PROVE  /\ pc[c] \in {"decide", "wait"} \/ out[c] \in {"refused", "failed"}
                           => Len(errs[c]) = attempt[c]
                      /\ out[c] = "failed" => errs[c] # <<>>
    BY DEF EveryFailureKept
  <2>1. Shape(c) /\ errs[c] \in Seq(Failures)
    BY DEF IInv, TypeOK
  <2> QED
    BY <2>1 DEF Shape
<1> QED
  BY Inductive, <1>1, PTL

\* The wait before an attempt: as long as the last answer asked, of the last
\* answer only, and within the deadline; its body is the only one left open.
THEOREM Waits == DoSpec => [](WaitIsFresh /\ NoWaitPastDeadline /\ NoBodyLeft)
<1>1. IInv => WaitIsFresh /\ NoWaitPastDeadline /\ NoBodyLeft
  BY DEF IInv, Prepared, WaitIsFresh, NoWaitPastDeadline, NoBodyLeft
<1> QED
  BY Inductive, <1>1, PTL

\* A context that ended lets at most one more attempt begin.
THEOREM EndedContexts == DoSpec => []EndedContextStopsRetries
<1>1. IInv => EndedContextStopsRetries
  BY DEF IInv, Ending, EndedContextStopsRetries
<1> QED
  BY Inductive, <1>1, PTL
=============================================================================
