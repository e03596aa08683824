-------------------------- MODULE SpoolCallsProofs --------------------------
(***************************************************************************)
(* What every call that changes a spool can rely on, for any number of     *)
(* calls, attempts, keys and leases, over a network that loses, delays and *)
(* answers in the server's place.                                          *)
(***************************************************************************)
EXTENDS SpoolCalls, HttpDoProofs

\* The requests that made a change, are making one, or still can.
Live == wire \cup busy \cup applied

\* A request is in one place, of an attempt that was begun; and an answer is
\* on its way only to a call that waits for one.
Tracked ==
  /\ ServerTypeOK
  /\ \A m \in Live : m[2] <= attempt[m[1]]
  /\ wire \cap busy = {} /\ wire \cap applied = {} /\ busy \cap applied = {}
  /\ \A c \in Calls : reply[c] # {} => pc[c] = "flight"

\* A failure that is not unknown, in hand or on its way, is of an attempt that
\* can change nothing any more.
Settled(c) ==
  /\ \A i \in DOMAIN errs[c] : AttemptUnknown(errs[c][i]) \/ <<c, i>> \notin Live
  /\ \A a \in reply[c] :
       a = Done \/ AttemptUnknown(a) \/ <<c, attempt[c]>> \notin Live

\* A change ends its lease and claims its key; a change under way has a key of
\* its own; and a call that made two had nothing left to protect it.
Spent ==
  /\ \A m \in applied : /\ LeaseOf(m) \notin held
                        /\ KeyOf(m) \in claimed \cup forgot \cup {NoKey}
  /\ \A m \in busy : KeyOf(m) \notin claimed
  /\ \A m, n \in busy : KeyOf(m) = KeyOf(n) /\ m # n => KeyOf(m) = NoKey
  /\ \A m, n \in applied : m[1] = n[1] /\ m # n =>
       LeaseOf(m) = NoLease /\ KeyOf(m) \in forgot \cup {NoKey}

\* A success on its way, and a key the window remembers, stand for a change.
Backs(m, c) == m[1] = c \/ (req[c].key # NoKey /\ KeyOf(m) = req[c].key)

Backed ==
  /\ \A c \in Calls : Done \in reply[c] => \E m \in applied : Backs(m, c)
  /\ \A k \in claimed : \E m \in applied : KeyOf(m) = k

Ledger ==
  /\ IInv
  /\ Tracked
  /\ \A c \in Calls : Settled(c)
  /\ Spent
  /\ Backed

-----------------------------------------------------------------------------
\* A step of the system is a step of the callers' loops.
LEMMA LoopStep == [Next]_vars => [DoNext]_doVars
<1> SUFFICES ASSUME [Next]_vars PROVE [DoNext]_doVars
  OBVIOUS
<1>1. ASSUME NEW c \in Calls, Caller(c)
      PROVE  DoNext
  BY <1>1 DEF Caller, SendFirst, SendAgain, Alone, Hear, NeverLeft, StopWaiting,
              DoNext, Call, Environment
<1>2. ASSUME NEW m \in Messages, Server(m)
      PROVE  UNCHANGED doVars
  BY <1>2 DEF Server, Lose, GatewayAnswers, Refuse, KeyInFlight, KeyHit, StaleToken,
              Begin, Commit, Abort
<1>3. CASE \E l \in Leases : LeaseEnds(l)
  BY <1>3 DEF LeaseEnds
<1>4. CASE \E k \in Keys : Forget(k)
  BY <1>4 DEF Forget
<1>5. CASE Quiet
  BY <1>5 DEF Quiet, DoNext
<1>6. CASE UNCHANGED vars
  BY <1>6 DEF vars
<1> QED
  BY <1>1, <1>2, <1>3, <1>4, <1>5, <1>6 DEF Next

\* The answers of the model, and that a success is none of the failures.
LEMMA ReplyTypes ==
  /\ Verdicts \subseteq Answers /\ Refusals \subseteq Answers /\ Unclear \subseteq Answers
  /\ Done \notin Answers /\ Done \in Replies /\ Answers \subseteq Replies
  /\ Stale \in Answers /\ InFlight \in Answers /\ Claimed \in Answers
<1>1. Done \notin Answers
  BY AnswersAssumption DEF Done, StatusError, StatusErrors
<1> QED
  BY <1>1, VerdictsAssumption DEF Refusals, Unclear, Replies, Verdicts

\* A request that is live is one a call asked for.
LEMMA LiveRequests ==
  ASSUME IInv, Tracked, NEW m \in Live
  PROVE  /\ m \in Messages /\ m[1] \in Calls /\ m = <<m[1], m[2]>>
         /\ m[2] \in 1..Tries /\ pc[m[1]] # "idle" /\ req[m[1]] \in Requests
         /\ KeyOf(m) \in Keys \cup {NoKey}
         /\ LeaseOf(m) \in Leases \cup {NoLease}
<1>1. m \in Messages /\ m[2] <= attempt[m[1]]
  BY DEF Live, Tracked, ServerTypeOK
<1>2. m[1] \in Calls /\ m[2] \in 1..Tries /\ m = <<m[1], m[2]>>
  BY <1>1 DEF Messages
<1>3. pc[m[1]] # "idle"
  BY <1>1, <1>2, TriesType DEF IInv, Shape
<1>4. req[m[1]] \in Requests
  BY <1>2, <1>3 DEF IInv, TypeOK
<1> QED
  BY <1>1, <1>2, <1>3, <1>4, TokensAssumption DEF KeyOf, LeaseOf

\* Before any call begins, no request was made.
LEMMA InitLedger == Init => Ledger
<1> SUFFICES ASSUME Init PROVE Ledger
  OBVIOUS
<1>1. IInv
  BY InitIInv DEF Init
<1>2. Tracked
  BY <1>1 DEF Init, IInv, Tracked, ServerTypeOK, Live
<1>3. (\A c \in Calls : Settled(c)) /\ Spent /\ Backed
  BY DEF Init, DoInit, Settled, Spent, Backed, Live
<1> QED
  BY <1>1, <1>2, <1>3 DEF Ledger

\* The loop's invariant holds whatever the server and the network do.
LEMMA LoopInvariant == IInv /\ [Next]_vars => IInv'
BY LoopStep, TypedStep, PolicedStep, ReadOnceStep, PreparedStep, EndingStep
   DEF IInv, Typed

-----------------------------------------------------------------------------
(***************************************************************************)
(* The steps by what they do to the requests, for the lemmas below.        *)
(***************************************************************************)
serverOnly == <<busy, applied, held, claimed, forgot>>

\* An attempt goes out.
Sends(c) ==
  /\ \/ pc[c] = "idle" /\ (\E r \in Requests : req' = [req EXCEPT ![c] = r])
     \/ pc[c] = "wait" /\ UNCHANGED req
  /\ pc' = [pc EXCEPT ![c] = "flight"]
  /\ attempt' = [attempt EXCEPT ![c] = @ + 1]
  /\ wire' = wire \cup {<<c, attempt[c] + 1>>}
  /\ UNCHANGED <<errs, reply, serverOnly>>

\* The call stops waiting for an answer, with failure `f' or with none.
Lands(c, f) ==
  /\ errs' = [errs EXCEPT ![c] = Append(@, f)]
  /\ \/ AttemptUnknown(f)
     \/ f \in reply[c] \ {Done}
     \/ <<c, attempt[c]>> \in wire \ wire'

Returns(c) ==
  /\ pc[c] = "flight"
  /\ \/ UNCHANGED errs
     \/ \E f \in Failures : Lands(c, f)
  /\ \A d \in Calls \ {c} : pc'[d] = pc[d]
  /\ reply' = [reply EXCEPT ![c] = {}]
  /\ wire' \subseteq wire
  /\ UNCHANGED <<req, attempt, serverOnly>>


\* Nothing is sent or heard.
Thinks(c) ==
  /\ pc[c] # "flight"
  /\ \A d \in Calls \ {c} : pc'[d] = pc[d]
  /\ UNCHANGED req \/ (pc[c] = "idle" /\ \E r \in Requests : req' = [req EXCEPT ![c] = r])
  /\ UNCHANGED <<attempt, errs, serverVars>>

\* What the server and the network do to one request, with an answer that is
\* unknown, or a success, or of a request that can change nothing any more.
Handles(m) ==
  /\ UNCHANGED doVars
  /\ m \in Live /\ Live' \subseteq Live
  /\ \/ UNCHANGED reply
     \/ \E a \in Replies : /\ Answer(m, a)
                           /\ a = Done \/ AttemptUnknown(a) \/ m \notin Live'

\* A lease or a window ends, or a context, or nothing does.
Passes ==
  /\ held' \subseteq held /\ claimed' \subseteq claimed
  /\ forgot' = forgot \cup (claimed \ claimed')
  /\ UNCHANGED <<pc, req, attempt, errs, wire, busy, applied, reply>>

\* Every step is one of those.
LEMMA Sorted ==
  ASSUME IInv, Tracked, [Next]_vars
  PROVE  \/ \E c \in Calls : Sends(c) \/ Returns(c) \/ Thinks(c)
         \/ \E m \in Messages : Server(m) /\ Handles(m)
         \/ Passes
<1>0. TypeOK /\ \A c \in Calls : Shape(c)
  BY DEF IInv
<1>1. ASSUME NEW c \in Calls, SendAgain(c) \/ \E r \in Requests : SendFirst(c, r)
      PROVE  Sends(c)
  BY <1>0, <1>1 DEF SendAgain, SendFirst, Start, Resend, Depart, Sends, serverOnly,
                    TypeOK, Shape
<1>2. ASSUME NEW c \in Calls, Alone(c)
      PROVE  Thinks(c) \/ Passes
  BY <1>0, <1>2 DEF Alone, CannotEncode, GiveUp, CannotReopen, TooLate, Prepare, CutWait,
                    Fail, Cancel, Expire, Thinks, Passes, serverVars, TypeOK
<1>3. ASSUME NEW c \in Calls, Hear(c)
      PROVE  Returns(c)
  <2>1. PICK a \in reply[c] :
          \/ a = Done /\ Succeed(c)
          \/ a = Done /\ \E chain \in Breakages : BodyLost(c, chain)
          \/ a \in Answers /\ Answered(c, a)
    BY <1>3 DEF Hear
  <2>2. /\ reply' = [reply EXCEPT ![c] = {}]
        /\ UNCHANGED <<wire, serverOnly>>
    BY <1>3 DEF Hear, Received, serverOnly
  <2>3. CASE Succeed(c)
    BY <1>0, <2>2, <2>3 DEF Succeed, Answering, Returns, TypeOK
  <2>4. ASSUME NEW chain \in Breakages, BodyLost(c, chain)
        PROVE  Returns(c)
    <3>1. Lands(c, BodyError(chain)) /\ BodyError(chain) \in Failures
      BY <2>4, ChainTypes DEF BodyLost, Lands, AttemptUnknown
    <3> QED
      BY <1>0, <2>2, <2>4, <3>1 DEF BodyLost, Answering, Returns, TypeOK
  <2>5. CASE a \in Answers /\ Answered(c, a)
    <3>1. Lands(c, a) /\ a \in Failures
      BY <2>1, <2>5, StatusTypes, ReplyTypes DEF Answered, Lands
    <3> QED
      BY <1>0, <2>2, <2>5, <3>1 DEF Answered, Answering, Returns, TypeOK
  <2> QED
    BY <2>1, <2>3, <2>4, <2>5
<1>4. ASSUME NEW c \in Calls, NEW chain \in Breakages, NeverLeft(c, chain)
      PROVE  Returns(c)
  <2>1. Lands(c, TransportError(chain)) /\ TransportError(chain) \in Failures
    BY <1>4, ChainTypes DEF NeverLeft, Broken, Lands
  <2>2. reply' = [reply EXCEPT ![c] = {}]
    BY <1>4 DEF NeverLeft, Tracked, ServerTypeOK
  <2> QED
    BY <1>0, <1>4, <2>1, <2>2 DEF NeverLeft, Broken, Answering, Returns, TypeOK, serverOnly
<1>5. ASSUME NEW c \in Calls, StopWaiting(c)
      PROVE  Returns(c)
  <2>1. PICK chain \in Breakages \cup {{"canceled"}, {"deadline"}} :
          RequestSent(chain) /\ Broken(c, chain)
    BY <1>5 DEF StopWaiting, CutByContext, TimedOut, RequestSent, NeverConnected
  <2>2. Lands(c, TransportError(chain)) /\ TransportError(chain) \in Failures
    BY <2>1, ChainTypes DEF Broken, Lands, AttemptUnknown, TransportError
  <2> QED
    BY <1>0, <1>5, <2>1, <2>2
       DEF StopWaiting, Received, Broken, Answering, Returns, TypeOK, serverOnly
<1>6. ASSUME NEW m \in Messages, Server(m)
      PROVE  Handles(m)
  <2> USE DEF Handles, Live, Tracked
  <2>1. CASE Lose(m)
    BY <2>1 DEF Lose
  <2>2. ASSUME NEW a \in Unclear, GatewayAnswers(m, a)
        PROVE  Handles(m)
    BY <2>2, ReplyTypes DEF GatewayAnswers, Unclear
  <2>3. ASSUME NEW a \in Refusals, Refuse(m, a)
        PROVE  Handles(m)
    BY <2>3, ReplyTypes DEF Refuse
  <2>4. CASE KeyInFlight(m)
    BY <2>4, ReplyTypes DEF KeyInFlight
  <2>5. CASE KeyHit(m)
    BY <2>5, ReplyTypes DEF KeyHit
  <2>6. CASE StaleToken(m)
    BY <2>6, ReplyTypes DEF StaleToken
  <2>7. CASE Begin(m)
    BY <2>7 DEF Begin
  <2>8. CASE Commit(m)
    BY <2>8, ReplyTypes DEF Commit, Unclear
  <2>9. CASE Abort(m)
    BY <2>9, ReplyTypes DEF Abort, Unclear
  <2> QED
    BY <1>6, <2>1, <2>2, <2>3, <2>4, <2>5, <2>6, <2>7, <2>8, <2>9 DEF Server
<1>7. CASE \E l \in Leases : LeaseEnds(l)
  BY <1>7 DEF LeaseEnds, doVars, Passes
<1>8. CASE \E k \in Keys : Forget(k)
  BY <1>8 DEF Forget, doVars, Passes
<1>9. CASE Quiet \/ UNCHANGED vars
  BY <1>9 DEF Quiet, AllReturned, vars, doVars, serverVars, Passes
<1> QED
  BY <1>1, <1>2, <1>3, <1>4, <1>5, <1>6, <1>7, <1>8, <1>9 DEF Next, Caller

-----------------------------------------------------------------------------
\* The network and the server keep their types.
LEMMA ServerTypeStep ==
  ASSUME Ledger, [Next]_vars
  PROVE  ServerTypeOK'
<1>0. IInv /\ Tracked /\ TypeOK /\ TypeOK'
  BY LoopInvariant DEF Ledger, IInv
<1>2. ASSUME NEW c \in Calls, Sends(c) \/ Returns(c) \/ Thinks(c)
      PROVE  ServerTypeOK'
  <2>1. CASE Sends(c)
    <3>1. attempt'[c] = attempt[c] + 1 /\ attempt[c] \in 0..Tries /\ attempt'[c] \in 0..Tries
      BY <1>0, <2>1 DEF Sends, TypeOK
    <3>2. <<c, attempt[c] + 1>> \in Messages
      BY <3>1, TriesType DEF Messages
    <3> QED
      BY <1>0, <2>1, <3>2 DEF Sends, serverOnly, Tracked, ServerTypeOK
  <2>2. CASE Returns(c)
    BY <1>0, <2>2 DEF Returns, serverOnly, Tracked, ServerTypeOK
  <2>3. CASE Thinks(c)
    BY <1>0, <2>3 DEF Thinks, serverVars, Tracked, ServerTypeOK
  <2> QED BY <1>2, <2>1, <2>2, <2>3
<1>3. ASSUME NEW m \in Messages, Server(m), Handles(m)
      PROVE  ServerTypeOK'
  <2>1. reply' \in [Calls -> SUBSET Replies]
    BY <1>0, <1>3 DEF Handles, Answer, Tracked, ServerTypeOK
  <2>2. m \in Live
    BY <1>3 DEF Handles
  <2>3. KeyOf(m) \in Keys \cup {NoKey}
    BY <1>0, <2>2, LiveRequests
  <2>4. /\ wire' \subseteq Messages /\ busy' \subseteq Messages /\ applied' \subseteq Messages
        /\ held' \subseteq Leases /\ claimed' \subseteq Keys /\ forgot' \subseteq Keys
    BY <1>0, <1>3, <2>3
       DEF Server, Lose, GatewayAnswers, Refuse, KeyInFlight, KeyHit, StaleToken, Begin,
           Commit, Abort, Tracked, ServerTypeOK
  <2> QED
    BY <1>0, <2>1, <2>4 DEF ServerTypeOK
<1>4. CASE Passes
  BY <1>0, <1>4 DEF Passes, Tracked, ServerTypeOK
<1> QED
  BY <1>0, <1>2, <1>3, <1>4, Sorted

\* A request stays of an attempt that was begun, and in one place.
LEMMA TrackedStep ==
  ASSUME Ledger, [Next]_vars
  PROVE  Tracked'
<1>0. IInv /\ Tracked /\ TypeOK /\ ServerTypeOK /\ ServerTypeOK'
  BY ServerTypeStep DEF Ledger, IInv, Tracked
<1>1. \A m \in Live : m \in Messages /\ m[1] \in Calls /\ m[2] \in Nat
  BY <1>0, TriesType DEF Live, ServerTypeOK, Messages
<1>2. \A c \in Calls : attempt[c] \in Nat
  BY <1>0, TriesType DEF TypeOK
<1> DEFINE Begun   == \A m \in Live : m[2] <= attempt[m[1]]
           Apart   == wire \cap busy = {} /\ wire \cap applied = {} /\ busy \cap applied = {}
           Awaited == \A c \in Calls : reply[c] # {} => pc[c] = "flight"
<1>3. ASSUME NEW c \in Calls, Sends(c)
      PROVE  Begun' /\ Apart' /\ Awaited'
  <2> DEFINE new == <<c, attempt[c] + 1>>
  <2>1. new \notin Live /\ new[1] = c /\ new[2] = attempt[c] + 1
    BY <1>0, <1>2 DEF Tracked
  <2>2. Live' = Live \cup {new}
    BY <1>3 DEF Sends, serverOnly, Live
  <2>3. attempt' = [attempt EXCEPT ![c] = @ + 1] /\ attempt[c] \in Nat
    BY <1>2, <1>3 DEF Sends
  <2>4. Begun'
    <3> SUFFICES ASSUME NEW m \in Live' PROVE m[2] <= attempt'[m[1]]
      OBVIOUS
    <3>1. CASE m = new
      BY <1>0, <2>1, <2>3, <3>1 DEF TypeOK
    <3>2. CASE m \in Live
      <4>1. m[2] <= attempt[m[1]] /\ m[1] \in Calls /\ m[2] \in Nat
        BY <1>0, <1>1, <3>2 DEF Tracked
      <4> QED
        BY <1>0, <1>2, <2>3, <4>1 DEF TypeOK
    <3> QED BY <2>2, <3>1, <3>2
  <2>5. Apart'
    BY <1>0, <1>3, <2>1 DEF Sends, serverOnly, Tracked, Live
  <2>6. Awaited'
    BY <1>0, <1>3 DEF Sends, Tracked, TypeOK
  <2> QED BY <2>4, <2>5, <2>6
<1>4. ASSUME NEW c \in Calls, Returns(c)
      PROVE  Begun' /\ Apart' /\ Awaited'
  BY <1>0, <1>4 DEF Returns, serverOnly, Tracked, Live, ServerTypeOK
<1>5. ASSUME NEW c \in Calls, Thinks(c)
      PROVE  Begun' /\ Apart' /\ Awaited'
  BY <1>0, <1>5 DEF Thinks, serverVars, Tracked, Live
<1>6. ASSUME NEW m \in Messages, Server(m), Handles(m)
      PROVE  Begun' /\ Apart' /\ Awaited'
  <2>1. Begun'
    BY <1>0, <1>6 DEF Handles, Tracked, doVars
  <2>2. Apart'
    BY <1>0, <1>6 DEF Server, Lose, GatewayAnswers, Refuse, KeyInFlight, KeyHit,
                      StaleToken, Begin, Commit, Abort, Tracked
  <2>3. Awaited'
    BY <1>0, <1>6 DEF Handles, Answer, Tracked, doVars, ServerTypeOK
  <2> QED BY <2>1, <2>2, <2>3
<1>7. CASE Passes
  BY <1>0, <1>7 DEF Passes, Tracked, Live
<1> QED
  BY <1>0, <1>3, <1>4, <1>5, <1>6, <1>7, Sorted DEF Tracked

\* A request whose call was told it changed nothing stays one that cannot.
LEMMA SettledStep ==
  ASSUME Ledger, [Next]_vars, NEW d \in Calls
  PROVE  Settled(d)'
<1>0. IInv /\ Tracked /\ TypeOK /\ ServerTypeOK /\ Settled(d)
  BY DEF Ledger, IInv, Tracked
<1>1. attempt[d] \in Nat /\ errs[d] \in Seq(Failures)
  BY <1>0, TriesType DEF TypeOK
<1>2. ASSUME NEW c \in Calls, Sends(c)
      PROVE  Settled(d)'
  <2>1. Live' = Live \cup {<<c, attempt[c] + 1>>}
    BY <1>2 DEF Sends, serverOnly, Live
  <2>2. CASE d = c
    <3>1. \A i \in DOMAIN errs[d] : i < attempt[d] + 1
      BY <1>0, <1>1, <1>2, <2>2 DEF Sends, IInv, Shape
    <3>2. reply'[d] = {} /\ errs'[d] = errs[d]
      BY <1>0, <1>2, <2>2 DEF Sends, Tracked
    <3>3. \A i \in DOMAIN errs[d] : <<d, i>> # <<c, attempt[c] + 1>>
      BY <1>1, <2>2, <3>1
    <3> QED BY <1>0, <2>1, <3>2, <3>3 DEF Settled
  <2>3. CASE d # c
    BY <1>0, <1>2, <2>1, <2>3 DEF Sends, Settled, TypeOK
  <2> QED BY <2>2, <2>3
<1>3. ASSUME NEW c \in Calls, Returns(c)
      PROVE  Settled(d)'
  <2>1. Live' \subseteq Live /\ reply' = [reply EXCEPT ![c] = {}] /\ UNCHANGED attempt
    BY <1>3 DEF Returns, serverOnly, Live
  <2>2. reply'[d] \subseteq reply[d]
    BY <1>0, <2>1 DEF ServerTypeOK
  <2>3. CASE UNCHANGED errs
    BY <1>0, <2>1, <2>2, <2>3 DEF Settled
  <2>4. ASSUME NEW f \in Failures, Lands(c, f)
        PROVE  Settled(d)'
    <3>1. CASE d = c
      <4>1. Len(errs[d]) = attempt[d] - 1
        BY <1>0, <1>3, <3>1 DEF Returns, IInv, Shape
      <4>2. errs'[d] = Append(errs[d], f)
        BY <1>0, <2>4, <3>1 DEF Lands, TypeOK
      <4>3. AttemptUnknown(f) \/ <<d, attempt[d]>> \notin Live'
        BY <1>0, <1>3, <2>1, <2>4, <3>1 DEF Lands, Settled, Tracked, Live, Returns, serverOnly
      <4>4. \A i \in DOMAIN errs'[d] :
              AttemptUnknown(errs'[d][i]) \/ <<d, i>> \notin Live'
        <5> SUFFICES ASSUME NEW i \in DOMAIN errs'[d]
                     PROVE  AttemptUnknown(errs'[d][i]) \/ <<d, i>> \notin Live'
          OBVIOUS
        <5>1. CASE i = Len(errs[d]) + 1
          <6>1. errs'[d][i] = f
            BY <1>1, <4>2, <5>1, Appending
          <6>2. i = attempt[d]
            BY <1>1, <4>1, <5>1
          <6> QED BY <4>3, <6>1, <6>2
        <5>2. CASE i # Len(errs[d]) + 1
          <6>1. i \in DOMAIN errs[d] /\ errs'[d][i] = errs[d][i]
            BY <1>1, <4>2, <5>2, Appending
          <6> QED BY <1>0, <2>1, <6>1 DEF Settled
        <5> QED BY <5>1, <5>2
      <4> QED BY <1>0, <2>1, <2>2, <4>4 DEF Settled
    <3>2. CASE d # c
      BY <1>0, <2>1, <2>2, <2>4, <3>2 DEF Settled, Lands, TypeOK
    <3> QED BY <3>1, <3>2
  <2> QED BY <1>3, <2>3, <2>4 DEF Returns
<1>4. ASSUME NEW c \in Calls, Thinks(c)
      PROVE  Settled(d)'
  BY <1>0, <1>4 DEF Thinks, serverVars, Settled, Live
<1>5. ASSUME NEW m \in Messages, Handles(m)
      PROVE  Settled(d)'
  <2>1. \A a \in reply'[d] \ reply[d] :
          a = Done \/ AttemptUnknown(a) \/ <<d, attempt[d]>> \notin Live'
    <3>1. m[1] \in Calls /\ m = <<m[1], m[2]>>
      BY DEF Messages
    <3> QED
      BY <1>0, <1>5, <3>1 DEF Handles, Answer, ServerTypeOK
  <2> QED
    BY <1>0, <1>5, <2>1 DEF Handles, Settled, doVars
<1>6. CASE Passes
  BY <1>0, <1>6 DEF Passes, Settled, Live
<1> QED
  BY <1>0, <1>2, <1>3, <1>4, <1>5, <1>6, Sorted

\* What `Spent' says of one request or two is kept by each step: the calls
\* keep what their requests asked, and only the server adds to `applied'.
LEMMA SpentStep ==
  ASSUME Ledger, [Next]_vars
  PROVE  Spent'
<1>0. IInv /\ Tracked /\ TypeOK /\ ServerTypeOK /\ Spent
  BY DEF Ledger, IInv, Tracked
<1>1. \A m \in Live : m \in Messages /\ m[1] \in Calls /\ pc[m[1]] # "idle"
                      /\ KeyOf(m) \in Keys \cup {NoKey}
                      /\ LeaseOf(m) \in Leases \cup {NoLease}
  BY <1>0, LiveRequests
<1>2. ASSUME UNCHANGED <<busy, applied, held, claimed, forgot>>,
             \A m \in busy \cup applied : req'[m[1]] = req[m[1]]
      PROVE  Spent'
  <2>1. \A m \in busy \cup applied : KeyOf(m)' = KeyOf(m) /\ LeaseOf(m)' = LeaseOf(m)
    BY <1>2 DEF KeyOf, LeaseOf
  <2> QED
    BY <1>0, <1>2, <2>1 DEF Spent
<1>3. ASSUME NEW c \in Calls, Sends(c) \/ Returns(c) \/ Thinks(c)
      PROVE  Spent'
  <2>1. \A m \in busy \cup applied : req'[m[1]] = req[m[1]]
    BY <1>0, <1>1, <1>3 DEF Sends, Returns, Thinks, TypeOK, Live
  <2>2. UNCHANGED <<busy, applied, held, claimed, forgot>>
    BY <1>3 DEF Sends, Returns, Thinks, serverOnly, serverVars
  <2> QED
    BY <1>2, <2>1, <2>2
<1>4. ASSUME NEW m \in Messages, Server(m), Handles(m)
      PROVE  Spent'
  <2>0. \A n : KeyOf(n)' = KeyOf(n) /\ LeaseOf(n)' = LeaseOf(n)
    BY <1>4 DEF Handles, doVars, KeyOf, LeaseOf
  <2>1. CASE Begin(m)
    BY <1>0, <2>0, <2>1 DEF Begin, Spent
  <2>2. CASE Commit(m)
    <3>1. m \in Live /\ m \in busy
      BY <2>2 DEF Commit, Live
    <3>2. \A n \in applied : n[1] = m[1] => KeyOf(n) = KeyOf(m) /\ LeaseOf(n) = LeaseOf(m)
      BY DEF KeyOf, LeaseOf
    <3>3. /\ \A n \in applied' : /\ LeaseOf(n) \notin held'
                                 /\ KeyOf(n) \in claimed' \cup forgot' \cup {NoKey}
      BY <1>0, <1>1, <2>2, <3>1, TokensAssumption DEF Commit, Spent, ServerTypeOK
    <3>4. \A n \in busy' : KeyOf(n) \notin claimed'
      BY <1>0, <2>2, <3>1 DEF Commit, Spent
    <3>5. \A n \in applied : n[1] = m[1] =>
            LeaseOf(m) = NoLease /\ KeyOf(m) \in forgot \cup {NoKey}
      BY <1>0, <2>2, <3>1, <3>2 DEF Commit, Spent
    <3>6. \A n, o \in applied' : n[1] = o[1] /\ n # o =>
            LeaseOf(n) = NoLease /\ KeyOf(n) \in forgot' \cup {NoKey}
      BY <1>0, <2>2, <3>2, <3>5 DEF Commit, Spent
    <3> QED
      BY <1>0, <2>0, <2>2, <3>3, <3>4, <3>6 DEF Commit, Spent
  <2>3. CASE UNCHANGED <<applied, held, claimed, forgot>> /\ busy' \subseteq busy
    BY <1>0, <2>0, <2>3 DEF Spent
  <2> QED
    BY <1>4, <2>1, <2>2, <2>3
       DEF Server, Lose, GatewayAnswers, Refuse, KeyInFlight, KeyHit, StaleToken, Abort
<1>5. CASE Passes
  <2>1. \A n : KeyOf(n)' = KeyOf(n) /\ LeaseOf(n)' = LeaseOf(n)
    BY <1>5 DEF Passes, KeyOf, LeaseOf
  <2> QED
    BY <1>0, <1>5, <2>1 DEF Passes, Spent
<1> QED
  BY <1>0, <1>3, <1>4, <1>5, Sorted

\* A success, and a key the window remembers, stand for a change that was made.
LEMMA BackedStep ==
  ASSUME Ledger, [Next]_vars
  PROVE  Backed'
<1>0. IInv /\ Tracked /\ TypeOK /\ ServerTypeOK /\ Backed
  BY DEF Ledger, IInv, Tracked
<1>1. \A m \in Live : m \in Messages /\ m[1] \in Calls /\ pc[m[1]] # "idle"
  BY <1>0, LiveRequests
<1>2. ASSUME NEW c \in Calls, Sends(c) \/ Returns(c) \/ Thinks(c)
      PROVE  Backed'
  <2>1. \A d \in Calls : pc[d] # "idle" => req'[d] = req[d]
    BY <1>0, <1>2 DEF Sends, Returns, Thinks, TypeOK
  <2>2. \A m \in applied : KeyOf(m)' = KeyOf(m)
    BY <1>1, <2>1 DEF KeyOf, Live
  <2>3. UNCHANGED <<applied, claimed>>
    BY <1>2 DEF Sends, Returns, Thinks, serverOnly, serverVars
  <2>4. \A d \in Calls : reply'[d] \subseteq reply[d]
    BY <1>0, <1>2 DEF Sends, Returns, Thinks, serverVars, ServerTypeOK
  <2>5. \A d \in Calls : reply[d] # {} => req'[d] = req[d]
    BY <1>0, <2>1 DEF Tracked
  <2>6. \A d \in Calls : Done \in reply'[d] => \E m \in applied : Backs(m, d)'
    BY <1>0, <2>2, <2>4, <2>5 DEF Backed, Backs
  <2> QED
    BY <1>0, <2>2, <2>3, <2>6 DEF Backed
<1>3. ASSUME NEW m \in Messages, Server(m), Handles(m)
      PROVE  Backed'
  <2>0. /\ \A n : KeyOf(n)' = KeyOf(n)
        /\ \A n, d : Backs(n, d)' = Backs(n, d)
    BY <1>3 DEF Handles, doVars, KeyOf, Backs
  <2>1. applied \subseteq applied'
    BY <1>3 DEF Server, Lose, GatewayAnswers, Refuse, KeyInFlight, KeyHit, StaleToken,
                Begin, Commit, Abort
  <2>2. \A k \in claimed' : \E n \in applied' : KeyOf(n) = k
    BY <1>0, <1>3 DEF Server, Lose, GatewayAnswers, Refuse, KeyInFlight, KeyHit,
                      StaleToken, Begin, Commit, Abort, Backed
  <2>3. ASSUME NEW d \in Calls, Done \in reply'[d]
        PROVE  \E n \in applied' : Backs(n, d)
    <3>1. CASE Done \in reply[d]
      BY <1>0, <2>1, <3>1 DEF Backed
    <3>2. CASE Done \notin reply[d]
      <4>1. Done # Stale /\ Done # InFlight /\ Done # Claimed /\ Done \notin Refusals
            /\ Done \notin Unclear
        BY ReplyTypes
      <4>2. ASSUME NEW a \in Replies, Answer(m, a)
            PROVE  a = Done /\ m[1] = d
        BY <1>0, <2>3, <3>2, <4>2 DEF Answer, ServerTypeOK
      <4>3. (KeyHit(m) \/ Commit(m)) /\ m[1] = d
        BY <1>3, <2>3, <3>2, <4>1, <4>2, ReplyTypes
           DEF Server, Lose, GatewayAnswers, Refuse, KeyInFlight, StaleToken, Begin, Abort,
               KeyHit, Commit, Unclear, Refusals
      <4>4. CASE Commit(m)
        BY <4>3, <4>4 DEF Commit, Backs
      <4>5. CASE KeyHit(m)
        <5>1. KeyOf(m) \in claimed /\ KeyOf(m) # NoKey /\ KeyOf(m) = req[d].key
          BY <1>0, <4>3, <4>5, TokensAssumption DEF KeyHit, ServerTypeOK, KeyOf
        <5>2. PICK n \in applied : KeyOf(n) = KeyOf(m)
          BY <1>0, <5>1 DEF Backed
        <5> QED BY <2>1, <5>1, <5>2 DEF Backs
      <4> QED BY <4>3, <4>4, <4>5
    <3> QED BY <3>1, <3>2
  <2> QED
    BY <2>0, <2>2, <2>3 DEF Backed
<1>4. CASE Passes
  <2>1. /\ \A n : KeyOf(n)' = KeyOf(n)
        /\ \A n, d : Backs(n, d)' = Backs(n, d)
    BY <1>4 DEF Passes, KeyOf, Backs
  <2> QED
    BY <1>0, <1>4, <2>1 DEF Passes, Backed
<1> QED
  BY <1>0, <1>2, <1>3, <1>4, Sorted

-----------------------------------------------------------------------------
\* The inductive invariant of the calls, the network and the server together,
\* from which the theorems below follow.
THEOREM LedgerKept == Spec => []Ledger
<1>1. Ledger /\ [Next]_vars => Ledger'
  BY LoopInvariant, TrackedStep, SettledStep, SpentStep, BackedStep DEF Ledger
<1> QED
  BY InitLedger, <1>1, PTL DEF Spec

\* Whatever is sent, lost, answered and changed, every variable keeps its type.
THEOREM ServerTyping == Spec => []ServerTypeOK
<1>1. Ledger => ServerTypeOK
  BY DEF Ledger, Tracked
<1> QED
  BY LedgerKept, <1>1, PTL

\* The number of failures a call ended with, and what not matching
\* ErrResultUnknown says of each of them.
LEMMA NoneOpen ==
  ASSUME Ledger, NEW c \in Calls, out[c] \in {"refused", "failed"}, ~Unknown(c)
  PROVE  \A m \in Live : m[1] # c
<1> SUFFICES ASSUME NEW m \in Live, m[1] = c PROVE FALSE
  OBVIOUS
<1>1. m = <<c, m[2]>> /\ m[2] \in 1..Tries /\ m[2] <= attempt[c]
  BY LiveRequests DEF Ledger, Tracked
<1>2. Len(errs[c]) = attempt[c] /\ errs[c] \in Seq(Failures) /\ attempt[c] \in Nat
  BY TriesType DEF Ledger, IInv, Shape, TypeOK
<1>3. m[2] \in DOMAIN errs[c]
  BY <1>1, <1>2, TriesType
<1>4. AttemptUnknown(errs[c][m[2]])
  BY <1>1, <1>3 DEF Ledger, Settled
<1> QED
  BY <1>3, <1>4 DEF Unknown, RpcError, ResultUnknown

\* An error that does not match ErrResultUnknown is the truth: no attempt of
\* the call changed anything, or ever will.
THEOREM Honesty == Spec => []HonestFailure
<1>1. Ledger => HonestFailure
  BY NoneOpen DEF HonestFailure, Live
<1> QED
  BY LedgerKept, <1>1, PTL

\* Of two changes of one call the later followed a failure that left the first
\* open, which only a request with RetryUnknown does.
LEMMA TwiceAsked ==
  ASSUME Ledger, NEW m \in Live, NEW n \in Live, m[1] = n[1], m # n
  PROVE  req[m[1]].policy = "retrySendUnknown"
<1> DEFINE c == m[1]
<1>1. /\ m = <<c, m[2]>> /\ n = <<c, n[2]>> /\ c \in Calls
      /\ m[2] \in 1..Tries /\ n[2] \in 1..Tries /\ pc[c] # "idle"
      /\ m[2] <= attempt[c] /\ n[2] <= attempt[c]
  BY LiveRequests DEF Ledger, Tracked
<1>2. /\ errs[c] \in Seq(Failures) /\ attempt[c] \in Nat
      /\ Len(errs[c]) >= attempt[c] - 1
  BY <1>1, TriesType DEF Ledger, IInv, TypeOK, Shape, Places, Outcomes
<1>3. PICK i \in {m[2], n[2]} : i < attempt[c]
  <2>1. m[2] # n[2]
    BY <1>1
  <2> QED
    BY <1>1, <1>2, <2>1, TriesType
<1>4. i \in DOMAIN errs[c] /\ <<c, i>> \in Live
  <2>1. <<c, m[2]>> \in Live /\ <<c, n[2]>> \in Live
    BY <1>1, Zenon
  <2>2. i \in Nat /\ i >= 1
    BY <1>1, TriesType
  <2>3. i \in 1..Len(errs[c])
    BY <1>3, <1>2, <2>2
  <2> QED
    BY <1>2, <2>1, <2>3
<1>5. AttemptUnknown(errs[c][i])
  <2>1. Settled(c)
    BY <1>1 DEF Ledger
  <2> QED
    BY <1>4, <2>1 DEF Settled
<1>6. errs[c][i] \in Failures
  BY <1>2, <1>4
<1> QED
  BY <1>1, <1>3, <1>4, <1>5, <1>6, OnlyAskedRetriesUnknown DEF Ledger, IInv, Policed

\* No call changes a spool twice, unless it set RetryUnknown and neither a
\* lease nor a dedup key the window still remembers protected it.
LEMMA OnceEach == Ledger => AtMostOnce
BY TwiceAsked DEF Ledger, Spent, AtMostOnce, Unprotected, Live, KeyOf, LeaseOf

\* Nobody's change is made twice behind its back, however often it was sent.
THEOREM Once == Spec => []AtMostOnce
BY LedgerKept, OnceEach, PTL

-----------------------------------------------------------------------------
(***************************************************************************)
(* The promise.                                                            *)
(***************************************************************************)
Phases == [c \in Calls |-> Phase(c)]
Made   == [c \in Calls |-> {n \in 1..Tries : <<c, n>> \in applied}]

\* A call that the step leaves alone is where it was.
LEMMA PhaseKept ==
  ASSUME NEW c \in Calls, pc'[c] = pc[c], out'[c] = out[c], errs'[c] = errs[c]
  PROVE  Phase(c)' = Phase(c)
BY DEF Phase, Unknown

\* A step of one call alone changes the phase of no other call.
LEMMA OnePhase ==
  ASSUME NEW c \in Calls, NEW p, Phase(c)' = p,
         \A d \in Calls \ {c} : pc'[d] = pc[d] /\ out'[d] = out[d] /\ errs'[d] = errs[d]
  PROVE  Phases' = [Phases EXCEPT ![c] = p]
<1>1. \A d \in Calls \ {c} : Phase(d)' = Phase(d)
  BY PhaseKept
<1> QED
  BY <1>1 DEF Phases

\* Before any call begins nothing was promised.
LEMMA PromiseInit == Init => Promise!Init
BY DEF Init, DoInit, Promise!Init, Phase

\* Where a call is that was sent and has not returned.
LEMMA OpenPhase ==
  ASSUME NEW c \in Calls, pc[c] \in {"flight", "decide", "wait"}, out[c] = "none"
  PROVE  Phase(c) = "open"
BY DEF Phase

\* A failure in hand leaves the result open, and the caller is told.
LEMMA UnknownTold ==
  ASSUME NEW c \in Calls, NEW i \in DOMAIN errs[c], AttemptUnknown(errs[c][i])
  PROVE  Unknown(c)
BY DEF Unknown, RpcError, ResultUnknown

\* Where a call is that returned.
LEMMA ReturnedPhase ==
  ASSUME NEW c \in Calls, pc[c] = "done"
  PROVE  /\ out[c] = "ok" => Phase(c) = "ok"
         /\ out[c] = "refused" => Phase(c) = "failed"
         /\ out[c] = "failed" => Phase(c) = IF Unknown(c) THEN "unknown" ELSE "failed"
BY DEF Phase

\* A call with a request that is live is none that failed for good.
LEMMA LivePhase ==
  ASSUME Ledger, NEW m \in Live
  PROVE  m[1] \in Calls /\ Phase(m[1]) \in {"open", "ok", "unknown"}
<1>1. m[1] \in Calls /\ pc[m[1]] # "idle"
  BY LiveRequests DEF Ledger
<1>2. /\ pc[m[1]] \in Places /\ out[m[1]] \in Outcomes
      /\ out[m[1]] = "none" <=> pc[m[1]] # "done"
  BY <1>1 DEF Ledger, IInv, TypeOK, Shape
<1>3. out[m[1]] \in {"refused", "failed"} => Unknown(m[1])
  BY <1>1, NoneOpen
<1>4. out[m[1]] # "refused"
  <2>1. out[m[1]] = "refused" => attempt[m[1]] = 0
    BY <1>1 DEF Ledger, IInv, Shape
  <2>2. m[2] <= attempt[m[1]] /\ m[2] \in 1..Tries
    BY LiveRequests DEF Ledger, Tracked
  <2> QED BY <2>1, <2>2, TriesType
<1> QED
  BY <1>1, <1>2, <1>3, <1>4, OpenPhase, ReturnedPhase DEF Places, Outcomes

\* A call that begins, or is refused before anything was sent.
LEMMA InvokeStep ==
  ASSUME Ledger, [Next]_vars, NEW c \in Calls, NEW r \in Requests,
         SendFirst(c, r) \/ (CannotEncode(c, r) /\ UNCHANGED serverVars)
  PROVE  Promise!Invoke(c, r) \/ Promise!Refuse(c, r)
<1>0. TypeOK /\ Shape(c)
  BY DEF Ledger, IInv
<1>1. Phase(c) = "new" /\ req' = [req EXCEPT ![c] = r] /\ UNCHANGED <<applied, forgot>>
  BY <1>0 DEF SendFirst, Start, Depart, CannotEncode, serverVars, Phase, Shape
<1>2. Made' = Made
  BY <1>1 DEF Made
<1>3. CASE SendFirst(c, r)
  <2>1. pc'[c] = "flight" /\ out'[c] = "none"
    BY <1>0, <1>3 DEF SendFirst, Start, TypeOK, Shape
  <2>2. Phase(c)' = "open"
    BY <2>1 DEF Phase
  <2>3. Phases' = [Phases EXCEPT ![c] = "open"]
    BY <1>0, <1>3, <2>2, OnePhase DEF SendFirst, Start, TypeOK
  <2> QED
    BY <1>1, <1>2, <2>3 DEF Promise!Invoke, Phases, Made
<1>4. CASE CannotEncode(c, r)
  <2>1. pc'[c] = "done" /\ out'[c] = "refused"
    BY <1>0, <1>4 DEF CannotEncode, TypeOK
  <2>2. Phase(c)' = "failed"
    BY <2>1 DEF Phase
  <2>3. Phases' = [Phases EXCEPT ![c] = "failed"]
    BY <1>0, <1>4, <2>2, OnePhase DEF CannotEncode, TypeOK
  <2> QED
    BY <1>1, <1>2, <2>3 DEF Promise!Refuse, Phases, Made
<1> QED
  BY <1>3, <1>4

\* A call that gives up failed for good, or says that it may not have.
LEMMA FailStep ==
  ASSUME Ledger, Ledger', NEW c \in Calls, pc[c] \in {"decide", "wait"}, Fail(c),
         UNCHANGED serverVars
  PROVE  Promise!ReturnFailed(c) \/ Promise!ReturnUnknown(c)
<1>0. TypeOK /\ Shape(c)
  BY DEF Ledger, IInv
<1>1. Phase(c) = "open"
  BY <1>0, OpenPhase DEF Shape
<1>2. pc'[c] = "done" /\ out'[c] = "failed"
  BY <1>0 DEF Fail, TypeOK
<1>3. Phase(c)' = IF Unknown(c)' THEN "unknown" ELSE "failed"
  BY <1>2 DEF Phase
<1>4. UNCHANGED <<req, applied, forgot>> /\ Made' = Made
  BY DEF Fail, serverVars, Made
<1>5. CASE Unknown(c)'
  <2>1. Phases' = [Phases EXCEPT ![c] = "unknown"]
    BY <1>0, <1>3, <1>5, OnePhase DEF Fail, TypeOK
  <2> QED
    BY <1>1, <1>4, <2>1 DEF Promise!ReturnUnknown, Phases, Made
<1>6. CASE ~Unknown(c)'
  <2>1. Phases' = [Phases EXCEPT ![c] = "failed"]
    BY <1>0, <1>3, <1>6, OnePhase DEF Fail, TypeOK
  <2>2. \A m \in Live' : m[1] # c
    <3>1. (Ledger => (out[c] \in {"refused", "failed"} /\ ~Unknown(c)
                        => \A m \in Live : m[1] # c))'
      BY NoneOpen, PTL
    <3> QED
      BY <1>2, <1>6, <3>1
  <2>3. \A n \in 1..Tries : <<c, n>> \notin applied
    BY <1>4, <2>2 DEF Live
  <2> QED
    BY <1>1, <1>4, <2>1, <2>3 DEF Promise!ReturnFailed, Phases, Made
<1> QED
  BY <1>5, <1>6

\* A call that hears of a success returns it, or could not read its body.
LEMMA SuccessStep ==
  ASSUME Ledger, NEW c \in Calls, Done \in reply[c],
         Succeed(c) \/ \E chain \in Breakages : BodyLost(c, chain),
         UNCHANGED <<applied, forgot>>
  PROVE  Promise!ReturnOk(c) \/ Promise!ReturnUnknown(c)
<1>0. TypeOK /\ Shape(c)
  BY DEF Ledger, IInv
<1>1. pc[c] = "flight" /\ Phase(c) = "open" /\ UNCHANGED req
  BY <1>0, OpenPhase DEF Shape, Succeed, BodyLost, Answering
<1>2. Made' = Made
  BY DEF Made
<1>3. CASE Succeed(c)
  <2>1. PICK m \in applied : Backs(m, c)
    BY DEF Ledger, Backed
  <2>2. m[1] \in Calls /\ m = <<m[1], m[2]>> /\ m[2] \in 1..Tries
    BY LiveRequests DEF Ledger, Live
  <2>3. Made[m[1]] # {}
    BY <2>2 DEF Made
  <2>4. pc'[c] = "done" /\ out'[c] = "ok"
    BY <1>0, <1>3 DEF Succeed, TypeOK
  <2>5. Phase(c)' = "ok"
    BY <2>4 DEF Phase
  <2>6. Phases' = [Phases EXCEPT ![c] = "ok"]
    BY <1>0, <1>3, <2>5, OnePhase DEF Succeed, TypeOK
  <2>7. m[1] = c \/ (req[c].key # NoKey /\ req[m[1]].key = req[c].key)
    BY <2>1 DEF Backs, KeyOf
  <2> QED
    BY <1>1, <1>2, <2>2, <2>3, <2>6, <2>7 DEF Promise!ReturnOk, Phases, Made
<1>4. ASSUME NEW chain \in Breakages, BodyLost(c, chain)
      PROVE  Promise!ReturnUnknown(c)
  <2>1. /\ errs[c] \in Seq(Failures) /\ BodyError(chain) \in Failures
        /\ errs'[c] = Append(errs[c], BodyError(chain))
        /\ pc'[c] = "done" /\ out'[c] = "failed"
    BY <1>0, <1>4, ChainTypes DEF BodyLost, TypeOK
  <2>2. \E i \in DOMAIN errs'[c] : errs'[c][i] = BodyError(chain)
    BY <2>1, Appending
  <2>3. Unknown(c)'
    BY <2>2, ChainTypes DEF Unknown, RpcError, ResultUnknown, AttemptUnknown
  <2>4. Phase(c)' = "unknown"
    BY <2>1, <2>3 DEF Phase
  <2>5. Phases' = [Phases EXCEPT ![c] = "unknown"]
    BY <1>0, <1>4, <2>4, OnePhase DEF BodyLost, TypeOK
  <2> QED
    BY <1>1, <1>2, <2>5 DEF Promise!ReturnUnknown, Phases, Made
<1> QED
  BY <1>3, <1>4

\* The server's change is the call's.
LEMMA ChangeStep ==
  ASSUME Ledger, Ledger', NEW m \in Messages, Commit(m)
  PROVE  Promise!Change(m[1])
<1> DEFINE c == m[1]
<1>0. m \in Live /\ m \notin applied /\ m = <<c, m[2]>> /\ c \in Calls /\ m[2] \in 1..Tries
  BY LiveRequests DEF Ledger, Tracked, Commit, Live
<1>1. Phase(c) \in {"open", "ok", "unknown"}
  BY <1>0, LivePhase
<1>2. Phases' = Phases /\ UNCHANGED <<req, forgot>>
  BY PhaseKept DEF Commit, doVars, Phases
<1>3. m[2] \notin Made[c] /\ Made' = [Made EXCEPT ![c] = @ \cup {m[2]}]
  <2>1. applied' = applied \cup {<<c, m[2]>>}
    BY <1>0 DEF Commit
  <2>2. \A d \in Calls : \A n \in 1..Tries :
          <<d, n>> \in applied' <=> <<d, n>> \in applied \/ (d = c /\ n = m[2])
    BY <2>1
  <2>3. \A d \in Calls : Made'[d] = IF d = c THEN Made[d] \cup {m[2]} ELSE Made[d]
    BY <1>0, <2>2 DEF Made
  <2>4. m[2] \notin Made[c]
    BY <1>0 DEF Made
  <2> QED
    BY <2>3, <2>4 DEF Made
<1>4. Made[c] = {} \/ Promise!Unprotected(c)
  <2> SUFFICES ASSUME NEW i \in Made[c] PROVE Promise!Unprotected(c)
    OBVIOUS
  <2>1. <<c, i>> \in applied /\ <<c, i>> # m
    BY <1>0 DEF Made
  <2>2. AtMostOnce'
    <3>1. (Ledger => AtMostOnce)'
      BY OnceEach, PTL
    <3> QED BY <3>1
  <2>3. Unprotected(c)'
    BY <1>0, <2>1, <2>2 DEF AtMostOnce, Commit
  <2> QED
    BY <1>2, <2>3 DEF Unprotected, Promise!Unprotected
<1> QED
  BY <1>0, <1>1, <1>2, <1>3, <1>4 DEF Promise!Change, Phases, Made

\* The rest the promise does not see.
LEMMA SilentStep ==
  ASSUME UNCHANGED <<req, applied, forgot>>,
         \A c \in Calls : Phase(c)' = Phase(c)
  PROVE  UNCHANGED Promise!promiseVars
<1>1. Phases' = Phases /\ Made' = Made
  BY DEF Phases, Made
<1> QED
  BY <1>1 DEF Promise!promiseVars, Phases, Made

\* Every step of the calls, the network and the server is one of the promise.
LEMMA PromiseStep ==
  ASSUME Ledger, Ledger', [Next]_vars
  PROVE  [Promise!Next]_Promise!promiseVars
<1>0. TypeOK /\ \A c \in Calls : Shape(c)
  BY DEF Ledger, IInv
<1>1. ASSUME NEW c \in Calls, NEW r \in Requests,
             SendFirst(c, r) \/ (CannotEncode(c, r) /\ UNCHANGED serverVars)
      PROVE  Promise!Next
  BY <1>1, InvokeStep DEF Promise!Next
<1>2. ASSUME NEW c \in Calls, pc[c] \in {"decide", "wait"}, Fail(c), UNCHANGED serverVars
      PROVE  Promise!Next
  BY <1>2, FailStep DEF Promise!Next
<1>3. ASSUME NEW c \in Calls, pc[c] \in {"flight", "decide", "wait"},
             pc'[c] \in {"flight", "decide", "wait"}, UNCHANGED out,
             \A d \in Calls \ {c} : pc'[d] = pc[d] /\ errs'[d] = errs[d],
             UNCHANGED <<req, applied, forgot>>
      PROVE  UNCHANGED Promise!promiseVars
  <2>1. out[c] = "none" /\ out'[c] = "none"
    BY <1>0, <1>3 DEF Shape
  <2>2. Phase(c) = "open" /\ Phase(c)' = "open"
    BY <1>3, <2>1 DEF Phase
  <2>3. \A d \in Calls : Phase(d)' = Phase(d)
    BY <1>3, <2>2, PhaseKept
  <2> QED
    BY <1>3, <2>3, SilentStep
<1>4. ASSUME UNCHANGED <<pc, out, errs, req, applied, forgot>>
      PROVE  UNCHANGED Promise!promiseVars
  BY <1>4, PhaseKept, SilentStep
<1>5. ASSUME NEW c \in Calls, Alone(c)
      PROVE  [Promise!Next]_Promise!promiseVars
  <2>1. CASE Prepare(c)
    BY <1>0, <1>3, <1>5, <2>1 DEF Alone, Prepare, serverVars, TypeOK
  <2>2. CASE Cancel(c) \/ Expire(c)
    BY <1>4, <1>5, <2>2 DEF Alone, Cancel, Expire, serverVars
  <2>3. CASE GiveUp(c) \/ CannotReopen(c) \/ TooLate(c) \/ CutWait(c)
    BY <1>2, <1>5, <2>3 DEF Alone, GiveUp, CannotReopen, TooLate, CutWait
  <2> QED
    BY <1>1, <1>5, <2>1, <2>2, <2>3 DEF Alone
<1>6. ASSUME NEW c \in Calls, SendAgain(c)
      PROVE  UNCHANGED Promise!promiseVars
  BY <1>0, <1>3, <1>6 DEF SendAgain, Resend, Depart, TypeOK
<1>7. ASSUME NEW c \in Calls, Hear(c)
      PROVE  [Promise!Next]_Promise!promiseVars
  <2>1. CASE Done \in reply[c] /\ (Succeed(c) \/ \E chain \in Breakages : BodyLost(c, chain))
    BY <1>7, <2>1, SuccessStep DEF Hear, Promise!Next
  <2>2. ASSUME NEW a \in Answers, Answered(c, a)
        PROVE  UNCHANGED Promise!promiseVars
    BY <1>0, <1>3, <1>7, <2>2 DEF Hear, Answered, Answering, TypeOK
  <2> QED
    BY <1>7, <2>1, <2>2 DEF Hear
<1>8. ASSUME NEW c \in Calls, NEW chain, Broken(c, chain), UNCHANGED <<applied, forgot>>
      PROVE  UNCHANGED Promise!promiseVars
  BY <1>0, <1>3, <1>8 DEF Broken, Answering, TypeOK
<1>9. ASSUME NEW c \in Calls, StopWaiting(c) \/ \E chain \in Breakages : NeverLeft(c, chain)
      PROVE  UNCHANGED Promise!promiseVars
  BY <1>8, <1>9 DEF StopWaiting, NeverLeft, CutByContext, TimedOut
<1>10. ASSUME NEW m \in Messages, Server(m)
       PROVE  [Promise!Next]_Promise!promiseVars
  <2>1. CASE Commit(m)
    <3>1. m[1] \in Calls
      BY DEF Messages
    <3> QED
      BY <2>1, <3>1, ChangeStep DEF Promise!Next
  <2>2. CASE ~Commit(m)
    BY <1>4, <1>10, <2>2
       DEF Server, Lose, GatewayAnswers, Refuse, KeyInFlight, KeyHit, StaleToken, Begin,
           Abort, doVars
  <2> QED BY <2>1, <2>2
<1>11. ASSUME NEW k \in Keys, Forget(k)
       PROVE  Promise!Next
  <2>1. PICK m \in applied : KeyOf(m) = k
    BY <1>11 DEF Forget, Ledger, Backed
  <2>2. req[m[1]] \in Requests /\ req[m[1]].key = k
    BY <2>1, LiveRequests DEF Ledger, Live, KeyOf
  <2>3. Phases' = Phases /\ Made' = Made
    BY <1>11, PhaseKept DEF Forget, doVars, Phases, Made
  <2>4. Promise!Forget(req[m[1]].key)
    BY <1>11, <2>2, <2>3 DEF Promise!Forget, Forget, doVars, Phases, Made
  <2> QED
    BY <2>2, <2>4 DEF Promise!Next
<1>12. CASE (\E l \in Leases : LeaseEnds(l)) \/ Quiet \/ UNCHANGED vars
  BY <1>4, <1>12 DEF LeaseEnds, Quiet, AllReturned, vars, doVars, serverVars
<1> QED
  BY <1>1, <1>5, <1>6, <1>7, <1>9, <1>10, <1>11, <1>12 DEF Next, Caller

\* The calls implement what an operation promises its caller: a failure that is
\* not unknown changed nothing, a success stands for a change, and no call
\* changes a spool twice unasked.
THEOREM Kept == Spec => KeepsPromise
<1>1. Ledger /\ Ledger' /\ [Next]_vars => [Promise!Next]_Promise!promiseVars
  BY PromiseStep
<1> QED
  BY PromiseInit, LedgerKept, <1>1, PTL DEF Spec, KeepsPromise, Promise!Spec
=============================================================================
