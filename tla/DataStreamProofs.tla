-------------------------- MODULE DataStreamProofs --------------------------
(***************************************************************************)
(* What every end of a dataStream keeps, for a payload of any size and any *)
(* number of goroutines that close it.                                     *)
(***************************************************************************)
EXTENDS DataStream, TLAPS

\* An agent inside sync.Once, before the body is closed, before the hook is
\* told, and before the others are let through.
Inside(a) == pc[a] \in {"closing", "telling", "leaving"}

Untold == Len(told) = 0

\* The Once says how far the end of the stream has come, and one agent at most
\* is inside it.
Guarded ==
  /\ once = "free" => body = "open" /\ Untold
  /\ once = "done" => body = "closed" /\ ~Untold
  /\ once # "taken" => \A a \in Agents : ~Inside(a)
  /\ \A a, b \in Agents : Inside(a) /\ Inside(b) => a = b
  /\ Len(told) <= 1
  /\ ~Untold => body = "closed"

\* The agent inside has done what its place says, and who returned came after.
Staged ==
  \A a \in Agents :
    /\ pc[a] = "closing" => body = "open" /\ Untold
    /\ pc[a] = "telling" => body = "closed" /\ Untold
    /\ pc[a] = "leaving" => body = "closed" /\ ~Untold
    /\ pc[a] = "returned" => once = "done" /\ (a \in Closers => got[a] = serr)

\* The reader's error is the first its reads ended with, until the hook was
\* told, and a close passes none.
Reported ==
  /\ Untold => with[Reader] = first
  /\ first = "eof" => left = 0
  /\ first \in {"none", "eof", "cut", "failure"}
  /\ IF pc[Reader] = "idle" THEN with[Reader] = "none"
     ELSE with[Reader] \in {"eof", "cut", "failure"}
  /\ ~Untold /\ ~Closed => first # "none"
  /\ \A a \in Closers : with[a] = "none"

IInv == StreamTypeOK /\ Guarded /\ Staged /\ Reported /\ EndIsHonest

\* No stream is over before it is read or closed.
LEMMA InitIInv == Init => IInv
<1> SUFFICES ASSUME Init PROVE IInv
  OBVIOUS
<1> USE DEF Init
<1>1. told \in Seq(Errors \ {"eof"}) /\ Len(told) = 0 /\ DOMAIN told = {}
  OBVIOUS
<1>2. StreamTypeOK
  BY <1>1, SizeAssumption DEF StreamTypeOK, Errors
<1>3. Guarded /\ Staged /\ Reported
  BY <1>1 DEF Guarded, Staged, Reported, Inside, Untold, Agents
<1>4. EndIsHonest
  BY <1>1 DEF EndIsHonest
<1> QED
  BY <1>2, <1>3, <1>4 DEF IInv

\* The hook is told of one more end.
LEMMA Appending ==
  ASSUME NEW s \in Seq(Errors \ {"eof"}), Len(s) = 0, NEW e \in Errors \ {"eof"}
  PROVE  /\ Append(s, e) \in Seq(Errors \ {"eof"})
         /\ Len(Append(s, e)) = 1
         /\ DOMAIN Append(s, e) = {1}
         /\ Append(s, e)[1] = e
OBVIOUS

\* A sequence keeps its type when it grows by one of it.
LEMMA AppendType ==
  ASSUME NEW T, NEW s \in Seq(T), NEW e \in T
  PROVE  Append(s, e) \in Seq(T)
OBVIOUS

\* A step that tells nobody keeps what was told honest.
LEMMA HonestKept ==
  ASSUME EndIsHonest, UNCHANGED told,
         Closed => Closed',
         first' = first \/ first = "none",
         (\E i \in DOMAIN told : TRUE) /\ ~Closed => first # "none",
         first = "eof" /\ left = 0 => left' = 0
  PROVE  EndIsHonest'
BY DEF EndIsHonest

\* A read takes one of what is left.
LEMMA OneLess == ASSUME NEW n \in 0..Size, n > 0 PROVE n - 1 \in 0..Size
BY SizeAssumption

\* Types.
LEMMA TypeStep == IInv /\ [Next]_vars => StreamTypeOK'
<1> SUFFICES ASSUME IInv, [Next]_vars PROVE StreamTypeOK'
  OBVIOUS
<1>01. StreamTypeOK
  BY DEF IInv
<1> USE <1>01 DEF StreamTypeOK
<1>0. Reader \in Agents /\ Closers \subseteq Agents /\ \A a \in Agents : with[a] \in Errors
  BY DEF Agents
<1>1. CASE ReadSome
  <2>1. left \in 0..Size /\ left > 0
    BY <1>1 DEF ReadSome
  <2>2. left - 1 \in 0..Size
    BY <2>1, OneLess
  <2> QED BY <1>0, <1>1, <2>2 DEF ReadSome, Errors
<1>2. CASE ReadEnds
  BY <1>0, <1>2 DEF ReadEnds, EndsWith, Errors
<1>3. ASSUME NEW a \in Closers, Close(a)
      PROVE  StreamTypeOK'
  BY <1>0, <1>3 DEF Close, Errors
<1>4. ASSUME NEW a \in Agents, Enter(a) \/ CloseBody(a)
      PROVE  StreamTypeOK'
  BY <1>4 DEF Enter, CloseBody
<1>5. ASSUME NEW a \in Agents, Tell(a)
      PROVE  StreamTypeOK'
  <2>1. Outcome(a) \in Errors \ {"eof"}
    BY <1>0 DEF Outcome, Errors
  <2>2. told' \in Seq(Errors \ {"eof"})
    <3>1. told' = Append(told, Outcome(a)) /\ told \in Seq(Errors \ {"eof"})
      BY <1>5 DEF Tell
    <3> QED BY <2>1, <3>1, AppendType
  <2> QED
    BY <1>5, <2>2 DEF Tell
<1>6. ASSUME NEW a \in Agents, Leave(a) \/ Skip(a)
      PROVE  StreamTypeOK'
  <2>1. serr \in Errors
    BY DEF Errors
  <2> QED
    BY <1>0, <1>6, <2>1 DEF Leave, Skip, Returned
<1>7. CASE UNCHANGED vars
  BY <1>7 DEF vars
<1> QED
  BY <1>1, <1>2, <1>3, <1>4, <1>5, <1>6, <1>7 DEF Next, Ending

\* One agent at a time is inside the Once, and does the steps there in order.
LEMMA GuardStep == IInv /\ [Next]_vars => Guarded' /\ Staged'
<1> SUFFICES ASSUME IInv, [Next]_vars PROVE Guarded' /\ Staged'
  OBVIOUS
<1> USE DEF IInv, Guarded, Staged, Inside, Untold
<1>0. pc \in [Agents -> {"idle", "ending", "closing", "telling", "leaving", "returned"}]
      /\ got \in [Agents -> Errors] /\ told \in Seq(Errors \ {"eof"})
      /\ Reader \in Agents /\ Closers \subseteq Agents /\ Len(told) \in Nat
  <2>1. Reader \in Agents /\ Closers \subseteq Agents
    BY DEF Agents
  <2>2. told \in Seq(Errors \ {"eof"})
    BY DEF StreamTypeOK
  <2>3. Len(told) \in Nat
    BY <2>2
  <2> QED
    BY <2>1, <2>2, <2>3 DEF StreamTypeOK
<1>1. CASE ReadSome
  BY <1>0, <1>1, AgentsAssumption DEF ReadSome, Idle
<1>2. CASE ReadEnds
  BY <1>0, <1>2 DEF ReadEnds, Idle
<1>3. ASSUME NEW a \in Closers, Close(a)
      PROVE  Guarded' /\ Staged'
  BY <1>0, <1>3 DEF Close
<1>4. ASSUME NEW a \in Agents, Enter(a)
      PROVE  Guarded' /\ Staged'
  BY <1>0, <1>4 DEF Enter
<1>5. ASSUME NEW a \in Agents, CloseBody(a)
      PROVE  Guarded' /\ Staged'
  <2>1. once = "taken" /\ \A b \in Agents : pc[b] # "returned"
    BY <1>0, <1>5 DEF CloseBody, StreamTypeOK
  <2> QED
    BY <1>0, <1>5, <2>1 DEF CloseBody
<1>6. ASSUME NEW a \in Agents, Tell(a)
      PROVE  Guarded' /\ Staged'
  <2>1. Outcome(a) \in Errors \ {"eof"}
    BY <1>0 DEF Outcome, Errors, StreamTypeOK
  <2>2. Len(told') = 1
    BY <1>0, <1>6, <2>1, Appending DEF Tell
  <2> QED
    BY <1>0, <1>6, <2>2 DEF Tell
<1>7. ASSUME NEW a \in Agents, Leave(a)
      PROVE  Guarded' /\ Staged'
  <2>1. \A b \in Agents : b # a => ~Inside(b)
    BY <1>7 DEF Leave
  <2>2. \A b \in Agents : pc[b] # "returned" 
    BY <1>0, <1>7 DEF Leave
  <2>3. pc' = [pc EXCEPT ![a] = "returned"] /\ once' = "done"
        /\ UNCHANGED <<body, serr, told>>
        /\ (a \in Closers => got'[a] = serr)
    BY <1>0, <1>7, AgentsAssumption DEF Leave, Returned
  <2> QED
    BY <1>0, <1>7, <2>1, <2>2, <2>3 DEF Leave
<1>8. ASSUME NEW a \in Agents, Skip(a)
      PROVE  Guarded' /\ Staged'
  <2>1. pc' = [pc EXCEPT ![a] = "returned"] /\ once = "done"
        /\ UNCHANGED <<once, body, serr, told>>
        /\ (a \in Closers => got'[a] = serr)
        /\ \A b \in Agents : b # a => got'[b] = got[b]
    BY <1>0, <1>8, AgentsAssumption DEF Skip, Returned
  <2> QED
    BY <1>0, <2>1
<1>9. CASE UNCHANGED vars
  BY <1>9 DEF vars
<1> QED
  BY <1>1, <1>2, <1>3, <1>4, <1>5, <1>6, <1>7, <1>8, <1>9 DEF Next, Ending

\* The hook hears of the reader's error, of a close, or of the body's own.
LEMMA ReportStep == IInv /\ [Next]_vars => Reported' /\ EndIsHonest'
<1> SUFFICES ASSUME IInv, [Next]_vars PROVE Reported' /\ EndIsHonest'
  OBVIOUS
<1>0. StreamTypeOK /\ Guarded /\ Staged /\ Reported /\ EndIsHonest
  BY DEF IInv
<1>1. Reader \in Agents /\ Closers \subseteq Agents /\ Reader \notin Closers
  BY AgentsAssumption DEF Agents
<1>2. /\ pc \in [Agents -> {"idle", "ending", "closing", "telling", "leaving", "returned"}]
      /\ with \in [Agents -> Errors] /\ told \in Seq(Errors \ {"eof"})
  BY <1>0 DEF StreamTypeOK
<1>3. Untold <=> DOMAIN told = {}
  BY <1>2 DEF Untold
<1>4. ASSUME UNCHANGED <<told, with, first>>, Closed => Closed', left' = left \/ left # 0,
             pc'[Reader] = "idle" <=> pc[Reader] = "idle"
      PROVE  Reported' /\ EndIsHonest'
  <2>1. Reported'
    BY <1>0, <1>1, <1>4 DEF Reported, Untold
  <2>2. EndIsHonest'
    BY <1>0, <1>3, <1>4, HonestKept DEF Reported
  <2> QED BY <2>1, <2>2
<1>5. CASE ReadSome
  <2>1. pc[Reader] = "idle"
    BY <1>0, <1>1, <1>5 DEF ReadSome, Idle, Guarded, Staged
  <2>2. left' = left - 1 /\ left > 0
    BY <1>5 DEF ReadSome
  <2>3. Closed => Closed'
    BY <1>1, <1>2, <1>5 DEF ReadSome, Closed
  <2>4. left' = left \/ left # 0
    BY <2>2
  <2> QED
    BY <1>1, <1>2, <1>4, <1>5, <2>1, <2>3, <2>4 DEF ReadSome
<1>6. CASE ReadEnds
  <2>0. EndsWith \subseteq {"eof", "cut", "failure"} /\ ("eof" \in EndsWith => left = 0)
    BY DEF EndsWith
  <2>1. PICK err \in EndsWith :
          /\ with' = [with EXCEPT ![Reader] = err]
          /\ first' = IF first = "none" THEN err ELSE first
    BY <1>6 DEF ReadEnds
  <2>2. UNCHANGED <<told, left>> /\ pc' = [pc EXCEPT ![Reader] = "ending"]
    BY <1>6 DEF ReadEnds
  <2>3. Closed' <=> Closed
    BY <1>1, <1>2, <2>2 DEF Closed
  <2>4. Untold => pc[Reader] = "idle" /\ with[Reader] = "none"
    BY <1>0, <1>1, <1>2, <1>6 DEF ReadEnds, Idle, Guarded, Staged, Reported
  <2>5. Reported'
    BY <1>0, <1>1, <1>2, <2>0, <2>1, <2>2, <2>3, <2>4 DEF Reported, Untold
  <2>6. EndIsHonest'
    BY <1>0, <1>3, <2>0, <2>1, <2>2, <2>3, HonestKept DEF Reported
  <2> QED BY <2>5, <2>6
<1>7. ASSUME NEW a \in Closers, Close(a)
      PROVE  Reported' /\ EndIsHonest'
  <2>1. with' = with
    BY <1>0, <1>1, <1>2, <1>7 DEF Close, Reported
  <2>2. Closed'
    BY <1>1, <1>2, <1>7 DEF Close, Closed
  <2> QED
    BY <1>1, <1>2, <1>4, <1>7, <2>1, <2>2 DEF Close
<1>8. ASSUME NEW a \in Agents, Enter(a) \/ CloseBody(a) \/ Leave(a) \/ Skip(a)
      PROVE  Reported' /\ EndIsHonest'
  <2>1. /\ UNCHANGED <<told, with, first, left>> /\ pc[a] # "idle"
        /\ \E p \in {"closing", "telling", "returned"} : pc' = [pc EXCEPT ![a] = p]
    BY <1>8 DEF Enter, CloseBody, Leave, Skip, Returned
  <2>2. Closed => Closed'
    BY <1>1, <1>2, <2>1 DEF Closed
  <2> QED
    BY <1>1, <1>2, <1>4, <2>1, <2>2
<1>9. ASSUME NEW a \in Agents, Tell(a)
      PROVE  Reported' /\ EndIsHonest'
  <2>1. /\ UNCHANGED <<with, first, left>> /\ pc[a] # "idle" /\ Untold
        /\ pc' = [pc EXCEPT ![a] = "leaving"]
    BY <1>0, <1>9 DEF Tell, Staged
  <2>2. Closed <=> Closed'
    BY <1>1, <1>2, <2>1 DEF Closed
  <2>3. /\ Outcome(a) \in Errors \ {"eof"}
        /\ DOMAIN told' = {1} /\ told'[1] = Outcome(a) /\ Len(told') = 1
    <3>1. Outcome(a) \in Errors \ {"eof"}
      BY <1>0, <1>2 DEF Outcome, Errors, StreamTypeOK
    <3> QED BY <1>2, <1>9, <2>1, <3>1, Appending DEF Tell, Untold
  <2>4. CASE a = Reader
    <3>1. with[Reader] = first /\ first \in {"eof", "cut", "failure"}
      BY <1>0, <2>1, <2>4 DEF Reported
    <3>2. first = "eof" => Outcome(a) \in {"none", "close failed"}
      BY <1>0, <2>4, <3>1 DEF Outcome, StreamTypeOK
    <3>3. first # "eof" => Outcome(a) = first
      BY <2>4, <3>1 DEF Outcome
    <3>4. EndIsHonest'
      BY <1>0, <2>1, <2>3, <3>1, <3>2, <3>3 DEF EndIsHonest, Reported
    <3>5. Reported'
      BY <1>0, <1>1, <1>2, <2>1, <2>2, <2>3, <3>1 DEF Reported, Untold
    <3> QED BY <3>4, <3>5
  <2>5. CASE a \in Closers
    <3>1. Closed'
      BY <1>2, <2>1, <2>2, <2>5 DEF Closed
    <3>2. Outcome(a) \in {"none", "close failed"}
      BY <1>0, <2>5 DEF Outcome, Reported, StreamTypeOK
    <3>3. EndIsHonest'
      BY <2>3, <3>1, <3>2 DEF EndIsHonest
    <3>4. pc'[Reader] = pc[Reader]
      BY <1>1, <1>2, <2>1, <2>5
    <3>5. Reported'
      BY <1>0, <2>1, <2>3, <3>1, <3>4 DEF Reported, Untold
    <3> QED BY <3>3, <3>5
  <2> QED BY <2>4, <2>5 DEF Agents
<1>10. CASE UNCHANGED vars
  BY <1>4, <1>10 DEF vars, Closed
<1> QED
  BY <1>5, <1>6, <1>7, <1>8, <1>9, <1>10 DEF Next, Ending

-----------------------------------------------------------------------------
\* The inductive invariant of the stream: the lock, the order of the steps
\* inside it, and whose error it carries.
THEOREM Inductive == Spec => []IInv
<1>1. IInv /\ [Next]_vars => IInv'
  BY TypeStep, GuardStep, ReportStep DEF IInv
<1> QED
  BY InitIInv, <1>1, PTL DEF Spec

\* The variables of the stream keep their types.
THEOREM StreamTyping == Spec => []StreamTypeOK
<1>1. IInv => StreamTypeOK
  BY DEF IInv
<1> QED
  BY Inductive, <1>1, PTL

\* However many goroutines end a stream, the OnRequest hook is told once, and
\* only when the connection was given back.
THEOREM OneEnd == Spec => []EndsOnce
<1>1. IInv => EndsOnce
  BY DEF IInv, Guarded, EndsOnce, Untold
<1> QED
  BY Inductive, <1>1, PTL

\* Whoever returns from a Read that ended or from Close finds it over.
THEOREM ReturnedAfter == Spec => []OverWhenReturned
<1>1. IInv => OverWhenReturned
  BY DEF IInv, Guarded, Staged, OverWhenReturned, Untold
<1> QED
  BY Inductive, <1>1, PTL

\* The hook is told of the failure the reader saw, and of a clean end only when
\* there was one or a Close.
THEOREM HonestEnd == Spec => []EndIsHonest
<1>1. IInv => EndIsHonest
  BY DEF IInv
<1> QED
  BY Inductive, <1>1, PTL
=============================================================================
