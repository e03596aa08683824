-------------------------- MODULE OperationLifeProofs --------------------------
(***************************************************************************)
(* What every operation keeps, for any number of operations at once, any   *)
(* requests and any answers: its hook brackets it, its receipt and its     *)
(* answer reach the caller, and a clone of a client starts afresh.         *)
(***************************************************************************)
EXTENDS OperationLife, HttpDoProofs

-----------------------------------------------------------------------------
(***************************************************************************)
(* The enumerations, and what is read of an answer.                        *)
(***************************************************************************)

\* A name is read as the value that has it, and as no other.
LEMMA Reading ==
  ASSUME NEW table, table \in {errorKind2wire, spoolLimit2wire}, NEW name
  PROVE  LET value == FromWire(reverse(table), name)
         IN /\ value \in DOMAIN table \cup {"Unknown"}
            /\ value \in DOMAIN table => table[value] = name
            /\ \A v \in DOMAIN table : table[v] = name => value = v
<1> DEFINE value == FromWire(reverse(table), name)
<1>1. IsInjective(table) /\ "Unknown" \notin DOMAIN table
  BY TablesAssumption
<1>2. DOMAIN reverse(table) = Range(table)
  BY DEF reverse, Inverse
<1>3. CASE name \in Range(table)
  <2>1. value = CHOOSE v \in DOMAIN table : name \in Range(table) => table[v] = name
    BY <1>2, <1>3 DEF FromWire, Knows, reverse, Inverse
  <2>2. \E v \in DOMAIN table : table[v] = name
    BY <1>3 DEF Range
  <2>3. value \in DOMAIN table /\ table[value] = name
    BY <1>3, <2>1, <2>2
  <2> QED
    BY <1>1, <2>3 DEF IsInjective
<1>4. CASE name \notin Range(table)
  <2>1. value = "Unknown"
    BY <1>2, <1>4 DEF FromWire, Knows
  <2>2. \A v \in DOMAIN table : table[v] # name
    BY <1>4 DEF Range
  <2> QED
    BY <1>1, <2>1, <2>2
<1> QED BY <1>3, <1>4

\* What a caller matches besides the kind of an answer is the name of no kind.
LEMMA Apart ==
  /\ DOMAIN errorKind2wire \cap
       ({"error", "ErrInvalidRequest", "ErrResultUnknown", "ErrUnavailable",
         "canceled", "deadline", "Error", "message", "details", "facts", "Unknown"}
        \cup DOMAIN spoolLimit2wire) = {}
  /\ DOMAIN spoolLimit2wire = {"Messages", "DataBytes"}
<1>1. DOMAIN spoolLimit2wire = {"Messages", "DataBytes"}
  BY DEF spoolLimit2wire
<1> QED
  BY <1>1 DEF errorKind2wire

\* The kind an answer is read as.
LEMMA KindRead ==
  ASSUME NEW a
  PROVE  /\ toKind(a) \in ErrorKinds
         /\ toKind(a) # "Unknown" => Desc(a) /\ errorKind2wire[toKind(a)] = a.kind
         /\ Desc(a) => \A k \in DOMAIN errorKind2wire :
                         errorKind2wire[k] = a.kind => toKind(a) = k
BY Reading DEF toKind, ErrorKinds, errorKind4wire

\* The limit that the details of spool_full name.
LEMMA LimitRead ==
  ASSUME NEW a
  PROVE  SpoolLimit(a) \subseteq {"Messages", "DataBytes"}
BY Reading, Apart DEF SpoolLimit, spoolLimit4wire

\* What the caller matches of the failures of a call: a kind of an answer, or
\* one of the conditions.
LEMMA MatchesOfFailures ==
  ASSUME NEW s \in Seq(Failures)
  PROVE  /\ RpcError(s) \subseteq DOMAIN errorKind2wire \cup
              {"ErrResultUnknown", "ErrUnavailable", "canceled", "deadline"}
         /\ s # <<>> /\ LastOf(s).type = "status" =>
              \A k \in DOMAIN errorKind2wire : k \in RpcError(s) <=> k = LastOf(s).kind
<1>1. s # <<>> => LastOf(s) \in Failures
  BY DEF LastOf
<1>2. s # <<>> /\ LastOf(s).type = "status" => LastOf(s).kind \in ErrorKinds
  BY <1>1 DEF Failures, StatusErrors, TransportErrors, BodyErrors
<1>3. StatusCondition(s) \subseteq {"ErrUnavailable"}
  BY DEF StatusCondition
<1>4. Contract(s) \subseteq DOMAIN errorKind2wire \cup {"canceled", "deadline"}
  BY <1>2 DEF Contract, ErrorKinds
<1>5. s # <<>> /\ LastOf(s).type = "status" =>
        \A k \in DOMAIN errorKind2wire : k \in Contract(s) <=> k = LastOf(s).kind
  BY Apart DEF Contract
<1>6. \A k \in DOMAIN errorKind2wire : k \notin {"ErrUnavailable", "ErrResultUnknown"}
  BY Apart
<1> QED BY <1>3, <1>4, <1>5, <1>6 DEF RpcError

\* What the caller reads of an answer besides its kind.
LEMMA MatchesOfAnswer ==
  ASSUME NEW a
  PROVE  HttpError(a) \subseteq {"Error", "message", "details", "facts"}
                                  \cup {"Messages", "DataBytes"}
BY LimitRead DEF HttpError, ParseDetails

\* The error of an operation that failed, and that no refusal is one.
LEMMA MatchesOfFailed ==
  ASSUME TypeOK, NEW c \in Calls
  PROVE  LET err == RpcError(errs[c]) \cup OfAnswer(c) \cup {"error"}
         IN err \subseteq Matches /\ "ErrInvalidRequest" \notin err
<1>1. errs[c] \in Seq(Failures)
  BY DEF TypeOK
<1>2. OfAnswer(c) \subseteq {"Error", "message", "details", "facts", "Messages", "DataBytes"}
  BY MatchesOfAnswer DEF OfAnswer
<1> QED
  BY <1>1, <1>2, MatchesOfFailures, Apart DEF Matches, ErrorKinds

-----------------------------------------------------------------------------
(***************************************************************************)
(* The inductive invariant, one conjunct per concern.                      *)
(***************************************************************************)

\* Where the operation, its call and its hook are with respect to each other.
Staged(c) ==
  /\ stage[c] = "new" => pc[c] = "idle" /\ hook[c] = "none"
  /\ stage[c] # "new" => job[c] \in Jobs
  /\ stage[c] = "do" => pc[c] # "idle" /\ hook[c] = "begun"
  /\ stage[c] \in {"parse", "copy", "handed"} => out[c] = "ok" /\ hook[c] # "none"
  /\ stage[c] = "parse" => hook[c] = IF Takes(c) = "stream" THEN "begun" ELSE "ended"
  /\ stage[c] = "copy" => hook[c] = "begun"
  /\ stage[c] = "returned" => pc[c] \in {"idle", "done"}
  /\ hook[c] = "none" => pc[c] = "idle"

\* An operation that returned was refused before its hook, or told its hook
\* what its caller got.
Told(c) ==
  /\ stage[c] \in {"new", "do", "parse"} => told[c] = {} /\ given[c] = {}
  /\ stage[c] = "returned" =>
       IF "ErrInvalidRequest" \in given[c]
       THEN hook[c] = "none" /\ (Wanted(job[c]).refusal = "none" => on[c] \in bare)
       ELSE hook[c] = "ended" /\ told[c] = given[c]

\* What there is of a success.
Received(c) ==
  /\ stage[c] \in {"new", "do"} => code[c] = 0 /\ body[c] = "none"
  /\ hook[c] = "ended" => body[c] # "open"

\* The headers read so far, and what the caller and the application have of
\* them; of the others they have nothing yet.
Seen(c) == {Reads(c)[i] : i \in 1..parsed[c]}

Parsed(c) ==
  /\ \A h \in HeaderNames :
       IF h \in Seen(c)
       THEN /\ result[c][h] = ValueOf(h, headers[c][h])
            /\ reported[c][h] = IF Unreadable(h, headers[c][h]) THEN 1 ELSE 0
       ELSE result[c][h] = "zero" /\ reported[c][h] = 0
  /\ stage[c] \in {"new", "do"} \/ out[c] # "ok" => parsed[c] = 0
  /\ stage[c] = "parse" => parsed[c] < Len(Reads(c))
  /\ stage[c] \in {"copy", "handed"} \/ (stage[c] = "returned" /\ code[c] = 200) =>
       parsed[c] = Len(Reads(c))
  /\ stage[c] = "returned" /\ parsed[c] > 0 /\ "error" \in given[c]
       => "ErrResultUnknown" \in given[c]

\* The answer kept is that of the last attempt, if it had one, and the caller
\* of a call that failed has both.
HasAnswer(c) ==
  /\ errs[c] # <<>> /\ LastOf(errs[c]).type = "status" =>
       answer[c] \in WireAnswers /\ LastOf(errs[c]) = StatusOf(answer[c])
  /\ stage[c] = "returned" /\ out[c] = "failed" =>
       given[c] = RpcError(errs[c]) \cup OfAnswer(c) \cup {"error"}

\* A client that refuses for good was first used without a key.
Keyless == \A k \in Clients : client[k] = "keyless" => k \in bare

Lived ==
  /\ IInv /\ LifeTypeOK /\ Keyless
  /\ \A c \in Calls : Staged(c) /\ Told(c) /\ Received(c) /\ Parsed(c) /\ HasAnswer(c)

-----------------------------------------------------------------------------
\* A step of the operations is a step of their loops.
LEMMA LoopStep == [Next]_vars => [DoNext]_doVars
<1>1. ASSUME NEW c \in Calls, NEW j \in JobsOf[c], NEW k, Refuse(c, j, k) \/ Run(c, j, k)
      PROVE  [DoNext]_doVars
  <2>1. HttpRequest(j) \in Requests
    BY JobsAssumption
  <2> QED
    BY <1>1, <2>1 DEF Refuse, Run, DoNext, Call
<1>2. ASSUME NEW c \in Calls, Doing(c)
      PROVE  DoNext
  BY <1>2 DEF Doing, DoNext, Call, Loop
<1>3. ASSUME NEW c \in Calls,
             \/ DoFailed(c) \/ DoSucceeded(c) \/ Renewed(c) \/ Delivered(c)
             \/ NotDelivered(c) \/ ReadHeader(c) \/ Copy(c) \/ StreamEnds(c)
      PROVE  UNCHANGED doVars
  BY <1>3 DEF DoFailed, DoSucceeded, Renewed, Delivered, NotDelivered, ReadHeader, Copy, StreamEnds
<1>4. AllOver \/ UNCHANGED vars => UNCHANGED doVars
  BY DEF AllOver, vars
<1> QED
  BY <1>1, <1>2, <1>3, <1>4 DEF Next, SetKey, Clone

\* The loop's invariant holds whatever the operations do.
LEMMA LoopInvariant == IInv /\ [Next]_vars => IInv'
BY LoopStep, TypedStep, PolicedStep, ReadOnceStep, PreparedStep, EndingStep
   DEF IInv, Typed

\* Before any operation begins the invariant holds.
LEMMA InitLived == Init => Lived
<1> SUFFICES ASSUME Init PROVE Lived
  OBVIOUS
<1>1. IInv
  BY InitIInv DEF Init
<1>2. LifeTypeOK
  BY <1>1 DEF Init, LifeTypeOK, ReceiptTypeOK, IInv, Clients, Stages, Blank, Forms, Values
<1>3. \A c \in Calls : Staged(c) /\ Told(c) /\ Received(c) /\ Parsed(c) /\ HasAnswer(c)
  BY DEF Init, DoInit, Staged, Told, Received, Parsed, Seen, Blank, HasAnswer
<1>4. Keyless
  BY DEF Init, Keyless, Clients
<1> QED BY <1>1, <1>2, <1>3, <1>4 DEF Lived

\* What a step of the loop does to its call: it goes on from where it is, and
\* a call that is done is left alone.
LEMMA DoingMoves ==
  ASSUME Lived, NEW c \in Calls, Doing(c)
  PROVE  /\ pc[c] # "done" /\ (pc'[c] = "idle" <=> pc[c] = "idle")
         /\ stage[c] = "do" \/ pc[c] = "idle"
         /\ pc[c] = "idle" => UNCHANGED <<pc, errs, out>>
         /\ \A d \in Calls \ {c} : /\ pc'[d] = pc[d] /\ errs'[d] = errs[d]
                                   /\ out'[d] = out[d] /\ answer'[d] = answer[d]
<1> DEFINE Moves(p, o) == /\ pc' = [pc EXCEPT ![c] = p]
                          /\ out' = [out EXCEPT ![c] = o]
<1>1. pc \in [Calls -> Places] /\ errs \in [Calls -> Seq(Failures)]
      /\ out \in [Calls -> Outcomes] /\ answer \in [Calls -> WireAnswers \cup {NoAnswer}]
  BY DEF Lived, LifeTypeOK, TypeOK
<1>2. \A d \in Calls \ {c} : answer'[d] = answer[d]
  BY <1>1 DEF Doing, Heard
<1>3. pc[c] \notin {"idle", "done"} => stage[c] = "do"
  <2>1. stage[c] \in Stages /\ Staged(c) /\ Shape(c)
    BY DEF Lived, LifeTypeOK, IInv
  <2> QED
    BY <2>1 DEF Staged, Shape, Stages
<1>4. CASE Loop(c)
  <2>1. pc[c] \notin {"idle", "done"} /\ UNCHANGED errs
    BY <1>4 DEF Loop, GiveUp, CannotReopen, TooLate, Prepare, Resend, CutWait, Fail
  <2>2. \/ Moves("done", "failed")
        \/ pc' = [pc EXCEPT ![c] = "wait"] /\ UNCHANGED out
        \/ pc' = [pc EXCEPT ![c] = "flight"] /\ UNCHANGED out
    BY <1>4 DEF Loop, GiveUp, CannotReopen, TooLate, Prepare, Resend, CutWait, Fail
  <2> QED
    BY <1>1, <1>2, <1>3, <2>1, <2>2
<1>5. CASE Cancel(c) \/ Expire(c)
  BY <1>1, <1>2, <1>3, <1>5 DEF Cancel, Expire
<1>6. CASE pc[c] = "flight" /\ Environment(c) /\ ~Cancel(c) /\ ~Expire(c)
  <2>1. /\ \/ Moves("done", "ok") \/ Moves("done", "failed")
           \/ pc' = [pc EXCEPT ![c] = "decide"] /\ UNCHANGED out
        /\ \/ UNCHANGED errs
           \/ \E f : errs' = [errs EXCEPT ![c] = Append(@, f)]
    BY <1>6 DEF Environment, Succeed, BodyLost, Broken, Answered, CutByContext, TimedOut
  <2> QED
    BY <1>1, <1>2, <1>3, <1>6, <2>1
<1>7. Environment(c) => Cancel(c) \/ Expire(c) \/ pc[c] = "flight"
  BY DEF Environment, Succeed, BodyLost, Broken, Answered, CutByContext, TimedOut, Answering
<1> QED BY <1>4, <1>5, <1>6, <1>7 DEF Doing

-----------------------------------------------------------------------------
(***************************************************************************)
(* The operations' steps by what they do, each lemma one concern.          *)
(***************************************************************************)

\* A success ends its operation with no error, or as a success that was not
\* expected, or with a payload cut short.
Ends(c) ==
  /\ stage[c] \in {"do", "copy"} /\ pc[c] = "done"
  /\ \E err \in SUBSET Matches :
       /\ End(c, err)
       /\ "ErrInvalidRequest" \notin err
       /\ stage[c] = "copy" => err = {} \/ "ErrResultUnknown" \in err
       /\ out[c] = "failed" =>
            err = RpcError(errs[c]) \cup OfAnswer(c) \cup {"error"}
  /\ \/ code' = code
     \/ Reads(c) = <<>> /\ \E s \in 200..299 : code' = [code EXCEPT ![c] = s]
     \/ \E s \in 200..299 \ {200} : code' = [code EXCEPT ![c] = s]
  /\ \/ stage[c] = "do" /\ UNCHANGED body
     \/ body' = [body EXCEPT ![c] = "closed"]
  /\ UNCHANGED <<doVars, settings, job, on, answer, receipt>>

\* What a step does that is neither of the loop nor of a client's settings.
LEMMA EndSteps ==
  ASSUME Lived, NEW c \in Calls, DoFailed(c) \/ DoSucceeded(c) \/ NotDelivered(c) \/ Copy(c)
  PROVE  Ends(c)
<1> DEFINE failed == RpcError(errs[c]) \cup OfAnswer(c) \cup {"error"}
<1>1. failed \in SUBSET Matches /\ "ErrInvalidRequest" \notin failed
  BY MatchesOfFailed DEF Lived, IInv
<1>2. /\ {} \in SUBSET Matches /\ {"error"} \in SUBSET Matches
      /\ \A err \in PayloadErrors : err \cup {"ErrResultUnknown"} \in SUBSET Matches
                                    /\ "ErrInvalidRequest" \notin err
  BY DEF Matches, PayloadErrors
<1>3. CASE DoFailed(c)
  BY <1>1, <1>3 DEF DoFailed, Ends
<1>4. CASE DoSucceeded(c)
  <2>1. PICK s \in {200, 201, 204} : code' = [code EXCEPT ![c] = s]
    BY <1>4 DEF DoSucceeded
  <2>3. s \in 200..299
    OBVIOUS
  <2>2. End(c, {}) /\ stage[c] = "do" /\ pc[c] = "done" /\ out[c] = "ok" /\ Reads(c) = <<>>
        /\ body' = [body EXCEPT ![c] = "closed"]
        /\ UNCHANGED <<doVars, settings, job, on, answer, receipt>>
    BY <1>4 DEF DoSucceeded
  <2> QED
    BY <1>2, <2>1, <2>2, <2>3 DEF Ends
<1>5. CASE NotDelivered(c)
  <2>1. PICK s \in {202, 204} :
          /\ code' = [code EXCEPT ![c] = s]
          /\ End(c, IF s = 204 /\ job[c].op = "Recv" THEN {} ELSE {"error"})
    BY <1>5 DEF NotDelivered
  <2>2. PICK err \in {{}, {"error"}} : End(c, err)
    BY <2>1
  <2>3. stage[c] = "do" /\ pc[c] = "done" /\ out[c] = "ok"
        /\ body' = [body EXCEPT ![c] = "closed"]
        /\ UNCHANGED <<doVars, settings, job, on, answer, receipt>>
    BY <1>5 DEF NotDelivered
  <2>4. s \in 200..299 \ {200}
    OBVIOUS
  <2>5. err \in SUBSET Matches /\ "ErrInvalidRequest" \notin err
    BY <1>2
  <2> QED
    BY <2>1, <2>2, <2>3, <2>4, <2>5 DEF Ends
<1>6. CASE Copy(c)
  <2>1. out[c] = "ok" /\ pc[c] = "done"
    <3>1. Shape(c) /\ Staged(c) /\ stage[c] = "copy" /\ pc \in [Calls -> Places]
      BY <1>6 DEF Copy, Lived, IInv, TypeOK
    <3> QED
      BY <3>1 DEF Staged, Shape
  <2> QED
    BY <1>2, <1>6, <2>1 DEF Copy, Ends
<1> QED BY <1>3, <1>4, <1>5, <1>6

\* Every operation that takes its success as a stream reads headers of it.
LEMMA StreamsRead ==
  ASSUME NEW j \in Jobs, Wanted(j).takes = "stream"
  PROVE  HeadersOf(j.op) # <<>>
<1>1. j.op \in Ops
  BY JobsAssumption
<1>2. j.op \in {"Recv", "Inspect"}
  BY <1>1 DEF Ops, Wanted, Operation, Spool, Queues, Queue, Messages, CreateQueue, UpdateQueue,
              DeleteQueue, Send, AckAndSend, Settle, Renew, Ack, Nack, Release, Fails,
              Discard, Recover
<1> QED BY <1>2 DEF HeadersOf

\* The headers an operation reads are headers, and none is read twice.
LEMMA ReadsOnce ==
  ASSUME NEW op
  PROVE  /\ HeadersOf(op) \in Seq(HeaderNames)
         /\ \A i, k \in 1..Len(HeadersOf(op)) : HeadersOf(op)[i] = HeadersOf(op)[k] => i = k
<1> USE DEF HeadersOf, HeaderNames
<1>1. CASE op = "Recv"
  BY <1>1
<1>2. CASE op = "Renew"
  BY <1>2
<1>3. CASE op = "Inspect"
  BY <1>3
<1>4. CASE op \notin {"Recv", "Renew", "Inspect"}
  BY <1>4
<1> QED BY <1>1, <1>2, <1>3, <1>4

\* A success has come whose headers are to be read; a renewal ended before.
Receives(c) ==
  /\ stage[c] = "do" /\ pc[c] = "done" /\ out[c] = "ok" /\ Reads(c) # <<>>
  /\ \E n \in 200..299 : code' = [code EXCEPT ![c] = n]
  /\ Came(c)
  /\ \/ Takes(c) = "stream" /\ body' = [body EXCEPT ![c] = "open"] /\ UNCHANGED hook
     \/ /\ Takes(c) # "stream" /\ body' = [body EXCEPT ![c] = "closed"]
        /\ hook' = [hook EXCEPT ![c] = "ended"]
  /\ UNCHANGED <<doVars, settings, job, on, answer, told, given>>

LEMMA ReceiveSteps ==
  ASSUME Lived, NEW c \in Calls, Delivered(c) \/ Renewed(c)
  PROVE  Receives(c)
<1>1. job[c] \in Jobs \/ stage[c] # "do"
  BY DEF Lived, Staged
<1>2. Takes(c) = "stream" /\ stage[c] = "do" => Reads(c) # <<>>
  BY <1>1, StreamsRead DEF Takes, Reads
<1> QED BY <1>2 DEF Delivered, Renewed, Receives

\* Every step is one of these.
LEMMA Sorted ==
  ASSUME Lived, [Next]_vars
  PROVE  \/ \E k \in Clients : SetKey(k) \/ \E x \in Clients : Clone(k, x)
         \/ \E c \in Calls : \/ \E j \in JobsOf[c], k \in Clients : Refuse(c, j, k) \/ Run(c, j, k)
                             \/ Doing(c) \/ Ends(c) \/ Receives(c) \/ ReadHeader(c) \/ StreamEnds(c)
         \/ UNCHANGED vars
BY EndSteps, ReceiveSteps DEF Next, AllOver

\* The receipts keep their types.
LEMMA ReceiptTypeStep == Lived /\ [Next]_vars => ReceiptTypeOK'
<1> SUFFICES ASSUME Lived, [Next]_vars PROVE ReceiptTypeOK'
  OBVIOUS
<1> USE DEF ReceiptTypeOK
<1>0. ReceiptTypeOK
  BY DEF Lived, LifeTypeOK
<1>1. CASE UNCHANGED receipt
  BY <1>0, <1>1 DEF receipt
<1>2. ASSUME NEW c \in Calls, Receives(c) PROVE ReceiptTypeOK'
  <2>1. \A came \in WireHeaders : Carried(job[c].op, came) \in [HeaderNames -> Forms]
    BY HeadersAssumption DEF Carried, Forms
  <2>2. headers' \in [Calls -> [HeaderNames -> Forms]]
    BY <1>0, <1>2, <2>1 DEF Receives, Came
  <2>3. UNCHANGED <<parsed, result, reported>>
    BY <1>2 DEF Receives, Came
  <2> QED BY <1>0, <2>2, <2>3
<1>3. ASSUME NEW c \in Calls, ReadHeader(c) PROVE ReceiptTypeOK'
  <2> DEFINE h == Reads(c)[parsed[c] + 1]
  <2>1. \A name, form : ValueOf(name, form) \in Values
    BY DEF ValueOf, Values
  <2>2. UNCHANGED headers /\ parsed' \in [Calls -> Nat]
    BY <1>0, <1>3 DEF ReadHeader
  <2>3. result' \in [Calls -> [HeaderNames -> Values]]
    BY <1>0, <1>3, <2>1 DEF ReadHeader
  <2>4. reported' = [reported EXCEPT ![c][h] =
                       IF Unreadable(h, headers[c][h]) THEN @ + 1 ELSE @]
    BY <1>3 DEF ReadHeader
  <2>5. \A n \in Nat : (IF Unreadable(h, headers[c][h]) THEN n + 1 ELSE n) \in Nat
    OBVIOUS
  <2>6. reported' \in [Calls -> [HeaderNames -> Nat]]
    BY <1>0, <2>4, <2>5
  <2> QED BY <1>0, <2>2, <2>3, <2>6
<1> QED
  BY <1>1, <1>2, <1>3, Sorted
     DEF SetKey, Clone, Refuse, Run, Doing, Ends, StreamEnds, vars, lifeVars

\* Types.
LEMMA TypeStep == Lived /\ [Next]_vars => LifeTypeOK'
<1> SUFFICES ASSUME Lived, [Next]_vars PROVE LifeTypeOK'
  OBVIOUS
<1> USE DEF LifeTypeOK
<1>0. TypeOK' /\ ReceiptTypeOK' /\ LifeTypeOK
  BY LoopInvariant, ReceiptTypeStep DEF Lived, IInv
<1>1. ASSUME NEW k \in Clients, SetKey(k) PROVE LifeTypeOK'
  BY <1>0, <1>1 DEF SetKey
<1>2. ASSUME NEW k \in Clients, NEW x \in Clients, Clone(k, x) PROVE LifeTypeOK'
  BY <1>0, <1>2 DEF Clone
<1>3. ASSUME NEW c \in Calls, NEW j \in JobsOf[c], NEW k \in Clients,
             Refuse(c, j, k) \/ Run(c, j, k)
      PROVE  LifeTypeOK'
  <2>1. /\ j \in Jobs /\ {"error", "ErrInvalidRequest"} \in SUBSET Matches
        /\ {"begun"} \subseteq {"none", "begun", "ended"}
    BY JobsAssumption DEF Matches
  <2>2. /\ client' \in [Clients -> {"none", "fresh", "ready", "keyless"}]
        /\ client'[k] \in {"ready", "keyless"} /\ bare' \subseteq Clients
        /\ \A x \in Clients \ {k} : client'[x] = client[x]
    BY <1>0, <1>3 DEF Refuse, Run, Initialise, Initialised
  <2>3. \A d \in Calls : on'[d] # "none" => client'[on'[d]] \in {"ready", "keyless"}
    BY <1>0, <1>3, <2>2 DEF Refuse, Run
  <2>4. CASE Refuse(c, j, k)
    BY <1>0, <2>1, <2>2, <2>3, <2>4 DEF Refuse, Initialise, Stages
  <2>5. CASE Run(c, j, k)
    BY <1>0, <2>1, <2>2, <2>3, <2>5 DEF Run, Initialise, Stages
  <2> QED BY <1>3, <2>4, <2>5
<1>4. ASSUME NEW c \in Calls, Doing(c) PROVE LifeTypeOK'
  BY <1>0, <1>4 DEF Doing, Heard, settings
<1>5. ASSUME NEW c \in Calls, Ends(c) PROVE LifeTypeOK'
  <2>1. PICK err \in SUBSET Matches : End(c, err)
    BY <1>5 DEF Ends
  <2>2. UNCHANGED <<settings, job, on, answer>>
    BY <1>5 DEF Ends
  <2>3. code' \in [Calls -> {0} \cup (200..299)]
    <3>1. UNCHANGED code \/ \E n \in 200..299 : code' = [code EXCEPT ![c] = n]
      BY <1>5 DEF Ends
    <3>2. code \in [Calls -> {0} \cup (200..299)]
      BY <1>0
    <3> QED BY <3>1, <3>2
  <2>4. body' \in [Calls -> {"none", "open", "closed"}]
    BY <1>0, <1>5 DEF Ends
  <2>5. /\ stage' \in [Calls -> Stages] /\ hook' \in [Calls -> {"none", "begun", "ended"}]
        /\ told' \in [Calls -> SUBSET Matches] /\ given' \in [Calls -> SUBSET Matches]
    BY <1>0, <2>1 DEF End, Stages
  <2> QED BY <1>0, <2>2, <2>3, <2>4, <2>5 DEF settings
<1>6. ASSUME NEW c \in Calls, Receives(c) PROVE LifeTypeOK'
  BY <1>0, <1>6 DEF Receives, Came, settings, Stages
<1>9. ASSUME NEW c \in Calls, ReadHeader(c) PROVE LifeTypeOK'
  BY <1>0, <1>9 DEF ReadHeader, AfterHeaders, settings, Stages
<1>7. ASSUME NEW c \in Calls, StreamEnds(c) PROVE LifeTypeOK'
  <2>1. {{}} \cup PayloadErrors \subseteq SUBSET Matches
    BY DEF PayloadErrors, Matches
  <2>2. told' \in [Calls -> SUBSET Matches]
    BY <1>0, <1>7, <2>1 DEF StreamEnds
  <2> QED
    BY <1>0, <1>7, <2>2 DEF StreamEnds, settings
<1>8. CASE UNCHANGED vars
  BY <1>0, <1>8 DEF vars, lifeVars, settings
<1> QED
  BY <1>1, <1>2, <1>3, <1>4, <1>5, <1>6, <1>7, <1>8, <1>9, Sorted

\* The stage of an operation, its call and its hook keep in step.
LEMMA StagedStep == Lived /\ [Next]_vars => \A c \in Calls : Staged(c)'
<1> SUFFICES ASSUME Lived, [Next]_vars, NEW d \in Calls PROVE Staged(d)'
  OBVIOUS
<1> USE DEF Staged, Takes
<1>0. LifeTypeOK /\ TypeOK /\ Staged(d) /\ Shape(d)
  BY DEF Lived, IInv
<1>1. CASE UNCHANGED <<pc, out, stage, hook, job>>
  BY <1>0, <1>1
<1>2. ASSUME NEW c \in Calls, NEW j \in JobsOf[c], NEW k \in Clients,
             Refuse(c, j, k) \/ Run(c, j, k)
      PROVE  Staged(d)'
  <2>1. j \in Jobs
    BY JobsAssumption
  <2>2. stage[c] = "new" /\ pc[c] = "idle" /\ hook[c] = "none"
    BY <1>2 DEF Refuse, Run, Lived
  <2>3. CASE Refuse(c, j, k)
    BY <1>0, <2>1, <2>2, <2>3 DEF Refuse, doVars, LifeTypeOK
  <2>4. CASE Run(c, j, k)
    BY <1>0, <2>1, <2>2, <2>4 DEF Run, Start, CannotEncode, LifeTypeOK, TypeOK
  <2> QED BY <1>2, <2>3, <2>4
<1>3. ASSUME NEW c \in Calls, Doing(c) PROVE Staged(d)'
  <2>1. UNCHANGED <<stage, hook, job>>
    BY <1>3 DEF Doing
  <2> QED
    BY <1>0, <1>3, <2>1, DoingMoves
<1>4. ASSUME NEW c \in Calls, Ends(c) PROVE Staged(d)'
  <2>1. pc[c] = "done"
    BY <1>4 DEF Ends
  <2> QED
    BY <1>0, <1>4 DEF Ends, End, LifeTypeOK, doVars
<1>5. ASSUME NEW c \in Calls, Receives(c) PROVE Staged(d)'
  BY <1>0, <1>5 DEF Receives, Came, LifeTypeOK, doVars, Lived
<1>7. ASSUME NEW c \in Calls, ReadHeader(c) PROVE Staged(d)'
  <2>1. UNCHANGED <<pc, out, hook, job>>
    BY <1>7 DEF ReadHeader, doVars
  <2>2. d # c => stage'[d] = stage[d]
    BY <1>0, <1>7 DEF ReadHeader, LifeTypeOK
  <2>3. d = c => /\ stage[d] = "parse"
                 /\ stage'[d] = "parse" \/ stage'[d] = AfterHeaders(d)
    BY <1>0, <1>7 DEF ReadHeader, LifeTypeOK
  <2> QED
    BY <1>0, <2>1, <2>2, <2>3 DEF AfterHeaders, Shape
<1>6. ASSUME NEW c \in Calls, StreamEnds(c) PROVE Staged(d)'
  BY <1>0, <1>6 DEF StreamEnds, LifeTypeOK, doVars
<1> QED
  BY <1>1, <1>2, <1>3, <1>4, <1>5, <1>6, <1>7, Sorted
     DEF SetKey, Clone, doVars, vars, lifeVars, settings

\* A client that is found keyless was first used without a key.
LEMMA KeylessStep == Lived /\ [Next]_vars => Keyless'
<1> SUFFICES ASSUME Lived, [Next]_vars PROVE Keyless'
  OBVIOUS
<1>0. LifeTypeOK /\ Keyless
  BY DEF Lived
<1>1. CASE UNCHANGED <<client, bare>>
  BY <1>0, <1>1 DEF Keyless
<1>2. ASSUME NEW k \in Clients, NEW x \in Clients, Clone(k, x) PROVE Keyless'
  BY <1>0, <1>2 DEF Clone, Keyless, LifeTypeOK
<1>3. ASSUME NEW k \in Clients, Initialise(k) PROVE Keyless'
  BY <1>0, <1>3 DEF Initialise, Initialised, Keyless, LifeTypeOK
<1> QED
  BY <1>1, <1>2, <1>3, Sorted
     DEF SetKey, Refuse, Run, Doing, Ends, Receives, ReadHeader, StreamEnds, vars,
         lifeVars, settings

\* A refusal is what it says, and every other end tells its hook the same.
LEMMA ToldStep == Lived /\ [Next]_vars => \A c \in Calls : Told(c)'
<1> SUFFICES ASSUME Lived, [Next]_vars, NEW d \in Calls PROVE Told(d)'
  OBVIOUS
<1>0. LifeTypeOK /\ Staged(d) /\ Told(d)
  BY DEF Lived
<1>1. CASE UNCHANGED <<stage, given, hook, told, job, on>> /\ bare \subseteq bare'
  BY <1>0, <1>1 DEF Told
<1>2. ASSUME NEW c \in Calls, NEW j \in JobsOf[c], NEW k \in Clients, Refuse(c, j, k)
      PROVE  Told(d)'
  <2>1. bare \subseteq bare' /\ UNCHANGED <<hook, told>>
    BY <1>2 DEF Refuse, Initialise
  <2>2. CASE d = c
    <3>1. stage[c] = "new" /\ hook'[c] = "none"
      BY <1>0, <1>2, <2>1, <2>2 DEF Refuse, Staged
    <3>2. /\ given'[c] = {"error", "ErrInvalidRequest"} /\ job'[c] = j /\ on'[c] = k
          /\ stage'[c] = "returned"
      BY <1>0, <1>2 DEF Refuse, LifeTypeOK
    <3>3. Initialised(k) = "keyless" => k \in bare'
      BY <1>2 DEF Refuse, Initialise, Initialised, Lived, Keyless
    <3>4. Initialised(k) = "keyless" \/ Wanted(j).refusal # "none"
      BY <1>2 DEF Refuse
    <3> QED
      BY <2>2, <3>1, <3>2, <3>3, <3>4 DEF Told
  <2>3. CASE d # c
    <3>1. stage'[d] = stage[d] /\ given'[d] = given[d] /\ job'[d] = job[d] /\ on'[d] = on[d]
      BY <1>0, <1>2, <2>3 DEF Refuse, LifeTypeOK
    <3> QED
      BY <1>0, <2>1, <3>1 DEF Told
  <2> QED BY <2>2, <2>3
<1>3. ASSUME NEW c \in Calls, NEW j \in JobsOf[c], NEW k \in Clients, Run(c, j, k)
      PROVE  Told(d)'
  <2>1. bare \subseteq bare' /\ UNCHANGED <<told, given>>
    BY <1>3 DEF Run, Initialise
  <2>2. d = c => stage[d] = "new" /\ stage'[d] = "do"
    BY <1>0, <1>3 DEF Run, LifeTypeOK
  <2>3. d # c => /\ stage'[d] = stage[d] /\ hook'[d] = hook[d]
                 /\ job'[d] = job[d] /\ on'[d] = on[d]
    BY <1>0, <1>3 DEF Run, LifeTypeOK
  <2> QED
    BY <1>0, <2>1, <2>2, <2>3 DEF Told
<1>4. ASSUME NEW c \in Calls, Ends(c) PROVE Told(d)'
  <2>1. PICK err \in SUBSET Matches : End(c, err) /\ "ErrInvalidRequest" \notin err
    BY <1>4 DEF Ends
  <2>2. UNCHANGED <<bare, job, on>>
    BY <1>4 DEF Ends, settings
  <2>3. d = c => "ErrInvalidRequest" \notin given'[d] /\ hook'[d] = "ended"
                 /\ told'[d] = given'[d] /\ stage'[d] = "returned"
    BY <1>0, <2>1 DEF End, LifeTypeOK
  <2>4. d # c => /\ stage'[d] = stage[d] /\ hook'[d] = hook[d]
                 /\ told'[d] = told[d] /\ given'[d] = given[d]
    BY <1>0, <2>1 DEF End, LifeTypeOK
  <2> QED
    BY <1>0, <2>2, <2>3, <2>4 DEF Told
<1>5. ASSUME NEW c \in Calls, Receives(c) PROVE Told(d)'
  <2>1. UNCHANGED <<bare, job, on, told, given>>
    BY <1>5 DEF Receives, settings
  <2>2. d = c => stage[d] = "do" /\ stage'[d] = "parse"
    BY <1>0, <1>5 DEF Receives, Came, LifeTypeOK
  <2>3. d # c => stage'[d] = stage[d] /\ hook'[d] = hook[d]
    BY <1>0, <1>5 DEF Receives, Came, LifeTypeOK
  <2> QED
    BY <1>0, <2>1, <2>2, <2>3 DEF Told
<1>7. ASSUME NEW c \in Calls, ReadHeader(c) PROVE Told(d)'
  <2>1. UNCHANGED <<bare, job, on, hook, told, given>>
    BY <1>7 DEF ReadHeader, settings
  <2>2. d # c => stage'[d] = stage[d]
    BY <1>0, <1>7 DEF ReadHeader, LifeTypeOK
  <2>3. d = c => /\ stage[d] = "parse"
                 /\ stage'[d] = "parse" \/ stage'[d] = AfterHeaders(d)
    BY <1>0, <1>7 DEF ReadHeader, LifeTypeOK
  <2> QED
    BY <1>0, <2>1, <2>2, <2>3 DEF Told, Staged, AfterHeaders
<1>6. ASSUME NEW c \in Calls, StreamEnds(c) PROVE Told(d)'
  <2>1. UNCHANGED <<bare, job, on, stage, given>>
    BY <1>6 DEF StreamEnds, settings
  <2>2. d = c => stage[d] = "handed"
    BY <1>6 DEF StreamEnds
  <2>3. d # c => hook'[d] = hook[d] /\ told'[d] = told[d]
    BY <1>0, <1>6 DEF StreamEnds, LifeTypeOK
  <2> QED
    BY <1>0, <2>1, <2>2, <2>3 DEF Told
<1> QED
  BY <1>1, <1>2, <1>3, <1>4, <1>5, <1>6, <1>7, Sorted
     DEF SetKey, Clone, Doing, vars, lifeVars, settings

\* A body that was open is closed by the end of its operation.
LEMMA ReceivedStep == Lived /\ [Next]_vars => \A c \in Calls : Received(c)'
<1> SUFFICES ASSUME Lived, [Next]_vars, NEW d \in Calls PROVE Received(d)'
  OBVIOUS
<1> USE DEF Received
<1>0. LifeTypeOK /\ Staged(d) /\ Received(d)
  BY DEF Lived
<1>1. CASE UNCHANGED <<stage, hook, code, body>>
  BY <1>0, <1>1
<1>2. ASSUME NEW c \in Calls, NEW j \in JobsOf[c], NEW k \in Clients,
             Refuse(c, j, k) \/ Run(c, j, k)
      PROVE  Received(d)'
  <2>1. UNCHANGED <<code, body>>
    BY <1>2 DEF Refuse, Run
  <2>2. d = c => stage[d] = "new"
    BY <1>2 DEF Refuse, Run
  <2>3. d # c => stage'[d] = stage[d] /\ hook'[d] = hook[d]
    BY <1>0, <1>2 DEF Refuse, Run, LifeTypeOK
  <2> QED BY <1>0, <2>1, <2>2, <2>3
<1>3. ASSUME NEW c \in Calls, Doing(c) PROVE Received(d)'
  BY <1>1, <1>3 DEF Doing
<1>4. ASSUME NEW c \in Calls, Ends(c) PROVE Received(d)'
  <2>1. PICK err \in SUBSET Matches : End(c, err)
    BY <1>4 DEF Ends
  <2>2. CASE d = c
    <3>1. stage'[d] = "returned" /\ body'[d] # "open"
      BY <1>0, <1>4, <2>1, <2>2 DEF Ends, End, LifeTypeOK
    <3> QED BY <3>1
  <2>3. CASE d # c
    <3>1. /\ stage'[d] = stage[d] /\ hook'[d] = hook[d]
          /\ body'[d] = body[d] /\ code'[d] = code[d]
      BY <1>0, <1>4, <2>1, <2>3 DEF Ends, End, LifeTypeOK
    <3> QED BY <1>0, <3>1
  <2> QED BY <2>2, <2>3
<1>5. ASSUME NEW c \in Calls, Receives(c) PROVE Received(d)'
  <2>1. CASE d = c
    <3>1. stage'[d] = "parse" /\ hook[d] = "begun"
      BY <1>0, <1>5, <2>1 DEF Receives, Came, LifeTypeOK, Staged
    <3>2. hook'[d] = "begun" \/ body'[d] = "closed"
      BY <1>0, <1>5, <2>1, <3>1 DEF Receives, LifeTypeOK
    <3> QED BY <3>1, <3>2
  <2>2. CASE d # c
    <3>1. /\ stage'[d] = stage[d] /\ hook'[d] = hook[d]
          /\ body'[d] = body[d] /\ code'[d] = code[d]
      BY <1>0, <1>5, <2>2 DEF Receives, Came, LifeTypeOK
    <3> QED BY <1>0, <3>1
  <2> QED BY <2>1, <2>2
<1>6. ASSUME NEW c \in Calls, StreamEnds(c) PROVE Received(d)'
  BY <1>0, <1>6 DEF StreamEnds, LifeTypeOK
<1>7. ASSUME NEW c \in Calls, ReadHeader(c) PROVE Received(d)'
  <2>1. UNCHANGED <<hook, code, body>>
    BY <1>7 DEF ReadHeader
  <2>2. stage'[d] = stage[d] \/ stage'[d] \notin {"new", "do"}
    BY <1>0, <1>7 DEF ReadHeader, AfterHeaders, LifeTypeOK
  <2> QED BY <1>0, <2>1, <2>2
<1> QED
  BY <1>1, <1>2, <1>3, <1>4, <1>5, <1>6, <1>7, Sorted
     DEF SetKey, Clone, vars, lifeVars, settings

\* What was read of a success stays as it was read, and one header more is read
\* at a time.
LEMMA ParsedStep == Lived /\ [Next]_vars => \A c \in Calls : Parsed(c)'
<1> SUFFICES ASSUME Lived, [Next]_vars, NEW d \in Calls PROVE Parsed(d)'
  OBVIOUS
<1> USE DEF Parsed
<1>0. LifeTypeOK /\ TypeOK /\ Staged(d) /\ Received(d) /\ Parsed(d) /\ Shape(d)
  BY DEF Lived, IInv
<1>1. CASE /\ stage'[d] = stage[d] /\ given'[d] = given[d] /\ job'[d] = job[d]
           /\ code'[d] = code[d] /\ out'[d] = out[d]
           /\ headers'[d] = headers[d] /\ parsed'[d] = parsed[d]
           /\ result'[d] = result[d] /\ reported'[d] = reported[d]
  <2>1. Reads(d)' = Reads(d) /\ Seen(d)' = Seen(d)
    BY <1>1 DEF Reads, Seen
  <2> QED
    BY <1>0, <1>1, <2>1
<1>2. ASSUME NEW c \in Calls, NEW j \in JobsOf[c], NEW k \in Clients,
             Refuse(c, j, k) \/ Run(c, j, k)
      PROVE  Parsed(d)'
  <2>1. UNCHANGED <<code, receipt>>
    BY <1>2 DEF Refuse, Run
  <2>2. CASE d = c
    <3>1. stage[d] = "new" /\ parsed'[d] = 0 /\ code'[d] = 0
      BY <1>0, <1>2, <2>1, <2>2 DEF Refuse, Run, Received, receipt
    <3>2. stage'[d] \in {"returned", "do"}
      BY <1>0, <1>2, <2>2 DEF Refuse, Run, LifeTypeOK, ReceiptTypeOK
    <3>3. Seen(d) = {} /\ Seen(d)' = {}
      BY <1>0, <3>1 DEF Seen
    <3> QED BY <1>0, <2>1, <3>1, <3>2, <3>3 DEF receipt
  <2>3. CASE d # c
    <3>1. stage'[d] = stage[d] /\ given'[d] = given[d] /\ job'[d] = job[d] /\ out'[d] = out[d]
      BY <1>0, <1>2, <2>3 DEF Refuse, Run, Start, CannotEncode, doVars, LifeTypeOK, ReceiptTypeOK, TypeOK
    <3> QED BY <1>1, <2>1, <3>1 DEF receipt
  <2> QED BY <2>2, <2>3
<1>3. ASSUME NEW c \in Calls, Doing(c) PROVE Parsed(d)'
  <2>1. UNCHANGED <<stage, given, job, code, receipt>>
    BY <1>3 DEF Doing
  <2>2. Reads(d)' = Reads(d) /\ Seen(d)' = Seen(d)
    BY <2>1 DEF Reads, Seen, receipt
  <2>3. out'[d] = out[d] \/ parsed[d] = 0
    <3>1. CASE d = c
      BY <1>0, <1>3, <3>1, DoingMoves DEF Shape
    <3>2. CASE d # c
      BY <1>3, <3>2, DoingMoves
    <3> QED BY <3>1, <3>2
  <2> QED BY <1>0, <2>1, <2>2, <2>3 DEF receipt
<1>4. ASSUME NEW c \in Calls, Ends(c) PROVE Parsed(d)'
  <2>1. PICK err \in SUBSET Matches :
          End(c, err) /\ (stage[c] = "copy" => err = {} \/ "ErrResultUnknown" \in err)
    BY <1>4 DEF Ends
  <2>2. UNCHANGED <<out, job, receipt>>
    BY <1>4 DEF Ends, doVars
  <2>3. CASE d = c
    <3>1. /\ stage'[d] = "returned" /\ given'[d] = err
          /\ stage[d] \in {"do", "copy"}
      BY <1>0, <1>4, <2>1, <2>3 DEF Ends, End, LifeTypeOK, ReceiptTypeOK
    <3>2. Reads(d)' = Reads(d) /\ Seen(d)' = Seen(d)
      BY <2>2 DEF Reads, Seen, receipt
    <3>3. code'[d] = 200 => code[d] = 200 \/ Reads(d) = <<>>
      BY <1>0, <1>4, <2>3 DEF Ends, LifeTypeOK, ReceiptTypeOK
    <3>4. code'[d] = 200 => parsed[d] = Len(Reads(d))
      <4>1. CASE stage[d] = "do"
        <5>1. code[d] = 0 /\ parsed[d] = 0
          BY <1>0, <4>1 DEF Received
        <5> QED BY <3>3, <5>1
      <4>2. CASE stage[d] = "copy"
        BY <1>0, <4>2
      <4> QED BY <3>1, <4>1, <4>2
    <3> QED BY <1>0, <2>1, <2>2, <2>3, <3>1, <3>2, <3>4 DEF receipt
  <2>4. CASE d # c
    <3>1. stage'[d] = stage[d] /\ given'[d] = given[d] /\ code'[d] = code[d]
      BY <1>0, <1>4, <2>1, <2>4 DEF Ends, End, LifeTypeOK, ReceiptTypeOK
    <3> QED BY <1>1, <2>2, <3>1 DEF receipt
  <2> QED BY <2>3, <2>4
<1>5. ASSUME NEW c \in Calls, Receives(c) PROVE Parsed(d)'
  <2>1. UNCHANGED <<out, job, given, parsed, result, reported>>
    BY <1>5 DEF Receives, Came, doVars
  <2>2. CASE d = c
    <3>1. stage'[d] = "parse" /\ out[d] = "ok" /\ parsed[d] = 0 /\ Reads(d) # <<>>
      BY <1>0, <1>5, <2>2 DEF Receives, Came, LifeTypeOK, ReceiptTypeOK
    <3>2. Reads(d)' = Reads(d) /\ Seen(d) = {} /\ Seen(d)' = {}
      BY <2>1, <3>1 DEF Reads, Seen
    <3>3. 0 < Len(Reads(d))
      BY <3>1, ReadsOnce DEF Reads
    <3> QED BY <1>0, <2>1, <3>1, <3>2, <3>3
  <2>3. CASE d # c
    <3>1. stage'[d] = stage[d] /\ code'[d] = code[d] /\ headers'[d] = headers[d]
      BY <1>0, <1>5, <2>3 DEF Receives, Came, LifeTypeOK, ReceiptTypeOK
    <3> QED BY <1>1, <2>1, <3>1
  <2> QED BY <2>2, <2>3
<1>6. ASSUME NEW c \in Calls, StreamEnds(c) PROVE Parsed(d)'
  BY <1>1, <1>6 DEF StreamEnds, doVars, receipt
<1>7. ASSUME NEW c \in Calls, ReadHeader(c) PROVE Parsed(d)'
  <2>1. UNCHANGED <<out, job, given, code, headers>>
    BY <1>7 DEF ReadHeader, doVars
  <2>2. CASE d # c
    <3>1. stage'[d] = stage[d] /\ parsed'[d] = parsed[d] /\ result'[d] = result[d]
          /\ reported'[d] = reported[d]
      BY <1>0, <1>7, <2>2 DEF ReadHeader, LifeTypeOK, ReceiptTypeOK
    <3> QED BY <1>1, <2>1, <3>1
  <2>3. CASE d = c
    <3> DEFINE h == Reads(d)[parsed[d] + 1]
    <3>1. /\ stage[d] = "parse" /\ parsed[d] < Len(Reads(d)) /\ parsed[d] \in Nat
          /\ parsed'[d] = parsed[d] + 1
      BY <1>0, <1>7, <2>3 DEF ReadHeader, LifeTypeOK, ReceiptTypeOK
    <3>2. /\ result'[d] = [result[d] EXCEPT ![h] = ValueOf(h, headers[d][h])]
          /\ reported'[d] = [reported[d] EXCEPT ![h] =
                                IF Unreadable(h, headers[d][h]) THEN @ + 1 ELSE @]
      BY <1>0, <1>7, <2>3 DEF ReadHeader, LifeTypeOK, ReceiptTypeOK
    <3>3. Reads(d)' = Reads(d) /\ Len(Reads(d)) \in Nat
      BY <2>1, ReadsOnce DEF Reads
    <3>4. h \in HeaderNames /\ h \notin Seen(d) /\ Seen(d)' = Seen(d) \cup {h}
      <4>1. parsed[d] + 1 \in 1..Len(Reads(d)) /\ 1..parsed[d] \subseteq 1..Len(Reads(d))
            /\ 1..(parsed[d] + 1) = 1..parsed[d] \cup {parsed[d] + 1}
        BY <3>1, <3>3
      <4>2. h \in HeaderNames /\ \A i \in 1..parsed[d] : Reads(d)[i] # h
        BY <3>1, <4>1, ReadsOnce DEF Reads
      <4> QED BY <3>1, <3>3, <4>1, <4>2 DEF Seen
    <3>5. reported[d][h] = 0 /\ result[d] \in [HeaderNames -> Values]
          /\ reported[d] \in [HeaderNames -> Nat]
      BY <1>0, <3>4 DEF LifeTypeOK, ReceiptTypeOK
    <3>6. ASSUME NEW x \in HeaderNames
          PROVE  (IF x \in Seen(d)
                  THEN /\ result[d][x] = ValueOf(x, headers[d][x])
                       /\ reported[d][x] = IF Unreadable(x, headers[d][x]) THEN 1 ELSE 0
                  ELSE result[d][x] = "zero" /\ reported[d][x] = 0)'
      BY <1>0, <2>1, <3>2, <3>4, <3>5
    <3>7. stage'[d] = IF parsed[d] + 1 = Len(Reads(d)) THEN AfterHeaders(d) ELSE "parse"
      BY <1>0, <1>7, <2>3 DEF ReadHeader, LifeTypeOK, ReceiptTypeOK
    <3>8. "error" \notin given[d] /\ out[d] = "ok"
      BY <1>0, <3>1 DEF Lived, Told, Staged
    <3> QED
      BY <2>1, <3>1, <3>3, <3>6, <3>7, <3>8 DEF AfterHeaders
  <2> QED BY <2>2, <2>3
<1> QED
  BY <1>1, <1>2, <1>3, <1>4, <1>5, <1>6, <1>7, Sorted
     DEF SetKey, Clone, doVars, vars, lifeVars, settings, receipt

\* The answer kept is that of the last attempt, and the caller is given both.
LEMMA AnswerStep == Lived /\ [Next]_vars => \A c \in Calls : HasAnswer(c)'
<1> SUFFICES ASSUME Lived, [Next]_vars, NEW d \in Calls PROVE HasAnswer(d)'
  OBVIOUS
<1> USE DEF HasAnswer, OfAnswer
<1>0. LifeTypeOK /\ TypeOK /\ Staged(d) /\ HasAnswer(d) /\ Shape(d)
  BY DEF Lived, IInv
<1>1. CASE UNCHANGED <<stage, given, out, errs, answer>>
  BY <1>0, <1>1
<1>2. ASSUME NEW c \in Calls, NEW j \in JobsOf[c], NEW k \in Clients,
             Refuse(c, j, k) \/ Run(c, j, k)
      PROVE  HasAnswer(d)'
  <2>1. UNCHANGED <<answer, errs>>
    BY <1>2 DEF Refuse, Run, Start, CannotEncode, doVars
  <2>2. d = c => out'[d] # "failed"
    BY <1>0, <1>2 DEF Refuse, Run, Start, CannotEncode, doVars, TypeOK, Staged, Shape
  <2>3. d # c => stage'[d] = stage[d] /\ given'[d] = given[d] /\ out'[d] = out[d]
    BY <1>0, <1>2 DEF Refuse, Run, Start, CannotEncode, doVars, LifeTypeOK, TypeOK
  <2> QED BY <1>0, <2>1, <2>2, <2>3
<1>3. ASSUME NEW c \in Calls, Doing(c) PROVE HasAnswer(d)'
  <2>1. UNCHANGED <<stage, given>>
    BY <1>3 DEF Doing
  <2>2. CASE d = c
    <3>1. stage[d] = "returned" => pc[d] = "idle" /\ out'[d] = "none"
      BY <1>0, <1>3, <2>2, DoingMoves DEF Shape, Staged
    <3>2. CASE errs'[c] # errs[c] /\ LastOf(errs'[c]).type = "status"
      <4>1. PICK a \in WireAnswers :
              LastOf(errs'[c]) = StatusOf(a) /\ answer' = [answer EXCEPT ![c] = a]
        BY <1>3, <3>2 DEF Doing, Heard
      <4> QED
        BY <1>0, <2>1, <2>2, <3>1, <4>1 DEF LifeTypeOK
    <3>3. CASE ~(errs'[c] # errs[c] /\ LastOf(errs'[c]).type = "status")
      <4>1. UNCHANGED answer
        BY <1>3, <3>3 DEF Doing, Heard
      <4> QED
        BY <1>0, <2>1, <2>2, <3>1, <3>3, <4>1
    <3> QED BY <3>2, <3>3
  <2>3. CASE d # c
    BY <1>0, <1>3, <2>1, <2>3, DoingMoves
  <2> QED BY <2>2, <2>3
<1>4. ASSUME NEW c \in Calls, Ends(c) PROVE HasAnswer(d)'
  <2>1. UNCHANGED <<out, errs, answer>>
    BY <1>4 DEF Ends, doVars
  <2>2. PICK err \in SUBSET Matches :
          /\ End(c, err)
          /\ out[c] = "failed" => err = RpcError(errs[c]) \cup OfAnswer(c) \cup {"error"}
    BY <1>4 DEF Ends
  <2>3. CASE d = c
    <3>1. given'[d] = err
      BY <1>0, <2>2, <2>3 DEF End, LifeTypeOK
    <3> QED BY <1>0, <2>1, <2>2, <2>3, <3>1
  <2>4. CASE d # c
    <3>1. given'[d] = given[d] /\ stage'[d] = stage[d]
      BY <1>0, <2>2, <2>4 DEF End, LifeTypeOK
    <3> QED BY <1>0, <2>1, <3>1
  <2> QED BY <2>3, <2>4
<1>5. ASSUME NEW c \in Calls, Receives(c) PROVE HasAnswer(d)'
  <2>1. UNCHANGED <<out, errs, answer, given>>
    BY <1>5 DEF Receives, doVars
  <2>2. stage'[d] = stage[d] \/ stage'[d] # "returned"
    BY <1>0, <1>5 DEF Receives, Came, LifeTypeOK
  <2> QED BY <1>0, <2>1, <2>2
<1>7. ASSUME NEW c \in Calls, ReadHeader(c) PROVE HasAnswer(d)'
  <2>1. UNCHANGED <<out, errs, answer, given>>
    BY <1>7 DEF ReadHeader, doVars
  <2>2. stage'[d] = stage[d] \/ out[d] = "ok"
    BY <1>0, <1>7 DEF ReadHeader, LifeTypeOK, Staged
  <2> QED BY <1>0, <2>1, <2>2
<1>6. ASSUME NEW c \in Calls, StreamEnds(c) PROVE HasAnswer(d)'
  BY <1>1, <1>6 DEF StreamEnds, doVars
<1> QED
  BY <1>1, <1>2, <1>3, <1>4, <1>5, <1>6, <1>7, Sorted
     DEF SetKey, Clone, doVars, vars, lifeVars, settings

-----------------------------------------------------------------------------
\* Whatever becomes of the operations, their calls and the client's clones,
\* the invariant holds, from which the theorems below follow.
THEOREM LivedKept == Spec => []Lived
<1>1. Lived /\ [Next]_vars => Lived'
  BY LoopInvariant, TypeStep, KeylessStep, StagedStep, ToldStep, ReceivedStep, ParsedStep, AnswerStep
     DEF Lived
<1> QED
  BY InitLived, <1>1, PTL DEF Spec

\* The variables of the operations and of the clients keep their types.
THEOREM LifeTyping == Spec => []LifeTypeOK
<1>1. Lived => LifeTypeOK
  BY DEF Lived
<1> QED
  BY LivedKept, <1>1, PTL

\* The OnRequest hook is around every operation that was not refused, and ends
\* with the error of its caller.
THEOREM Brackets == Spec => []HookBracketsOperation
<1>1. Lived => HookBracketsOperation
  <2> SUFFICES ASSUME Lived, NEW c \in Calls
               PROVE  /\ attempt[c] > 0 => hook[c] # "none"
                      /\ stage[c] \in {"do", "copy"} => hook[c] = "begun"
                      /\ stage[c] = "parse" /\ Takes(c) = "stream" => hook[c] = "begun"
                      /\ stage[c] = "returned" =>
                           IF "ErrInvalidRequest" \in given[c]
                           THEN hook[c] = "none" /\ attempt[c] = 0
                           ELSE hook[c] = "ended" /\ told[c] = given[c]
    BY DEF HookBracketsOperation
  <2>1. Staged(c) /\ Told(c) /\ (hook[c] = "none" => attempt[c] = 0)
    BY DEF Lived, Staged, IInv, Shape
  <2> QED
    BY <2>1 DEF Staged, Told
<1> QED
  BY LivedKept, <1>1, PTL

\* Each header of a success is read on its own account: whichever of them do
\* not parse and however the payload's reading ends, the caller has the others,
\* and the application was told of each that it misses.
THEOREM ReceiptsReach == Spec => []ReceiptReachesCaller
<1>1. Lived => ReceiptReachesCaller
  <2> SUFFICES ASSUME Lived, NEW c \in Calls
               PROVE  /\ stage[c] \in {"handed", "returned"} /\ code[c] = 200 =>
                           \A h \in Range(Reads(c)) :
                             /\ result[c][h] = "value" <=> headers[c][h] = "readable"
                             /\ headers[c][h] = "unreadable" => reported[c][h] = 1
                             /\ reported[c][h] = 0 /\ result[c][h] = "zero"
                                  => headers[c][h] = "absent"
                             /\ reported[c][h] > 0 => result[c][h] # "value"
                             /\ h = "Retries" /\ reported[c][h] > 0
                                  => result[c][h] = "minus one"
                      /\ out[c] # "ok" =>
                           result[c] = Blank /\ \A h \in HeaderNames : reported[c][h] = 0
                      /\ stage[c] = "returned" /\ result[c] # Blank /\ "error" \in given[c]
                           => "ErrResultUnknown" \in given[c]
    BY DEF ReceiptReachesCaller
  <2>1. Parsed(c) /\ headers[c] \in [HeaderNames -> Forms]
        /\ result[c] \in [HeaderNames -> Values] /\ parsed[c] \in Nat
    BY DEF Lived, LifeTypeOK, ReceiptTypeOK
  <2>2. ASSUME stage[c] \in {"handed", "returned"}, code[c] = 200, NEW h \in Range(Reads(c))
        PROVE  /\ h \in HeaderNames
               /\ result[c][h] = ValueOf(h, headers[c][h])
               /\ reported[c][h] = IF Unreadable(h, headers[c][h]) THEN 1 ELSE 0
    <3>1. Reads(c) \in Seq(HeaderNames)
      BY ReadsOnce DEF Reads
    <3>2. PICK i \in 1..Len(Reads(c)) : h = Reads(c)[i]
      BY <3>1 DEF Range
    <3>3. h \in HeaderNames /\ h \in Seen(c)
      BY <2>1, <2>2, <3>1, <3>2 DEF Parsed, Seen
    <3> QED BY <2>1, <3>3 DEF Parsed
  <2>3. ASSUME parsed[c] = 0
        PROVE  result[c] = Blank /\ \A h \in HeaderNames : reported[c][h] = 0
    <3>1. Seen(c) = {}
      BY <2>3 DEF Seen
    <3>2. \A h \in HeaderNames : result[c][h] = "zero" /\ reported[c][h] = 0
      BY <2>1, <3>1 DEF Parsed
    <3> QED BY <2>1, <3>2 DEF Blank
  <2>4. out[c] # "ok" => parsed[c] = 0
    BY <2>1 DEF Parsed
  <2>5. stage[c] = "returned" /\ result[c] # Blank /\ "error" \in given[c]
          => "ErrResultUnknown" \in given[c]
    BY <2>1, <2>3 DEF Parsed
  <2>6. ASSUME stage[c] \in {"handed", "returned"}, code[c] = 200, NEW h \in Range(Reads(c))
        PROVE  /\ result[c][h] = "value" <=> headers[c][h] = "readable"
               /\ headers[c][h] = "unreadable" => reported[c][h] = 1
               /\ reported[c][h] = 0 /\ result[c][h] = "zero" => headers[c][h] = "absent"
               /\ reported[c][h] > 0 => result[c][h] # "value"
               /\ h = "Retries" /\ reported[c][h] > 0 => result[c][h] = "minus one"
    <3>1. headers[c][h] \in Forms
      BY <2>1, <2>2, <2>6
    <3>2. /\ result[c][h] = ValueOf(h, headers[c][h])
          /\ reported[c][h] = IF Unreadable(h, headers[c][h]) THEN 1 ELSE 0
      BY <2>2, <2>6
    <3>3. CASE headers[c][h] = "absent"
      BY <3>2, <3>3 DEF ValueOf, Unreadable
    <3>4. CASE headers[c][h] = "readable"
      BY <3>2, <3>4 DEF ValueOf, Unreadable
    <3>5. CASE headers[c][h] = "unreadable"
      <4>1. reported[c][h] = 1
        BY <3>2, <3>5 DEF Unreadable
      <4>2. result[c][h] = IF h = "Retries" THEN "minus one" ELSE "zero"
        BY <3>2, <3>5 DEF ValueOf
      <4>3. result[c][h] \in {"minus one", "zero"} /\ (h = "Retries" => result[c][h] = "minus one")
        BY <4>2
      <4>4. result[c][h] # "value"
        BY <4>3
      <4>5. headers[c][h] # "readable"
        BY <3>5
      <4>6. reported[c][h] # 0
        BY <4>1
      <4> QED BY <4>1, <4>3, <4>4, <4>5, <4>6
    <3> QED BY <3>1, <3>3, <3>4, <3>5 DEF Forms
  <2> QED
    BY <2>3, <2>4, <2>5, <2>6
<1> QED
  BY LivedKept, <1>1, PTL

\* No body of a success outlives its operation.
THEOREM AnswersClosed == Spec => []NoAnswerLeftOpen
<1>1. Lived => NoAnswerLeftOpen
  BY DEF Lived, Received, NoAnswerLeftOpen
<1> QED
  BY LivedKept, <1>1, PTL

\* Only a client first used without a key refuses a request with nothing
\* missing: its clones, and what it was cloned from, do not.
THEOREM CopiesFresh == Spec => []CopiesStartAfresh
<1>1. Lived => CopiesStartAfresh
  BY DEF Lived, Told, CopiesStartAfresh
<1> QED
  BY LivedKept, <1>1, PTL

\* What the caller of a failed call reads of its last answer.
LEMMA AnswerRead ==
  ASSUME Lived, NEW c \in Calls, FailedByAnswer(c)
  PROVE  LET a == answer[c]
         IN /\ given[c] = RpcError(errs[c]) \cup HttpError(a) \cup {"error"}
            /\ \A k \in DOMAIN errorKind2wire : k \in given[c] <=> k = toKind(a)
            /\ \A x \in {"Error", "message", "facts"} : x \in given[c] <=> x \in HttpError(a)
            /\ a.code = 503 /\ toKind(a) = "Unknown" => "ErrUnavailable" \in given[c]
<1> DEFINE a == answer[c]
<1>1. errs[c] \in Seq(Failures) /\ errs[c] # <<>>
  BY DEF Lived, IInv, TypeOK, Shape, FailedByAnswer
<1>2. LastOf(errs[c]) = StatusOf(a) /\ given[c] = RpcError(errs[c]) \cup HttpError(a) \cup {"error"}
  BY <1>1 DEF Lived, HasAnswer, OfAnswer, FailedByAnswer
<1>3. LastOf(errs[c]).kind = toKind(a) /\ LastOf(errs[c]).code = a.code
      /\ LastOf(errs[c]).type = "status"
  BY <1>2 DEF StatusOf, StatusError
<1>4. \A k \in DOMAIN errorKind2wire : k \in given[c] <=> k = toKind(a)
  <2> SUFFICES ASSUME NEW k \in DOMAIN errorKind2wire
               PROVE  k \in given[c] <=> k = toKind(a)
    OBVIOUS
  <2>1. k \notin HttpError(a) /\ k # "error"
    BY MatchesOfAnswer, Apart
  <2>2. k \in RpcError(errs[c]) <=> k = toKind(a)
    BY <1>1, <1>3, MatchesOfFailures
  <2> QED
    BY <1>2, <2>1, <2>2
<1>5. \A x \in {"Error", "message", "facts"} : x \notin RpcError(errs[c]) /\ x # "error"
  BY <1>1, MatchesOfFailures, Apart
<1>6. a.code = 503 /\ toKind(a) = "Unknown" => "ErrUnavailable" \in RpcError(errs[c])
  BY <1>1, <1>3 DEF RpcError, StatusCondition
<1> QED
  BY <1>2, <1>4, <1>5, <1>6

\* The facts of an answer's details come from its header or from an object.
LEMMA FactsRead ==
  ASSUME NEW kind, NEW a, "facts" \in ParseDetails(kind, a)
  PROVE  IF kind = "RateLimited" THEN Parses(a.after) ELSE a.details = "object"
<1>1. kind \in HaveDetails
  BY DEF ParseDetails
<1>2. CASE kind = "RateLimited"
  <2>1. ParseDetails(kind, a) = IF Parses(a.after) THEN {"details", "facts"} ELSE {}
    BY <1>1, <1>2 DEF ParseDetails
  <2> QED BY <1>2, <2>1
<1>3. CASE kind # "RateLimited" /\ a.details # "object"
  <2>1. ParseDetails(kind, a) \in {{"details"}, {}}
    BY <1>1, <1>3 DEF ParseDetails
  <2> QED BY <2>1
<1> QED BY <1>2, <1>3

\* What an answer says reaches the caller: its kind, its message, its details
\* when they are of that kind, and that the API was unavailable.
THEOREM AnswersReach == Spec => []AnswerReachesCaller
<1>1. Lived => AnswerReachesCaller
  <2> SUFFICES ASSUME Lived, NEW c \in Calls, FailedByAnswer(c)
               PROVE  LET a == answer[c]
                          kinds == given[c] \cap DOMAIN errorKind2wire
                      IN /\ \A kind \in kinds : errorKind2wire[kind] = a.kind
                         /\ ~a.long => \A kind \in DOMAIN errorKind2wire :
                              OfAPI(a) /\ errorKind2wire[kind] = a.kind => kind \in given[c]
                         /\ ~a.long => (OfAPI(a) <=> "Error" \in given[c])
                         /\ ~a.long /\ OfAPI(a) => (a.message <=> "message" \in given[c])
                         /\ "facts" \in given[c] =>
                              IF a.kind = "rate_limited" THEN Parses(a.after)
                              ELSE a.details = "object"
                         /\ a.code = 503 /\ kinds = {} => "ErrUnavailable" \in given[c]
    BY DEF AnswerReachesCaller
  <2> DEFINE a == answer[c]
             kinds == given[c] \cap DOMAIN errorKind2wire
  <2>1. /\ \A k \in DOMAIN errorKind2wire : k \in given[c] <=> k = toKind(a)
        /\ \A x \in {"Error", "message", "facts"} : x \in given[c] <=> x \in HttpError(a)
        /\ a.code = 503 /\ toKind(a) = "Unknown" => "ErrUnavailable" \in given[c]
    BY AnswerRead
  <2>2. "Unknown" \notin DOMAIN errorKind2wire
    BY Apart
  <2>3. \A kind \in kinds : errorKind2wire[kind] = a.kind
    BY <2>1, <2>2, KindRead
  <2>4. ~a.long => \A kind \in DOMAIN errorKind2wire :
          OfAPI(a) /\ errorKind2wire[kind] = a.kind => kind \in given[c]
    BY <2>1, KindRead DEF Desc, OfAPI
  <2>5. ParseDetails(toKind(a), a) \cap {"Error", "message"} = {}
    BY LimitRead DEF ParseDetails
  <2>6. ~a.long => (OfAPI(a) <=> "Error" \in given[c])
    BY <2>1 DEF HttpError, Desc, OfAPI
  <2>7. ~a.long /\ OfAPI(a) => (a.message <=> "message" \in given[c])
    BY <2>1, <2>5 DEF HttpError, Desc, OfAPI
  <2>8. ASSUME "facts" \in given[c]
        PROVE  IF a.kind = "rate_limited" THEN Parses(a.after) ELSE a.details = "object"
    <3>1. Desc(a) /\ "facts" \in ParseDetails(toKind(a), a)
      BY <2>1, <2>8 DEF HttpError
    <3>2. "RateLimited" \in DOMAIN errorKind2wire
          /\ errorKind2wire["RateLimited"] = "rate_limited"
      BY DEF errorKind2wire
    <3>3. toKind(a) = "RateLimited" <=> a.kind = "rate_limited"
      BY <3>1, <3>2, KindRead
    <3> QED
      BY <3>1, <3>3, FactsRead
  <2>9. a.code = 503 /\ kinds = {} => "ErrUnavailable" \in given[c]
    BY <2>1, KindRead DEF ErrorKinds
  <2> QED
    BY <2>3, <2>4, <2>6, <2>7, <2>8, <2>9
<1> QED
  BY LivedKept, <1>1, PTL
=============================================================================
