-------------------------- MODULE ReplayBodyProofs --------------------------
(***************************************************************************)
(* What a server can take for a whole body, for a source of any length     *)
(* read in pieces of any size and sent any number of times.                *)
(***************************************************************************)
EXTENDS ReplayBody, SequenceTheorems, TLAPS

Bytes == 0..Length - 1

\* What the call and its source know of each other.
Call ==
  /\ size = IF seekable THEN Length - offset ELSE -1
  /\ offset \in 0..Length - 1
  /\ used <=> attempt > 0
  /\ attempt = 0 => place = offset /\ answered
  /\ attempt <= 1 => met = {}
  /\ ~seekable => attempt <= 1

\* Who reads: nobody for an attempt not begun, the dump only for the one in
\* hand, and without it nobody else when an attempt met no other.
Readers ==
  /\ \A i \in Nth : i > attempt => reading[i] = "no" /\ Len(sent[i]) = 0
  /\ \A i \in Nth : reading[i] = "dump" => debug /\ i = attempt /\ ~answered
  /\ ~debug /\ attempt \notin met =>
       \A i \in Nth \ {attempt} : reading[i] # "open"

\* The attempt in hand reads on from the offset: its k-th byte is none of the
\* k - 1 before, and leaves room for those after it; and it has every byte up
\* to the place of the source when nobody else reads.
Ascends(s, from, to) ==
  \A k \in 1..Len(s) : /\ from + k - 1 <= s[k]
                       /\ s[k] <= to - 1 - (Len(s) - k)

InHand ==
  attempt > 0 =>
    /\ Ascends(sent[attempt], offset, place)
    /\ offset + Len(sent[attempt]) <= place
    /\ debug \/ attempt \notin met => place = offset + Len(sent[attempt])

\* What was dumped, and what a reader gave until its end, is the payload.
Whole ==
  \A i \in Nth :
    /\ debug /\ reading[i] \in {"open", "stopped", "ended"} => sent[i] = Payload
    /\ ~seekable /\ reading[i] = "ended" => sent[i] = Payload

IInv == BodyTypeOK /\ Call /\ Readers /\ InHand /\ Whole

\* A whole length that ascends is the payload itself.
LEMMA Filled ==
  ASSUME NEW s \in Seq(Bytes), offset \in 0..Length - 1, place \in 0..Length,
         Len(s) = Length - offset, Ascends(s, offset, place)
  PROVE  s = Payload
<1>1. Length \in Nat
  BY NumbersAssumption
<1>2. \A k \in 1..Length - offset : s[k] = offset + k - 1
  <2> SUFFICES ASSUME NEW k \in 1..Length - offset PROVE s[k] = offset + k - 1
    OBVIOUS
  <2>1. s[k] \in Int
    BY <1>1 DEF Bytes
  <2>2. offset + k - 1 <= s[k] /\ s[k] <= place - 1 - (Length - offset - k)
    BY DEF Ascends
  <2> QED BY <1>1, <2>1, <2>2
<1>3. s = [k \in 1..Len(s) |-> s[k]]
  OBVIOUS
<1> QED
  BY <1>2, <1>3 DEF Payload

\* One that has every byte up to the place of the source is as far as it got.
LEMMA Begun ==
  ASSUME NEW s \in Seq(Bytes), offset \in 0..Length - 1, place \in 0..Length,
         place = offset + Len(s), Ascends(s, offset, place)
  PROVE  IsPrefix(s, Payload)
<1>1. Length \in Nat /\ Len(s) \in Nat
  BY NumbersAssumption
<1>2. \A k \in 1..Len(s) : s[k] = offset + k - 1
  <2> SUFFICES ASSUME NEW k \in 1..Len(s) PROVE s[k] = offset + k - 1
    OBVIOUS
  <2>1. s[k] \in Int
    BY <1>1 DEF Bytes
  <2>2. offset + k - 1 <= s[k] /\ s[k] <= place - 1 - (Len(s) - k)
    BY DEF Ascends
  <2> QED BY <1>1, <2>1, <2>2
<1>3. Len(Payload) = Length - offset /\ Len(s) <= Length - offset
  BY <1>1 DEF Payload
<1>4. \A k \in 1..Len(s) : Payload[k] = offset + k - 1
  BY <1>1, <1>3 DEF Payload
<1>5. SubSeq(s, 1, Len(s)) = s
  BY SubSeqFull
<1>6. /\ SubSeq(Payload, 1, Len(s)) \in Seq(Int)
      /\ Len(SubSeq(Payload, 1, Len(s))) = Len(s)
      /\ \A k \in 1..Len(s) : SubSeq(Payload, 1, Len(s))[k] = Payload[k]
  <2>1. \A k \in 1..Len(s) : Payload[k] \in Int
    BY <1>1, <1>4
  <2> QED
    BY <1>1, <2>1, SubSeqProperties, Z3
<1>7. s \in Seq(Int)
  BY <1>1, SeqMonotonic, Bytes \subseteq Int DEF Bytes
<1>8. SubSeq(Payload, 1, Len(s)) = s
  BY <1>2, <1>4, <1>6, <1>7, SeqEqual
<1> QED
  BY <1>3, <1>5, <1>8 DEF IsPrefix

\* A read goes on with the bytes at the place of the source.
LEMMA Reading ==
  ASSUME NEW s \in Seq(Bytes), place \in 0..Length,
         NEW n \in Nat \ {0}, n <= Length - place
  PROVE  LET t == s \o [k \in 1..n |-> place + k - 1]
         IN /\ t \in Seq(Bytes)
            /\ Len(t) = Len(s) + n
            /\ \A k \in 1..Len(t) : t[k] = IF k <= Len(s) THEN s[k]
                                           ELSE place + (k - Len(s)) - 1
<1> DEFINE p == [k \in 1..n |-> place + k - 1]
<1>1. Length \in Nat
  BY NumbersAssumption
<1>2. p \in [1..n -> Bytes]
  BY <1>1 DEF Bytes
<1>3. p \in Seq(Bytes) /\ Len(p) = n
  <2>1. p \in Seq(Bytes)
    <3> HIDE DEF p
    <3> QED BY <1>2, SeqDef
  <2>2. Len(p) = n
    OBVIOUS
  <2> QED BY <2>1, <2>2
<1>4. /\ s \o p \in Seq(Bytes) /\ Len(s \o p) = Len(s) + n
      /\ \A k \in 1..Len(s) + n : (s \o p)[k] = IF k <= Len(s) THEN s[k] ELSE p[k - Len(s)]
  BY <1>3, ConcatProperties
<1>5. \A k \in 1..Len(s) + n : k > Len(s) => p[k - Len(s)] = place + (k - Len(s)) - 1
  BY <1>3
<1> QED
  BY <1>4, <1>5


\* What ascended goes on ascending, whoever read the `n' bytes.
LEMMA StillAscends ==
  ASSUME NEW s \in Seq(Bytes), NEW t \in Seq(Bytes), NEW n \in Nat,
         NEW from \in Nat, NEW to \in Nat, Ascends(s, from, to), from + Len(s) <= to,
         \/ t = s
         \/ /\ Len(t) = Len(s) + n
            /\ \A k \in 1..Len(t) : t[k] = IF k <= Len(s) THEN s[k]
                                           ELSE to + (k - Len(s)) - 1
  PROVE  Ascends(t, from, to + n)
<1>1. \A k \in 1..Len(s) : s[k] \in Int
  BY NumbersAssumption DEF Bytes
<1>2. ASSUME NEW k \in 1..Len(t)
      PROVE  from + k - 1 <= t[k] /\ t[k] <= to + n - 1 - (Len(t) - k)
  <2>1. CASE t = s
    BY <1>1, <1>2, <2>1 DEF Ascends
  <2>2. CASE Len(t) = Len(s) + n /\ k <= Len(s) /\ t[k] = s[k]
    BY <1>1, <1>2, <2>2 DEF Ascends
  <2>3. CASE Len(t) = Len(s) + n /\ k > Len(s) /\ t[k] = to + (k - Len(s)) - 1
    BY <1>2, <2>3
  <2> QED BY <1>2, <2>1, <2>2, <2>3
<1> QED
  BY <1>2 DEF Ascends

-----------------------------------------------------------------------------
\* Before the first attempt nothing was read.
LEMMA InitIInv == Init => IInv
<1> SUFFICES ASSUME Init PROVE IInv
  OBVIOUS
<1>1. Length \in Nat /\ Attempts \in Nat /\ Length > 0
  BY NumbersAssumption
<1>2. \A i \in Nth : sent[i] = <<>> /\ reading[i] = "no" /\ Len(sent[i]) = 0
  BY DEF Init
<1>3. sent \in [Nth -> Seq(0..Length - 1)]
  BY DEF Init
<1>4. size \in -1..Length /\ place \in 0..Length /\ offset \in 0..Length
  BY <1>1 DEF Init, Encode
<1>5. BodyTypeOK
  <2>1. attempt \in 0..Attempts /\ reading \in [Nth -> {"no", "dump", "open", "stopped", "ended"}]
    BY <1>1 DEF Init
  <2>2. debug \in BOOLEAN /\ seekable \in BOOLEAN /\ answered \in BOOLEAN /\ used \in BOOLEAN
        /\ ended \in BOOLEAN
    BY Zenon DEF Init, Encode
  <2>3. met \subseteq Nth
    BY DEF Init
  <2> QED
    BY <1>3, <1>4, <2>1, <2>2, <2>3 DEF BodyTypeOK
<1>6. Call
  BY DEF Init, Encode, Call
<1>7. Readers /\ InHand /\ Whole
  BY <1>1, <1>2 DEF Init, Readers, InHand, Whole
<1> QED
  BY <1>5, <1>6, <1>7 DEF IInv

\* A new attempt finds the source where the caller left it.
LEMMA OpenStep == IInv /\ Open => IInv'
<1> SUFFICES ASSUME IInv, Open PROVE IInv'
  OBVIOUS
<1>0. BodyTypeOK /\ Call /\ Readers /\ InHand /\ Whole
  BY DEF IInv
<1>1. Length \in Nat /\ Attempts \in Nat /\ attempt \in 0..Attempts /\ attempt < Attempts
  BY <1>0, NumbersAssumption DEF BodyTypeOK, Open, MayOpen
<1>2. attempt' = attempt + 1 /\ attempt' \in Nth /\ attempt' \in 0..Attempts /\ attempt' > attempt
  BY <1>1 DEF Open, Nth
<1>3. place' = offset /\ (attempt > 0 => seekable)
  BY <1>0, <1>1 DEF Open, Rewound, CanOpen, Call
<1>4. BodyTypeOK'
  BY <1>0, <1>1, <1>2, <1>3 DEF Open, BodyTypeOK, Call
<1>5. met' = {} \/ attempt' > 1
  <2>1. CASE attempt = 0
    <3>1. \A i \in Nth : reading[i] = "no"
      BY <1>0, <1>1, <2>1 DEF Readers, Nth
    <3> QED
      BY <1>0, <2>1, <3>1 DEF Open, Call
  <2>2. CASE attempt # 0
    BY <1>1, <1>2, <2>2
  <2> QED BY <2>1, <2>2
<1>6. Call'
  BY <1>0, <1>1, <1>2, <1>3, <1>5 DEF Open, Call
<1>7. \A i \in Nth : i # attempt' => reading'[i] = reading[i]
  BY <1>0, <1>2 DEF Open, BodyTypeOK
<1>8. reading'[attempt'] = IF debug THEN "dump" ELSE "open"
  BY <1>0, <1>2 DEF Open, BodyTypeOK
<1>9. \A i \in Nth : i > attempt' => i > attempt
  BY <1>1, <1>2 DEF Nth
<1>10. Len(sent[attempt']) = 0 /\ UNCHANGED <<sent, debug, seekable, offset>>
  BY <1>0, <1>2 DEF Open, Readers
<1>11. ~answered'
  BY DEF Open
<1>12. \A i \in Nth : reading[i] # "dump"
  BY <1>0 DEF Open, MayOpen, Readers
<1>13. attempt' \notin met' => \A i \in Nth : reading[i] # "open"
  BY <1>2 DEF Open
<1>14. Readers'
  BY <1>0, <1>2, <1>7, <1>8, <1>9, <1>10, <1>11, <1>12, <1>13 DEF Readers
<1>15. InHand'
  <2>1. offset \in Nat
    BY <1>0, <1>1 DEF Call
  <2> QED
    BY <1>3, <1>10, <2>1 DEF InHand, Ascends
<1>16. Whole'
  BY <1>0, <1>7, <1>8, <1>10 DEF Whole, Payload
<1> QED
  BY <1>4, <1>6, <1>14, <1>15, <1>16 DEF IInv

\* A read, by the attempt in hand or by one before it.
LEMMA ReadStep == IInv /\ (\E i \in Nth : Read(i)) => IInv'
<1> SUFFICES ASSUME IInv, NEW i \in Nth, Read(i) PROVE IInv'
  OBVIOUS
<1>0. BodyTypeOK /\ Call /\ Readers /\ InHand /\ Whole
  BY DEF IInv
<1>1. /\ Length \in Nat /\ Attempts \in Nat /\ attempt \in 0..Attempts /\ place \in 0..Length
      /\ sent \in [Nth -> Seq(Bytes)] /\ offset \in Nat /\ Buffer \in Nat
  BY <1>0, NumbersAssumption DEF BodyTypeOK, Bytes, Call
<1>2. PICK n \in 1..Buffer :
        /\ n <= Length - place
        /\ sent' = [sent EXCEPT ![i] = @ \o [k \in 1..n |-> place + k - 1]]
        /\ place' = place + n
  BY DEF Read
<1>3. n \in Nat \ {0}
  BY <1>1
<1>4. UNCHANGED <<debug, seekable, offset, size, attempt, answered, used, reading, ended, met>>
      /\ reading[i] = IF debug THEN "dump" ELSE "open"
  BY DEF Read
<1> DEFINE t == sent[i] \o [k \in 1..n |-> place + k - 1]
<1>5. /\ t \in Seq(Bytes) /\ Len(t) = Len(sent[i]) + n
      /\ \A k \in 1..Len(t) : t[k] = IF k <= Len(sent[i]) THEN sent[i][k]
                                     ELSE place + (k - Len(sent[i])) - 1
  BY <1>1, <1>2, <1>3, Reading
<1>6. sent' = [sent EXCEPT ![i] = t]
  BY <1>2
<1> HIDE DEF t
<1>7. BodyTypeOK'
  <2>1. place' \in 0..Length
    BY <1>1, <1>2, <1>3
  <2>2. sent' \in [Nth -> Seq(Bytes)]
    BY <1>1, <1>5, <1>6
  <2> QED
    BY <1>0, <1>4, <2>1, <2>2 DEF BodyTypeOK, Bytes
<1>8. i <= attempt /\ attempt > 0 /\ attempt \in Nth
  BY <1>0, <1>1, <1>4 DEF Readers, Nth
<1>9. i # attempt => ~debug /\ attempt \in met
  BY <1>0, <1>4 DEF Readers
<1>10. Call'
  BY <1>0, <1>4, <1>8 DEF Call
<1>11. Readers'
  BY <1>0, <1>1, <1>4, <1>6, <1>8 DEF Readers, Nth
<1>12. InHand'
  <2>1. sent[attempt] \in Seq(Bytes) /\ Len(sent[attempt]) \in Nat /\ sent'[attempt] \in Seq(Bytes)
    BY <1>1, <1>5, <1>6, <1>8
  <2>2. sent'[attempt] = IF i = attempt THEN t ELSE sent[attempt]
    BY <1>1, <1>6, <1>8
  <2>3. Ascends(sent[attempt], offset, place) /\ offset + Len(sent[attempt]) <= place
    BY <1>0, <1>8 DEF InHand
  <2>0. place \in Nat /\ n \in Nat
    BY <1>1, <1>3
  <2>4. Ascends(sent'[attempt], offset, place + n)
    <3>1. CASE i = attempt
      <4>1. Ascends(t, offset, place + n)
        BY <1>1, <1>5, <2>0, <2>1, <2>3, <3>1, StillAscends
      <4> QED BY <2>2, <3>1, <4>1
    <3>2. CASE i # attempt
      <4>1. Ascends(sent[attempt], offset, place + n)
        BY <1>1, <2>0, <2>1, <2>3, StillAscends
      <4> QED BY <2>2, <3>2, <4>1
    <3> QED BY <3>1, <3>2
  <2>5. offset + Len(sent'[attempt]) <= place + n
    BY <1>1, <1>3, <1>5, <2>1, <2>2, <2>3
  <2>6. debug \/ attempt \notin met => place + n = offset + Len(sent'[attempt])
    <3>1. CASE i = attempt
      <4>1. debug \/ attempt \notin met => place = offset + Len(sent[attempt])
        BY <1>0, <1>8 DEF InHand
      <4>2. Len(sent'[attempt]) = Len(sent[attempt]) + n
        BY <1>5, <2>2, <3>1
      <4>3. offset \in Nat /\ Len(sent[attempt]) \in Nat
        BY <1>1, <2>1
      <4>4. place = offset + Len(sent[attempt]) =>
              place + n = offset + (Len(sent[attempt]) + n)
        BY <2>0, <4>3
      <4> QED
        BY <4>1, <4>2, <4>4
    <3>2. CASE i # attempt
      BY <1>9, <3>2
    <3> QED BY <3>1, <3>2
  <2> QED
    BY <1>2, <1>4, <2>4, <2>5, <2>6 DEF InHand
<1>13. Whole'
  <2> SUFFICES ASSUME NEW j \in Nth,
                      \/ debug /\ reading[j] \in {"open", "stopped", "ended"}
                      \/ ~seekable /\ reading[j] = "ended"
               PROVE  sent'[j] = sent[j]
    BY <1>0, <1>4 DEF Whole, Payload
  <2>1. j # i
    BY <1>4
  <2> QED
    BY <1>1, <1>6, <2>1
<1> QED
  BY <1>7, <1>10, <1>11, <1>12, <1>13 DEF IInv

\* The end of the source, or of what it was measured to, is the payload's, when
\* nobody else reads.
LEMMA AtTheEnd ==
  ASSUME IInv, attempt > 0, debug \/ attempt \notin met,
         Limit(attempt) = 0 \/ place = Length
  PROVE  sent[attempt] = Payload
<1>1. /\ Length \in Nat /\ Length > 0 /\ attempt \in Nth /\ place \in 0..Length
      /\ sent[attempt] \in Seq(Bytes) /\ offset \in 0..Length - 1
  BY NumbersAssumption DEF IInv, BodyTypeOK, Bytes, Call, Nth
<1>2. place = offset + Len(sent[attempt]) /\ Ascends(sent[attempt], offset, place)
  BY DEF IInv, InHand
<1>3. Len(sent[attempt]) = Length - offset
  BY <1>1, <1>2 DEF IInv, Call, Limit
<1> QED
  BY <1>1, <1>2, <1>3, Filled

\* A reading that stops or ends, and a dump that is complete.
LEMMA EndStep ==
  IInv /\ (\E i \in Nth : Dumped(i) \/ ReadEOF(i) \/ StopReading(i)) => IInv'
<1> SUFFICES ASSUME IInv, NEW i \in Nth, Dumped(i) \/ ReadEOF(i) \/ StopReading(i)
             PROVE  IInv'
  OBVIOUS
<1>0. BodyTypeOK /\ Call /\ Readers /\ InHand /\ Whole
  BY DEF IInv
<1>1. Attempts \in Nat /\ attempt \in 0..Attempts
  BY <1>0, NumbersAssumption DEF BodyTypeOK
<1>2. /\ UNCHANGED <<debug, seekable, offset, size, place, attempt, answered, used, sent, ended, met>>
      /\ \/ reading[i] = "dump" /\ reading' = [reading EXCEPT ![i] = "open"]
         \/ reading[i] = "open" /\ \E p \in {"stopped", "ended"} :
                                     reading' = [reading EXCEPT ![i] = p]
  BY DEF Dumped, ReadEOF, StopReading
<1>3. BodyTypeOK'
  BY <1>0, <1>2 DEF BodyTypeOK
<1>4. Call' /\ InHand'
  BY <1>0, <1>2 DEF Call, InHand
<1>5. i <= attempt /\ attempt > 0
  BY <1>0, <1>1, <1>2 DEF Readers, Nth
<1>6. Readers'
  BY <1>0, <1>2 DEF Readers, BodyTypeOK
<1>7. Whole'
  <2> SUFFICES ASSUME NEW j \in Nth,
                      \/ debug /\ reading'[j] \in {"open", "stopped", "ended"}
                      \/ ~seekable /\ reading'[j] = "ended"
               PROVE  sent[j] = Payload
    BY <1>2 DEF Whole, Payload
  <2>1. CASE j # i
    BY <1>0, <1>2, <2>1 DEF Whole, BodyTypeOK
  <2>2. CASE j = i /\ debug /\ reading[i] = "open"
    BY <1>0, <2>2 DEF Whole
  <2>3. CASE j = i /\ debug /\ reading[i] = "dump"
    <3>1. i = attempt /\ Dumped(i)
      BY <1>0, <2>3 DEF Readers, Dumped, ReadEOF, StopReading
    <3> QED
      BY <1>5, <2>3, <3>1, AtTheEnd DEF Dumped
  <2>4. CASE j = i /\ ~debug
    <3>1. ReadEOF(i) /\ ~seekable
      BY <1>0, <1>2, <2>4 DEF Readers, StopReading, Dumped, BodyTypeOK
    <3>2. i = attempt /\ attempt = 1 /\ met = {}
      BY <1>0, <1>1, <1>5, <3>1 DEF Call, Nth
    <3> QED
      BY <1>5, <2>4, <3>1, <3>2, AtTheEnd DEF ReadEOF
  <2> QED
    BY <1>2, <2>1, <2>2, <2>3, <2>4
<1> QED
  BY <1>3, <1>4, <1>6, <1>7 DEF IInv

\* The inductive invariant of a body that is sent again: what each reader of
\* the one source has of it.
THEOREM Inductive == Spec => []IInv
<1>1. IInv /\ [Next]_vars => IInv'
  <2> SUFFICES ASSUME IInv, [Next]_vars PROVE IInv'
    OBVIOUS
  <2>1. ASSUME UNCHANGED <<debug, seekable, offset, size, place, attempt, answered, used,
                           reading, sent, met>>,
               ended' \in BOOLEAN
        PROVE  IInv'
    <3>1. BodyTypeOK'
      BY <2>1 DEF IInv, BodyTypeOK
    <3>2. Call' /\ Readers' /\ InHand'
      BY <2>1 DEF IInv, Call, Readers, InHand
    <3>3. Whole'
      BY <2>1 DEF IInv, Whole, Payload
    <3> QED BY <3>1, <3>2, <3>3 DEF IInv
  <2>2. CASE AnsweredEarly
    <3>1. attempt > 0
      BY <2>2, NumbersAssumption DEF AnsweredEarly, IInv, Call, BodyTypeOK
    <3> QED
      BY <2>2, <3>1
         DEF AnsweredEarly, IInv, BodyTypeOK, Call, Readers, InHand, Whole, Payload
  <2>3. CASE CannotOpen \/ Done
    BY <2>1, <2>3 DEF CannotOpen, Done
  <2>4. CASE Over \/ UNCHANGED vars
    <3>1. ended \in BOOLEAN
      BY DEF IInv, BodyTypeOK
    <3> QED
      BY <2>1, <2>4, <3>1 DEF Over, vars
  <2> QED
    BY <2>2, <2>3, <2>4, OpenStep, ReadStep, EndStep DEF Next
<1> QED
  BY InitIInv, <1>1, PTL DEF Spec

\* The variables of a body keep their types: no read goes past its source.
THEOREM BodyTyping == Spec => []BodyTypeOK
<1>1. IInv => BodyTypeOK
  BY DEF IInv
<1> QED
  BY Inductive, <1>1, PTL

\* A body of the attempt in hand that a server can take for whole is the
\* payload, whatever the readings of older attempts took of the source.
THEOREM CompleteBodies == Spec => []CompleteIsPayload
<1>1. IInv => CompleteIsPayload
  <2> SUFFICES ASSUME IInv, attempt > 0
               PROVE  /\ Complete(attempt) => sent[attempt] = Payload
                      /\ attempt \notin met => IsPrefix(sent[attempt], Payload)
    BY DEF CompleteIsPayload
  <2>1. /\ Length \in Nat /\ attempt \in Nth /\ place \in 0..Length
        /\ sent[attempt] \in Seq(Bytes) /\ offset \in 0..Length - 1
    BY NumbersAssumption DEF IInv, BodyTypeOK, Bytes, Call, Nth
  <2>2. ASSUME Complete(attempt), seekable
        PROVE  sent[attempt] = Payload
    <3>1. Len(sent[attempt]) = Length - offset
      BY <2>1, <2>2 DEF Complete, IInv, Call
    <3> QED
      BY <2>1, <3>1, Filled DEF IInv, InHand
  <2>3. ASSUME Complete(attempt), ~seekable
        PROVE  sent[attempt] = Payload
    BY <2>1, <2>3 DEF Complete, IInv, Whole
  <2>4. ASSUME attempt \notin met
        PROVE  IsPrefix(sent[attempt], Payload)
    BY <2>1, <2>4, Begun DEF IInv, InHand
  <2> QED BY <2>2, <2>3, <2>4
<1> QED
  BY Inductive, <1>1, PTL

\* With a DebugWriter every body read to its end is the payload.
THEOREM DumpedBodies == Spec => []DumpedIsPayload
<1>1. IInv => DumpedIsPayload
  BY DEF IInv, Whole, DumpedIsPayload
<1> QED
  BY Inductive, <1>1, PTL
=============================================================================
