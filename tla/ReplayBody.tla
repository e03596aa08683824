----------------------------- MODULE ReplayBody -----------------------------
(***************************************************************************)
(* streamBody: a payload read from the caller's own reader or seeker, once *)
(* for every attempt.                                                      *)
(*                                                                         *)
(* The transport reads a body in a goroutine of its own.  A server may     *)
(* answer before it took the whole body; Client.Do then goes on to the     *)
(* next attempt, and the reading of the one before stops only some time    *)
(* after (net/http is external).  Every attempt reads the one source.      *)
(* A read and a seek of the source are a step each.                        *)
(*                                                                         *)
(* With Client.DebugWriter every request is dumped before the transport    *)
(* gets it: the dump reads the whole body and leaves a copy in its place.  *)
(***************************************************************************)
EXTENDS Integers, Sequences, SequencesExt

CONSTANTS
  Attempts,   \* How often the policy and Client.Attempts let it be sent.
  Length,     \* The whole source.
  Buffer      \* The most a read takes.

ASSUME NumbersAssumption ==
  Attempts \in Nat \ {0} /\ Length \in Nat \ {0} /\ Buffer \in Nat \ {0}

VARIABLES
  debug,      \* Client.DebugWriter is set.
  seekable,   \* streamBody.seeker is set.
  offset,     \* Where the caller left the source.
  size,       \* What Encode measured, -1 when it cannot.
  place,      \* Where the source is now.
  attempt,    \* The attempt in hand.
  answered,   \* It has its answer.
  used,       \* streamBody.used.
  reading,    \* Where each attempt's reading is.
  sent,       \* What each attempt read, or its dump: the places of the source.
  ended,      \* The call is over.
  met         \* History: attempts that began to read while another did.

vars == <<debug, seekable, offset, size, place, attempt, answered, used, reading, sent, ended, met>>

Nth == 1..Attempts

BodyTypeOK ==
  /\ debug \in BOOLEAN
  /\ seekable \in BOOLEAN
  /\ offset \in 0..Length
  /\ size \in -1..Length
  /\ place \in 0..Length
  /\ attempt \in 0..Attempts
  /\ answered \in BOOLEAN
  /\ used \in BOOLEAN
  /\ reading \in [Nth -> {"no", "dump", "open", "stopped", "ended"}]
  /\ sent \in [Nth -> Seq(0..Length - 1)]
  /\ ended \in BOOLEAN
  /\ met \subseteq Nth

\* Encode: a seeker is measured from its offset and left where it was, a bare
\* reader's size is unknown.  An empty payload is never opened.
Encode ==
  /\ debug \in BOOLEAN
  /\ seekable \in BOOLEAN
  /\ offset \in 0..Length - 1
  /\ size = IF seekable THEN Length - offset ELSE -1
  /\ place = offset

Init ==
  /\ Encode
  /\ attempt = 0
  /\ answered = TRUE
  /\ used = FALSE
  /\ reading = [i \in Nth |-> "no"]
  /\ sent = [i \in Nth |-> <<>>]
  /\ ended = FALSE
  /\ met = {}

Payload == [k \in 1..Length - offset |-> offset + k - 1]

-----------------------------------------------------------------------------
\* Mutant: one attempt too many.
MayOpenOnceMore == ~ended /\ answered /\ attempt <= Attempts

\* Do begins an attempt, the first or a retry of one that was answered.
MayOpen == ~ended /\ answered /\ attempt < Attempts

\* Mutant: not rewound.
LeftWhereItIs == place

\* streamBody.Open: opened again, the source is rewound, if it can be.
CanOpen == used => seekable
Rewound == IF used THEN offset ELSE place

Open ==
  /\ MayOpen
  /\ CanOpen
  /\ place' = Rewound
  /\ used' = TRUE
  /\ attempt' = attempt + 1
  /\ answered' = FALSE
  /\ reading' = [reading EXCEPT ![attempt + 1] = IF debug THEN "dump" ELSE "open"]
  /\ met' = IF \E i \in Nth : reading[i] = "open" THEN met \cup {attempt + 1} ELSE met
  /\ UNCHANGED <<debug, seekable, offset, size, sent, ended>>

\* A reader cannot be rewound: the answer in hand stands.
CannotOpen ==
  /\ MayOpen
  /\ ~CanOpen
  /\ ended' = TRUE
  /\ UNCHANGED <<debug, seekable, offset, size, place, attempt, answered, used, reading, sent, met>>

\* io.LimitReader: a known size bounds the reading, an unknown one does not.
Limit(i) == IF size >= 0 THEN size - Len(sent[i]) ELSE Length

\* The source is read by the dump, or else by the transport.
Read(i) ==
  /\ reading[i] = IF debug THEN "dump" ELSE "open"
  /\ \E n \in 1..Buffer :
       /\ n <= Limit(i) /\ n <= Length - place
       /\ sent' = [sent EXCEPT ![i] = @ \o [k \in 1..n |-> place + k - 1]]
       /\ place' = place + n
  /\ UNCHANGED <<debug, seekable, offset, size, attempt, answered, used, reading, ended, met>>

\* Mutant: the dump leaves the body it has read.
DumpedLeftEmpty(i) ==
  /\ reading[i] = "dump"
  /\ Limit(i) = 0 \/ place = Length
  /\ reading' = [reading EXCEPT ![i] = "open"]
  /\ sent' = [sent EXCEPT ![i] = <<>>]
  /\ UNCHANGED <<debug, seekable, offset, size, place, attempt, answered, used, ended, met>>

\* The dump is at the end of the body and puts what it read in its place.
Dumped(i) ==
  /\ reading[i] = "dump"
  /\ Limit(i) = 0 \/ place = Length
  /\ reading' = [reading EXCEPT ![i] = "open"]
  /\ UNCHANGED <<debug, seekable, offset, size, place, attempt, answered, used, sent, ended, met>>

\* The source or the limit is at its end, or the copy is.
ReadEOF(i) ==
  /\ reading[i] = "open"
  /\ debug \/ Limit(i) = 0 \/ place = Length
  /\ reading' = [reading EXCEPT ![i] = "ended"]
  /\ UNCHANGED <<debug, seekable, offset, size, place, attempt, answered, used, sent, ended, met>>

\* The transport stops reading for an attempt that has its answer, at once
\* or later.
StopReading(i) ==
  /\ reading[i] = "open"
  /\ i < attempt \/ answered
  /\ reading' = [reading EXCEPT ![i] = "stopped"]
  /\ UNCHANGED <<debug, seekable, offset, size, place, attempt, answered, used, sent, ended, met>>

\* An answer that may be retried comes, the body taken or not.
AnsweredEarly ==
  /\ ~answered
  /\ reading[attempt] # "dump"
  /\ answered' = TRUE
  /\ UNCHANGED <<debug, seekable, offset, size, place, attempt, used, reading, sent, ended, met>>

\* The call ends: the answer was the last, or the body fell short of its
\* declared length and the transport failed the request.
Done ==
  /\ ~ended /\ attempt > 0
  /\ answered \/ reading[attempt] = "ended"
  /\ ended' = TRUE
  /\ UNCHANGED <<debug, seekable, offset, size, place, attempt, answered, used, reading, sent, met>>

Over ==
  /\ ended /\ \A i \in Nth : reading[i] # "open"
  /\ UNCHANGED vars

Next ==
  \/ Open \/ CannotOpen \/ AnsweredEarly \/ Done
  \/ \E i \in Nth : Read(i) \/ Dumped(i) \/ ReadEOF(i) \/ StopReading(i)
  \/ Over

Spec == Init /\ [][Next]_vars

-----------------------------------------------------------------------------
\* What a server takes for the whole of an attempt's body: read to its end,
\* with the length that was declared, if one was.
Complete(i) ==
  /\ reading[i] = "ended"
  /\ size >= 0 => Len(sent[i]) = size

\* A body the server can take for whole, of the attempt in hand, is the
\* payload: bytes lost to the reading of an older attempt leave it short of
\* its length, never different.  One that met no other reading is the payload
\* as far as it got, from its start.
CompleteIsPayload ==
  attempt > 0 /\ ~answered =>
    /\ Complete(attempt) => sent[attempt] = Payload
    /\ attempt \notin met => IsPrefix(sent[attempt], Payload)

\* With a DebugWriter every body the transport reads to its end is the payload:
\* the dump took all of it before the transport had any, so that no reading of
\* an older attempt is left to disturb it.
DumpedIsPayload ==
  \A i \in Nth : debug /\ reading[i] = "ended" => sent[i] = Payload

\* DataSourceReadSeeker "sends rs from its current offset to its end, and
\* rewinds it to send again when a retry is due".
ResentWhole ==
  attempt > 0 /\ ~answered /\ reading[attempt] = "ended" => sent[attempt] = Payload
=============================================================================
