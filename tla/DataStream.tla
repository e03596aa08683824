----------------------------- MODULE DataStream -----------------------------
(***************************************************************************)
(* dataStream: the payload of a message, handed to the caller unread.      *)
(*                                                                         *)
(* One goroutine reads; any number may close it meanwhile.  The first to   *)
(* end the stream closes the transport's body and tells the OnRequest      *)
(* hook, inside sync.Once; the others wait for it there.                   *)
(***************************************************************************)
EXTENDS Integers, Sequences

CONSTANTS
  Reader,    \* The goroutine that reads.
  Closers,   \* The goroutines that close.
  Size       \* The payload, in reads.

ASSUME AgentsAssumption == Reader \notin Closers
ASSUME SizeAssumption == Size \in Nat

VARIABLES
  left,   \* Reads of the payload that have not been made.
  body,   \* The transport's body: "open" or "closed".
  once,   \* sync.Once: "free", "taken" or "done".
  pc,     \* Where an agent is in Read or Close.
  with,   \* The error an agent passes to close.
  serr,   \* dataStream.err: what closing the body returned.
  told,   \* The errors the hook's func was called with.
  got,    \* What an agent's last Read or Close returned.
  first   \* History: the error the first read that ended got.

vars == <<left, body, once, pc, with, serr, told, got, first>>

Agents == {Reader} \cup Closers

\* "eof" is io.EOF, "cut" is io.ErrUnexpectedEOF, "failure" anything else.
Errors == {"none", "eof", "cut", "failure", "close failed"}

StreamTypeOK ==
  /\ left \in 0..Size
  /\ body \in {"open", "closed"}
  /\ once \in {"free", "taken", "done"}
  /\ pc \in [Agents -> {"idle", "ending", "closing", "telling", "leaving", "returned"}]
  /\ with \in [Agents -> Errors]
  /\ serr \in {"none", "close failed"}
  /\ told \in Seq(Errors \ {"eof"})
  /\ got \in [Agents -> Errors]
  /\ first \in Errors

Init ==
  /\ left = Size
  /\ body = "open"
  /\ once = "free"
  /\ pc = [a \in Agents |-> "idle"]
  /\ with = [a \in Agents |-> "none"]
  /\ serr = "none"
  /\ told = <<>>
  /\ got = [a \in Agents |-> "none"]
  /\ first = "none"

-----------------------------------------------------------------------------
Idle(a) == pc[a] \in {"idle", "returned"}

\* A read that finds bytes returns them.
ReadSome ==
  /\ Idle(Reader)
  /\ body = "open" /\ left > 0
  /\ left' = left - 1
  /\ pc' = [pc EXCEPT ![Reader] = "idle"]
  /\ got' = [got EXCEPT ![Reader] = "none"]
  /\ UNCHANGED <<body, once, with, serr, told, first>>

\* What the body ends with: its end when all was read, a connection or a
\* context that failed at any moment, a body closed meanwhile.
EndsWith ==
  IF body = "closed" THEN {"failure"}
  ELSE {"cut", "failure"} \cup (IF left = 0 THEN {"eof"} ELSE {})

\* A read that ends defers to close, with the error the caller will get.
ReadEnds ==
  /\ Idle(Reader)
  /\ \E err \in EndsWith :
       /\ with' = [with EXCEPT ![Reader] = err]
       /\ first' = IF first = "none" THEN err ELSE first
  /\ pc' = [pc EXCEPT ![Reader] = "ending"]
  /\ UNCHANGED <<left, body, once, serr, told, got>>

Close(a) ==
  /\ pc[a] = "idle"
  /\ with' = [with EXCEPT ![a] = "none"]
  /\ pc' = [pc EXCEPT ![a] = "ending"]
  /\ UNCHANGED <<left, body, once, serr, told, got, first>>

-----------------------------------------------------------------------------
(***************************************************************************)
(* dataStream.close.                                                       *)
(***************************************************************************)
\* Mutant: no sync.Once.
EnterAgain(a) ==
  /\ pc[a] = "ending"
  /\ once' = "taken"
  /\ pc' = [pc EXCEPT ![a] = "closing"]
  /\ UNCHANGED <<left, body, with, serr, told, got, first>>

Enter(a) ==
  /\ pc[a] = "ending"
  /\ once = "free"
  /\ once' = "taken"
  /\ pc' = [pc EXCEPT ![a] = "closing"]
  /\ UNCHANGED <<left, body, with, serr, told, got, first>>

CloseBody(a) ==
  /\ pc[a] = "closing"
  /\ body' = "closed"
  /\ serr' \in {"none", "close failed"}
  /\ pc' = [pc EXCEPT ![a] = "telling"]
  /\ UNCHANGED <<left, once, with, told, got, first>>

\* Mutant: io.EOF is told as it is.
OutcomeOfEOF(a) == IF with[a] = "none" THEN serr ELSE with[a]

\* Mutant: only the close is told.
OutcomeOfClose(a) == serr

\* A clean end is not a failure; a close that fails is one.
Outcome(a) == IF with[a] \in {"none", "eof"} THEN serr ELSE with[a]

Tell(a) ==
  /\ pc[a] = "telling"
  /\ told' = Append(told, Outcome(a))
  /\ pc' = [pc EXCEPT ![a] = "leaving"]
  /\ UNCHANGED <<left, body, once, with, serr, got, first>>

\* Read returns its own error, Close the body's.
Returned(a) ==
  /\ pc' = [pc EXCEPT ![a] = "returned"]
  /\ got' = [got EXCEPT ![a] = IF a = Reader THEN with[a] ELSE serr]

\* Mutant: the lock of the end is kept.
LeaveLocked(a) ==
  /\ pc[a] = "leaving"
  /\ Returned(a)
  /\ UNCHANGED <<left, body, once, with, serr, told, first>>

Leave(a) ==
  /\ pc[a] = "leaving"
  /\ once' = "done"
  /\ Returned(a)
  /\ UNCHANGED <<left, body, with, serr, told, first>>

\* Mutant: an atomic flag in the place of sync.Once, which nobody waits for.
SkipAtOnce(a) ==
  /\ pc[a] = "ending"
  /\ once # "free"
  /\ Returned(a)
  /\ UNCHANGED <<left, body, once, with, serr, told, first>>

\* Once done, sync.Once runs nothing and lets everyone through.
Skip(a) ==
  /\ pc[a] = "ending"
  /\ once = "done"
  /\ Returned(a)
  /\ UNCHANGED <<left, body, once, with, serr, told, first>>

Ending(a) == Enter(a) \/ CloseBody(a) \/ Tell(a) \/ Leave(a) \/ Skip(a)

Next ==
  \/ ReadSome \/ ReadEnds
  \/ \E a \in Closers : Close(a)
  \/ \E a \in Agents : Ending(a)

Spec == Init /\ [][Next]_vars

\* A goroutine inside Read or Close runs on.
FairSpec == Spec /\ \A a \in Agents : WF_vars(Ending(a))

-----------------------------------------------------------------------------
\* The operation ends once, however many end the stream, and with its
\* connection already given back ("The first of EOF, a failure or Close ends
\* the operation").
EndsOnce ==
  /\ Len(told) <= 1
  /\ told # <<>> => body = "closed"

\* Whoever returns from an end of the stream finds the operation over, also
\* when another goroutine is the one that ended it; and every Close returns
\* what the one close of the body did.
OverWhenReturned ==
  \A a \in Agents : pc[a] = "returned" =>
    told # <<>> /\ (a \in Closers => got[a] = serr)

\* The hook is told of a clean end only when the whole payload was read or a
\* Close came, of a failure only when it is the reader's, and always of that
\* one when nobody closed ("with the failure if any, or the close's").
Closed == \E a \in Closers : pc[a] # "idle"

EndIsHonest ==
  \A i \in DOMAIN told :
    /\ told[i] = "none" => (first = "eof" /\ left = 0) \/ Closed
    /\ told[i] \in {"cut", "failure"} => told[i] = first
    /\ first \in {"cut", "failure"} /\ ~Closed => told[i] = first

\* No Read or Close is stuck behind another.
EveryEndReturns == \A a \in Agents : pc[a] = "ending" ~> pc[a] = "returned"
=============================================================================
