----------------------------- MODULE SpoolCalls -----------------------------
(***************************************************************************)
(* Calls that change a spool, the network between, and the server.         *)
(*                                                                         *)
(* The callers are HttpDo's.  A request is a message <<c, n>>, attempt n   *)
(* of call c; it can be lost, arrive when its call has long returned, and  *)
(* be answered by a gateway in its place.  The server is external: it is   *)
(* modelled from what the client and its docs rely on, namely the answers  *)
(* they class as having changed nothing, the dedup window of a key and the *)
(* lease a settle consumes.                                                *)
(***************************************************************************)
EXTENDS HttpDo

CONSTANTS
  Keys, NoKey,      \* Dedup keys.
  Leases, NoLease   \* Lease tokens.

ASSUME TokensAssumption ==
  /\ NoKey \notin Keys /\ NoLease \notin Leases
  /\ \A r \in Requests : r.key \in Keys \cup {NoKey} /\ r.lease \in Leases \cup {NoLease}

VARIABLES
  wire,     \* Requests on their way to the server.
  busy,     \* Requests whose change is under way.
  applied,  \* Requests whose change was made.
  reply,    \* What is on its way back to each call: nothing or one answer.
  held,     \* Leases in force.
  claimed,  \* Keys the dedup window remembers.
  forgot    \* Keys whose window has passed.

serverVars == <<wire, busy, applied, reply, held, claimed, forgot>>
vars == <<doVars, serverVars>>

Messages == Calls \X (1..Tries)

\* Success, and the answers that name a token or a key.
Done       == StatusError(201, "Unknown", 0)
Stale      == StatusError(410, "StaleToken", 0)
InFlight   == StatusError(409, "DedupInFlight", 0)
Claimed    == StatusError(409, "DedupClaimed", 0)
Verdicts   == {Stale, InFlight, Claimed}
Replies    == {Done} \cup Verdicts \cup Answers

\* The answers anyone can get, whatever was asked.
Refusals == {a \in Answers \ Verdicts : ~AttemptUnknown(a)}
Unclear  == {a \in Answers \ Verdicts : AttemptUnknown(a)}

ASSUME VerdictsAssumption == Verdicts \subseteq Answers

KeyOf(m)   == req[m[1]].key
LeaseOf(m) == req[m[1]].lease

ServerTypeOK ==
  /\ TypeOK
  /\ wire \subseteq Messages
  /\ busy \subseteq Messages
  /\ applied \subseteq Messages
  /\ reply \in [Calls -> SUBSET Replies]
  /\ held \subseteq Leases
  /\ claimed \subseteq Keys
  /\ forgot \subseteq Keys

Init ==
  /\ DoInit
  /\ wire = {}
  /\ busy = {}
  /\ applied = {}
  /\ reply = [c \in Calls |-> {}]
  /\ held = Leases
  /\ claimed = {}
  /\ forgot = {}

-----------------------------------------------------------------------------
(***************************************************************************)
(* The callers.                                                            *)
(***************************************************************************)
Depart(c, n) ==
  /\ wire' = wire \cup {<<c, n>>}
  /\ UNCHANGED <<busy, applied, reply, held, claimed, forgot>>

SendFirst(c, r) == Start(c, r) /\ Depart(c, 1)
SendAgain(c)    == Resend(c) /\ Depart(c, attempt[c] + 1)

\* Steps of the call and of its context that touch nothing outside.
Alone(c) ==
  /\ \/ \E r \in Requests : CannotEncode(c, r)
     \/ GiveUp(c) \/ CannotReopen(c) \/ TooLate(c) \/ Prepare(c) \/ CutWait(c)
     \/ Cancel(c) \/ Expire(c)
  /\ UNCHANGED serverVars

-----------------------------------------------------------------------------
(***************************************************************************)
(* The network.                                                            *)
(***************************************************************************)
Received(c) == reply' = [reply EXCEPT ![c] = {}]

\* Mutant: a send whose key is in flight passes for a duplicate's success.
HearInFlight(c) ==
  /\ \E a \in reply[c] :
       \/ a \in {Done, InFlight} /\ Succeed(c)
       \/ a = Done /\ \E chain \in Breakages : BodyLost(c, chain)
       \/ a \in Answers \ {InFlight} /\ Answered(c, a)
  /\ Received(c)
  /\ UNCHANGED <<wire, busy, applied, held, claimed, forgot>>

\* The answer arrives, and with a success its body, or not.
Hear(c) ==
  /\ \E a \in reply[c] :
       \/ a = Done /\ Succeed(c)
       \/ a = Done /\ \E chain \in Breakages : BodyLost(c, chain)
       \/ a \in Answers /\ Answered(c, a)
  /\ Received(c)
  /\ UNCHANGED <<wire, busy, applied, held, claimed, forgot>>

\* What happened, whatever the client makes of it: no connection was made, if
\* a lookup or a dial failed and was not the payload's own source.
NeverConnected(chain) == "bodyRead" \notin chain /\ chain \cap {"dns", "dial"} # {}

\* The connection itself failed: the request never left.
NeverLeft(c, chain) ==
  /\ NeverConnected(chain)
  /\ <<c, attempt[c]>> \in wire
  /\ reply[c] = {}
  /\ Broken(c, chain)
  /\ wire' = wire \ {<<c, attempt[c]>>}
  /\ UNCHANGED <<busy, applied, reply, held, claimed, forgot>>

\* The call stops waiting for an answer; what it sent goes on without it, also
\* when the payload's source failed: it may fail past the end of the payload.
StopWaiting(c) ==
  /\ \/ \E chain \in Breakages : ~NeverConnected(chain) /\ Broken(c, chain)
     \/ CutByContext(c)
     \/ TimedOut(c)
  /\ Received(c)
  /\ UNCHANGED <<wire, busy, applied, held, claimed, forgot>>

Lose(m) ==
  /\ m \in wire
  /\ wire' = wire \ {m}
  /\ UNCHANGED <<doVars, busy, applied, reply, held, claimed, forgot>>

\* An answer reaches only a call still waiting for this very attempt, and
\* the first one wins.
Answer(m, a) ==
  LET c == m[1]
  IN reply' = IF pc[c] = "flight" /\ attempt[c] = m[2] /\ reply[c] = {}
              THEN [reply EXCEPT ![c] = {a}]
              ELSE reply

\* A gateway answers in the server's place: the request may still arrive, or
\* be under way, or be done.
GatewayAnswers(m, a) ==
  /\ m \in wire \cup busy \cup applied
  /\ Answer(m, a)
  /\ UNCHANGED <<doVars, wire, busy, applied, held, claimed, forgot>>

-----------------------------------------------------------------------------
(***************************************************************************)
(* The server.                                                             *)
(***************************************************************************)

\* An answer the docs class as having changed nothing, before the change.
Refuse(m, a) ==
  /\ m \in wire
  /\ Answer(m, a)
  /\ wire' = wire \ {m}
  /\ UNCHANGED <<doVars, busy, applied, held, claimed, forgot>>

\* Another request with the key is under way.
KeyInFlight(m) ==
  /\ m \in wire
  /\ KeyOf(m) # NoKey
  /\ \E n \in busy : KeyOf(n) = KeyOf(m)
  /\ Answer(m, InFlight)
  /\ wire' = wire \ {m}
  /\ UNCHANGED <<doVars, busy, applied, held, claimed, forgot>>

\* The key made its change before.  A send succeeds as a duplicate; an
\* ack-and-send is refused and acks nothing.
KeyHit(m) ==
  /\ m \in wire
  /\ KeyOf(m) \in claimed
  /\ Answer(m, IF LeaseOf(m) = NoLease THEN Done ELSE Claimed)
  /\ wire' = wire \ {m}
  /\ UNCHANGED <<doVars, busy, applied, held, claimed, forgot>>

Begin(m) ==
  /\ m \in wire
  /\ KeyOf(m) \notin claimed
  /\ KeyOf(m) # NoKey => \A n \in busy : KeyOf(n) # KeyOf(m)
  /\ wire' = wire \ {m}
  /\ busy' = busy \cup {m}
  /\ UNCHANGED <<doVars, applied, reply, held, claimed, forgot>>

\* The token no longer names the delivery: settled, expired or taken over.
StaleToken(m) ==
  /\ m \in wire \cup busy
  /\ LeaseOf(m) # NoLease
  /\ LeaseOf(m) \notin held
  /\ Answer(m, Stale)
  /\ wire' = wire \ {m}
  /\ busy' = busy \ {m}
  /\ UNCHANGED <<doVars, applied, held, claimed, forgot>>

\* The change, the end of the lease and the claim of the key are one step.
\* The server confirms it, or cannot.
Commit(m) ==
  /\ m \in busy
  /\ LeaseOf(m) \in held \cup {NoLease}
  /\ \E a \in {Done} \cup Unclear : Answer(m, a)
  /\ busy' = busy \ {m}
  /\ applied' = applied \cup {m}
  /\ held' = held \ {LeaseOf(m)}
  /\ claimed' = claimed \cup ({KeyOf(m)} \ {NoKey})
  /\ UNCHANGED <<doVars, wire, forgot>>

\* The change fails and is undone; the server knows it, or does not.
Abort(m) ==
  /\ m \in busy
  /\ \E a \in Refusals \cup Unclear : Answer(m, a)
  /\ busy' = busy \ {m}
  /\ UNCHANGED <<doVars, wire, applied, held, claimed, forgot>>

LeaseEnds(l) ==
  /\ l \in held
  /\ held' = held \ {l}
  /\ UNCHANGED <<doVars, wire, busy, applied, reply, claimed, forgot>>

Forget(k) ==
  /\ k \in claimed
  /\ claimed' = claimed \ {k}
  /\ forgot' = forgot \cup {k}
  /\ UNCHANGED <<doVars, wire, busy, applied, reply, held>>

-----------------------------------------------------------------------------
Caller(c) ==
  \/ \E r \in Requests : SendFirst(c, r)
  \/ SendAgain(c)
  \/ Alone(c)
  \/ Hear(c)
  \/ \E chain \in Breakages : NeverLeft(c, chain)
  \/ StopWaiting(c)

Server(m) ==
  \/ Lose(m)
  \/ \E a \in Unclear : GatewayAnswers(m, a)
  \/ \E a \in Refusals : Refuse(m, a)
  \/ KeyInFlight(m) \/ KeyHit(m) \/ StaleToken(m)
  \/ Begin(m) \/ Commit(m) \/ Abort(m)

Quiet == AllReturned /\ UNCHANGED serverVars

Next ==
  \/ \E c \in Calls : Caller(c)
  \/ \E m \in Messages : Server(m)
  \/ \E l \in Leases : LeaseEnds(l)
  \/ \E k \in Keys : Forget(k)
  \/ Quiet

Spec == Init /\ [][Next]_vars

-----------------------------------------------------------------------------
(***************************************************************************)
(* What the caller is told, and what became of its change.                 *)
(***************************************************************************)
Unknown(c) == "ErrResultUnknown" \in RpcError(errs[c])

\* A call that failed, and not with ErrResultUnknown, changed nothing: no
\* attempt of it was applied, is being applied or can still arrive.
HonestFailure ==
  \A c \in Calls :
    out[c] \in {"refused", "failed"} /\ ~Unknown(c)
      => \A m \in wire \cup busy \cup applied : m[1] # c

\* Two attempts of one call both make its change only when the request set
\* RetryUnknown, holds no lease and has no key the window still remembers
\* ("with Dedup, a retry the queue's dedup window still remembers appends
\* nothing new"; an AckAndSend "never appends twice").
Unprotected(c) ==
  /\ req[c].policy = "retrySendUnknown"
  /\ req[c].lease = NoLease
  /\ req[c].key = NoKey \/ req[c].key \in forgot

AtMostOnce ==
  \A m, n \in applied : m[1] = n[1] /\ m # n => Unprotected(m[1])

-----------------------------------------------------------------------------
(***************************************************************************)
(* The promise, implemented.                                               *)
(***************************************************************************)
Phase(c) ==
  CASE pc[c] = "idle" -> "new"
    [] pc[c] \notin {"idle", "done"} -> "open"
    [] out[c] = "ok" -> "ok"
    [] out[c] = "refused" -> "failed"
    [] OTHER -> IF Unknown(c) THEN "unknown" ELSE "failed"

Promise == INSTANCE CallPromise
  WITH Names   <- 1..Tries,
       phase   <- [c \in Calls |-> Phase(c)],
       asked   <- req,
       changes <- [c \in Calls |-> {n \in 1..Tries : <<c, n>> \in applied}]

\* Whatever the server and the network do, a call keeps its promise.
KeepsPromise == Promise!Spec
=============================================================================
