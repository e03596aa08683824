---------------------------- MODULE ConnectTrace ----------------------------
(***************************************************************************)
(* TracingRoundTripper: the OnConnect hook of one round trip, composed of  *)
(* the hooks of several observers.                                         *)
(*                                                                         *)
(* A caller composes hook sets, and the client of the round trip installs  *)
(* what it composed.  The func a hook returned is kept in one variable,    *)
(* connectDone, from ConnectStart to ConnectDone.  The dialer is external: *)
(* it races one family of the host's addresses against the other, each     *)
(* racer trying its addresses in turn, and calls both hooks from the       *)
(* racers' goroutines.                                                     *)
(***************************************************************************)
EXTENDS Integers, FiniteSets, Hooks

CONSTANTS
  Racers,      \* The families of addresses dialed at the same time.
  Addresses,   \* How many addresses each of them has.
  Observers    \* Those whose hook set the caller may compose.

Tries == Racers \X (1..Addresses)
Results == {"connected", "failed"}

ASSUME DialerAssumption == IsFiniteSet(Racers) /\ Addresses \in Nat \ {0}
ASSUME NoneAssumption ==
  None \notin Tries \cup Results \cup Seq(Observers) \cup HooksOf(Observers)

VARIABLES
  trace,         \* ClientTrace.OnConnect: the sets composed so far.
  apart,         \* Observers whose set is not composed.
  asked,         \* History: those composed that have a hook, in order.
  hearing,       \* History: those of them whose hook returns a func.
  installed,     \* The OnConnect hook of the client, None before it is used.
  pc,            \* Where a racer is with its current address.
  addr,          \* The number of that address.
  connectDone,   \* The func kept: which attempt's, if any.
  result,        \* How each attempt ended.
  begun,         \* The observers told of the beginning of each attempt.
  heard,         \* What the func of each attempt told: observers and results.
  overlapped     \* History: attempts during which another began or was on.

setVars  == <<trace, apart, asked, hearing, installed>>
dialVars == <<pc, addr, connectDone, result, begun, heard, overlapped>>
vars == <<setVars, dialVars>>

ConnectTypeOK ==
  /\ trace \in HooksOf(Observers) \cup {None}
  /\ apart \subseteq Observers
  /\ asked \in Seq(Observers)
  /\ hearing \in Seq(Observers)
  /\ installed \in HooksOf(Observers) \cup {None}
  /\ pc \in [Racers -> {"ready", "hooked", "dialing", "ended", "over"}]
  /\ addr \in [Racers -> 1..Addresses]
  /\ connectDone \in Tries \cup {None}
  /\ result \in [Tries -> Results \cup {None}]
  /\ begun \in [Tries -> Seq(Observers)]
  /\ heard \in [Tries -> Seq(Observers \X Results)]
  /\ overlapped \subseteq Tries

Init ==
  /\ trace = None
  /\ apart = Observers
  /\ asked = <<>>
  /\ hearing = <<>>
  /\ installed = None
  /\ pc = [r \in Racers |-> "ready"]
  /\ addr = [r \in Racers |-> 1]
  /\ connectDone = None
  /\ result = [t \in Tries |-> None]
  /\ begun = [t \in Tries |-> <<>>]
  /\ heard = [t \in Tries |-> <<>>]
  /\ overlapped = {}

Try(r) == <<r, addr[r]>>

\* Attempts whose hook was called and whose ConnectDone is not over.
Under == {Try(r) : r \in {x \in Racers : pc[x] \in {"hooked", "dialing", "ended"}}}

-----------------------------------------------------------------------------
\* What is due to a set on its own, whatever it is composed with: to be told
\* of the beginning if it has the hook, of the end if its hook returns a func.
Asked(o, kind)   == IF kind = "nil" THEN <<>> ELSE <<o>>
Hearing(o, kind) == IF kind = "func" THEN <<o>> ELSE <<>>

\* trace.Compose(o's set), or the other way round.
ComposeSet(o, kind) ==
  /\ installed = None
  /\ o \in apart
  /\ apart' = apart \ {o}
  /\ \/ /\ trace' = Compose(trace, Hook(o, kind))
        /\ asked' = asked \o Asked(o, kind)
        /\ hearing' = hearing \o Hearing(o, kind)
     \/ /\ trace' = Compose(Hook(o, kind), trace)
        /\ asked' = Asked(o, kind) \o asked
        /\ hearing' = Hearing(o, kind) \o hearing
  /\ UNCHANGED <<installed, dialVars>>

\* Client.init: the client is used for the first time.
Install ==
  /\ installed = None
  /\ installed' = Installed(trace)
  /\ UNCHANGED <<trace, apart, asked, hearing, dialVars>>

\* ConnectStart calls the OnConnect hook, which returns a func ...
ConnectStart(r) ==
  /\ installed # None
  /\ pc[r] = "ready"
  /\ pc' = [pc EXCEPT ![r] = "hooked"]
  /\ begun' = [begun EXCEPT ![Try(r)] = installed.calls]
  /\ overlapped' =
       IF Under = {} THEN overlapped ELSE overlapped \cup Under \cup {Try(r)}
  /\ UNCHANGED <<setVars, addr, connectDone, result, heard>>

\* ... and keeps that func.
Keep(r) ==
  /\ pc[r] = "hooked"
  /\ connectDone' = Try(r)
  /\ pc' = [pc EXCEPT ![r] = "dialing"]
  /\ UNCHANGED <<setVars, addr, result, begun, heard, overlapped>>

\* The connection is there, or was refused, or lost the race.
Dial(r) ==
  /\ pc[r] = "dialing"
  /\ \E x \in Results : result' = [result EXCEPT ![Try(r)] = x]
  /\ pc' = [pc EXCEPT ![r] = "ended"]
  /\ UNCHANGED <<setVars, addr, connectDone, begun, heard, overlapped>>

\* The func of attempt t is called: its observers hear of the end.
Heard(t, x) ==
  heard' = [heard EXCEPT ![t] = @ \o [k \in DOMAIN installed.func |-> <<installed.func[k], x>>]]

\* Mutant: the error of the attempt is not handed on.
ConnectDoneBlind(r) ==
  /\ pc[r] = "ended"
  /\ Heard(connectDone, None)
  /\ pc' = [pc EXCEPT ![r] = "over"]
  /\ UNCHANGED <<setVars, addr, connectDone, result, begun, overlapped>>

\* Mutant: only a connection is told.
ConnectDoneConnected(r) ==
  /\ pc[r] = "ended"
  /\ IF result[Try(r)] = "connected"
     THEN Heard(connectDone, result[Try(r)])
     ELSE UNCHANGED heard
  /\ pc' = [pc EXCEPT ![r] = "over"]
  /\ UNCHANGED <<setVars, addr, connectDone, result, begun, overlapped>>

\* ConnectDone calls the func kept, whosever it is.  The racer goes on to its
\* next address unless it has a connection.
ConnectDone(r) ==
  /\ pc[r] = "ended"
  /\ Heard(connectDone, result[Try(r)])
  /\ IF result[Try(r)] = "failed" /\ addr[r] < Addresses
     THEN /\ addr' = [addr EXCEPT ![r] = @ + 1]
          /\ pc' = [pc EXCEPT ![r] = "ready"]
     ELSE pc' = [pc EXCEPT ![r] = "over"] /\ UNCHANGED addr
  /\ UNCHANGED <<setVars, connectDone, result, begun, overlapped>>

AllOver == (\A r \in Racers : pc[r] = "over") /\ UNCHANGED vars

Next ==
  \/ \E o \in Observers, kind \in HookKinds : ComposeSet(o, kind)
  \/ Install
  \/ \E r \in Racers : ConnectStart(r) \/ Keep(r) \/ Dial(r) \/ ConnectDone(r)
  \/ AllOver

Spec == Init /\ [][Next]_vars

-----------------------------------------------------------------------------
\* An attempt is over once its own ConnectDone was called.
Over(t) ==
  /\ result[t] # None
  /\ ~(addr[t[1]] = t[2] /\ pc[t[1]] = "ended")

\* The ends observer o heard of by the funcs of attempt t.
Ends(t, o) == {k \in DOMAIN heard[t] : heard[t][k][1] = o}

\* "OnConnect is called when a connection to the host is being opened, and
\* the func it returns when the attempt ends."
EachAttemptTold ==
  \A t \in Tries : Over(t) =>
    \A k \in DOMAIN hearing : Cardinality(Ends(t, hearing[k])) = 1

\* What holds of the racing dialer: the observers of an attempt that met no
\* other are told once, in their order, of its beginning and of its own end.
UndisturbedTold ==
  \A t \in Tries : Over(t) /\ t \notin overlapped =>
    /\ begun[t] = asked
    /\ heard[t] = [k \in DOMAIN hearing |-> <<hearing[k], result[t]>>]

\* And every observer hears of as many ends as there were: a func called twice
\* stands for one never called.
EndsBalance ==
  \A k \in DOMAIN hearing :
    Cardinality(UNION {{t} \X Ends(t, hearing[k]) : t \in Tries})
      = Cardinality({t \in Tries : Over(t)})
=============================================================================
