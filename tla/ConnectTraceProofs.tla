-------------------------- MODULE ConnectTraceProofs --------------------------
(***************************************************************************)
(* What a dialer that races addresses leaves of the OnConnect hook, for    *)
(* any number of racers, addresses and hook sets, composed in any order.   *)
(***************************************************************************)
EXTENDS ConnectTrace, FiniteSetTheorems, TLAPS

Places == {"ready", "hooked", "dialing", "ended", "over"}
Busy   == {"hooked", "dialing", "ended"}

\* What the funcs of one attempt tell when it ended with x.
Report(x) == [k \in DOMAIN hearing |-> <<hearing[k], x>>]

Begun(r, n) == n < addr[r] \/ (n = addr[r] /\ pc[r] # "ready")
Kept(r, n)  == n < addr[r] \/ (n = addr[r] /\ pc[r] \notin {"ready", "hooked"})
Dialed(r, n) == n < addr[r] \/ (n = addr[r] /\ pc[r] \in {"ended", "over"})

Distinct(s)  == \A j, k \in DOMAIN s : s[j] = s[k] => j = k
Without(s, S) == \A k \in DOMAIN s : s[k] \notin S

\* The composed hook does what is due to each of its sets, and so does the one
\* installed; no observer is composed twice.
Composed ==
  /\ trace = None => asked = <<>> /\ hearing = <<>>
  /\ trace # None =>
       /\ trace.calls = asked
       /\ trace.func = None => hearing = <<>>
       /\ trace.func # None => trace.func = hearing
  /\ installed # None => installed.calls = asked /\ installed.func = hearing
  /\ Distinct(hearing) /\ Without(hearing, apart)

\* Where the attempts of a racer are.
Attempts ==
  \A r \in Racers :
    /\ installed = None => pc[r] = "ready" /\ addr[r] = 1
    /\ \A n \in 1..Addresses :
         /\ Dialed(r, n) <=> result[<<r, n>>] # None
         /\ Begun(r, n) => begun[<<r, n>>] = asked
         /\ ~Kept(r, n) => heard[<<r, n>>] = <<>> /\ connectDone # <<r, n>>

\* The func in hand is that of the attempt under way, or both met another.
Funcs ==
  \A r \in Racers : pc[r] \in {"dialing", "ended"} =>
    /\ connectDone \in Tries
    /\ connectDone = Try(r) \/ (connectDone \in overlapped /\ Try(r) \in overlapped)
    /\ Try(r) \notin overlapped => heard[Try(r)] = <<>>

\* Two attempts under way met each other.
Met ==
  \A r, s \in Racers : r # s /\ pc[r] \in Busy /\ pc[s] \in Busy => Try(r) \in overlapped

ToldOnce ==
  \A t \in Tries : Over(t) /\ t \notin overlapped => heard[t] = Report(result[t])

IInv == ConnectTypeOK /\ Composed /\ Attempts /\ Funcs /\ Met /\ ToldOnce

-----------------------------------------------------------------------------
\* What a report is, and that it goes to the end of what was heard.
LEMMA Reports ==
  ASSUME ConnectTypeOK, NEW x \in Results
  PROVE  /\ Report(x) \in Seq(Observers \X Results)
         /\ Len(Report(x)) = Len(hearing) /\ Len(hearing) \in Nat
         /\ DOMAIN hearing = 1..Len(hearing)
         /\ <<>> \o Report(x) = Report(x)
<1>1. Len(hearing) \in Nat /\ DOMAIN hearing = 1..Len(hearing)
      /\ \A k \in DOMAIN hearing : hearing[k] \in Observers
  BY DEF ConnectTypeOK
<1>2. Report(x) \in [1..Len(hearing) -> Observers \X Results]
  BY <1>1 DEF Report
<1>3. Report(x) \in Seq(Observers \X Results) /\ Len(Report(x)) = Len(hearing)
  BY <1>1, <1>2
<1> QED
  BY <1>1, <1>3

\* One observer more at the end of those there are, or before them.
LEMMA OneObserverMore ==
  ASSUME NEW s \in Seq(Observers), NEW S, NEW o \in S, o \in Observers,
         Distinct(s), Without(s, S),
         NEW u, u = s \o <<o>> \/ u = <<o>> \o s
  PROVE  Distinct(u) /\ Without(u, S \ {o})
<1> USE DEF Distinct, Without
<1>1. Len(s) \in Nat /\ DOMAIN s = 1..Len(s)
  OBVIOUS
<1>2. CASE u = s \o <<o>>
  <2>1. /\ DOMAIN u = 1..Len(s) + 1 /\ u[Len(s) + 1] = o
        /\ \A k \in DOMAIN s : u[k] = s[k]
    BY <1>1, <1>2
  <2>2. \A k \in DOMAIN u : k \in DOMAIN s \/ k = Len(s) + 1
    BY <1>1, <2>1
  <2> QED
    BY <2>1, <2>2
<1>3. CASE u = <<o>> \o s
  <2>1. /\ DOMAIN u = 1..Len(s) + 1 /\ u[1] = o
        /\ \A k \in DOMAIN u : k # 1 => u[k] = s[k - 1]
    BY <1>1, <1>3
  <2>2. \A k \in DOMAIN u : k # 1 => k - 1 \in DOMAIN s
    BY <1>1, <2>1
  <2>3. \A j, k \in DOMAIN u : u[j] = u[k] => j = k
    <3> SUFFICES ASSUME NEW j \in DOMAIN u, NEW k \in DOMAIN u, u[j] = u[k] PROVE j = k
      OBVIOUS
    <3>1. CASE j # 1 /\ k # 1
      <4>1. s[j - 1] = s[k - 1] /\ j - 1 \in DOMAIN s /\ k - 1 \in DOMAIN s
        BY <2>1, <2>2, <3>1
      <4>2. j - 1 = k - 1 /\ j \in Int /\ k \in Int
        BY <1>1, <2>1, <4>1
      <4> QED
        BY <4>2
    <3>2. CASE j = 1 \/ k = 1
      BY <2>1, <2>2, <3>2
    <3> QED
      BY <3>1, <3>2
  <2>4. \A k \in DOMAIN u : u[k] = o \/ u[k] \notin S
    BY <2>1, <2>2
  <2> QED
    BY <2>3, <2>4
<1> QED
  BY <1>2, <1>3

\* A set composed with what there is, on either side.
LEMMA ComposeStep ==
  ASSUME IInv, NEW o \in Observers, NEW kind \in HookKinds, ComposeSet(o, kind)
  PROVE  /\ trace' \in HooksOf(Observers) \cup {None}
         /\ asked' \in Seq(Observers) /\ hearing' \in Seq(Observers)
         /\ Composed'
<1> USE DEF HooksOf
<1>1. /\ installed = None /\ installed' = None /\ o \in apart /\ apart' = apart \ {o}
      /\ trace \in HooksOf(Observers) \cup {None}
      /\ asked \in Seq(Observers) /\ hearing \in Seq(Observers) /\ Composed
  BY DEF ComposeSet, IInv, ConnectTypeOK
<1>2. None \notin HooksOf(Observers) /\ None \notin Seq(Observers)
      /\ <<o>> \in Seq(Observers) /\ <<>> \in Seq(Observers)
  BY NoneAssumption
<1>3. \/ /\ trace' = Compose(trace, Hook(o, kind))
         /\ asked' = asked \o Asked(o, kind) /\ hearing' = hearing \o Hearing(o, kind)
      \/ /\ trace' = Compose(Hook(o, kind), trace)
         /\ asked' = Asked(o, kind) \o asked /\ hearing' = Hearing(o, kind) \o hearing
  BY DEF ComposeSet
<1>4. \A s \in Seq(Observers) : s \o <<>> = s /\ <<>> \o s = s
  OBVIOUS
<1>5. \A s, t \in Seq(Observers) : s \o t \in Seq(Observers)
  OBVIOUS
<1>6. asked' \in Seq(Observers) /\ hearing' \in Seq(Observers)
  <2>1. Asked(o, kind) \in Seq(Observers) /\ Hearing(o, kind) \in Seq(Observers)
    BY <1>2 DEF Asked, Hearing
  <2> QED
    BY <1>1, <1>3, <1>5, <2>1
<1>7. Distinct(hearing') /\ Without(hearing', apart')
  <2>1. CASE kind # "func"
    BY <1>1, <1>3, <1>4, <2>1 DEF Hearing, Composed, Without
  <2>2. CASE kind = "func"
    <3>1. hearing' = hearing \o <<o>> \/ hearing' = <<o>> \o hearing
      BY <1>3, <2>2 DEF Hearing
    <3>2. Distinct(hearing) /\ Without(hearing, apart)
      BY <1>1 DEF Composed
    <3>3. Distinct(hearing') /\ Without(hearing', apart \ {o})
      BY <1>1, <3>1, <3>2, OneObserverMore
    <3> QED
      BY <1>1, <3>3
  <2> QED
    BY <2>1, <2>2
<1>8. ASSUME NEW c \in Seq(Observers) \cup {None},
             trace' = [calls |-> asked', func |-> c],
             hearing' = IF c = None THEN <<>> ELSE c
      PROVE  trace' \in HooksOf(Observers) /\ Composed'
  <2>1. trace' \in HooksOf(Observers) /\ trace' # None
    BY <1>2, <1>6, <1>8
  <2>2. /\ trace'.calls = asked'
        /\ trace'.func = None => hearing' = <<>>
        /\ trace'.func # None => trace'.func = hearing'
    BY <1>8
  <2> QED
    BY <1>1, <1>7, <2>1, <2>2 DEF Composed
<1>9. CASE kind = "nil"
  <2>1. Hook(o, kind) = None /\ trace' = trace
    BY <1>3, <1>9 DEF Hook, Compose
  <2>2. asked' = asked /\ hearing' = hearing
    BY <1>1, <1>3, <1>4, <1>9 DEF Asked, Hearing
  <2> QED
    BY <1>1, <1>6, <1>7, <2>1, <2>2 DEF Composed
<1>10. CASE kind # "nil"
  <2> DEFINE f == IF kind = "silent" THEN None ELSE <<o>>
             h == Hook(o, kind)
             heardBy(a) == IF a = None THEN <<>> ELSE a
  <2>1. h = [calls |-> <<o>>, func |-> f] /\ f \in Seq(Observers) \cup {None}
    BY <1>2, <1>10 DEF Hook
  <2>2. h \in HooksOf(Observers) /\ h # None
    <3>1. [calls |-> <<o>>, func |-> f] \in HooksOf(Observers)
      BY <1>2, <2>1
    <3> QED
      BY <1>2, <2>1, <3>1
  <2>3. Asked(o, kind) = <<o>> /\ Hearing(o, kind) = heardBy(f)
    BY <1>2, <1>10 DEF Asked, Hearing, HookKinds
  <2> HIDE DEF f, h
  <2>4. CASE trace = None
    <3>1. trace' = h
      BY <1>3, <2>4, <2>2 DEF Compose, h
    <3>2. asked' = <<o>> /\ hearing' = heardBy(f)
      BY <1>1, <1>2, <1>3, <1>4, <2>1, <2>3, <2>4 DEF Composed
    <3> QED
      BY <1>6, <1>8, <2>1, <3>1, <3>2
  <2>5. CASE trace # None
    <3> DEFINE g == trace.func
    <3>1. trace.calls = asked /\ hearing = heardBy(g) /\ g \in Seq(Observers) \cup {None}
      BY <1>1, <2>5 DEF Composed
    <3> HIDE DEF g
    <3>2. ASSUME NEW a \in Seq(Observers) \cup {None}, NEW b \in Seq(Observers) \cup {None}
          PROVE  /\ ComposeFuncs(a, b) \in Seq(Observers) \cup {None}
                 /\ heardBy(ComposeFuncs(a, b)) = heardBy(a) \o heardBy(b)
      <4>1. CASE a = None
        BY <1>2, <1>4, <4>1 DEF ComposeFuncs
      <4>2. CASE b = None
        BY <1>2, <1>4, <4>2 DEF ComposeFuncs
      <4>3. CASE a # None /\ b # None
        <5>1. ComposeFuncs(a, b) = a \o b /\ a \o b \in Seq(Observers)
          BY <1>5, <4>3 DEF ComposeFuncs
        <5> QED
          BY <1>2, <4>3, <5>1
      <4> QED
        BY <4>1, <4>2, <4>3
    <3>3. CASE trace' = Compose(trace, h) /\ asked' = asked \o <<o>>
               /\ hearing' = hearing \o heardBy(f)
      <4>1. trace' = [calls |-> asked \o <<o>>, func |-> ComposeFuncs(g, f)]
        BY <2>1, <2>2, <2>5, <3>1, <3>3 DEF Compose, g
      <4> QED
        BY <1>6, <1>8, <2>1, <3>1, <3>2, <3>3, <4>1
    <3>4. CASE trace' = Compose(h, trace) /\ asked' = <<o>> \o asked
               /\ hearing' = heardBy(f) \o hearing
      <4>1. trace' = [calls |-> <<o>> \o asked, func |-> ComposeFuncs(f, g)]
        BY <2>1, <2>2, <2>5, <3>1, <3>4 DEF Compose, g
      <4> QED
        BY <1>6, <1>8, <2>1, <3>1, <3>2, <3>4, <4>1
    <3> QED
      BY <1>3, <2>3, <3>3, <3>4 DEF h
  <2> QED
    BY <1>6, <2>4, <2>5
<1> QED
  BY <1>9, <1>10

\* What the client installs does what was composed, and a hook that is nil is
\* one to call.
LEMMA InstallStep ==
  ASSUME IInv, Install
  PROVE  /\ installed' \in HooksOf(Observers) /\ installed' # None
         /\ Composed'
<1> USE DEF HooksOf
<1> DEFINE t == onConnect(trace)
<1>1. /\ trace \in HooksOf(Observers) \cup {None} /\ Composed
      /\ asked \in Seq(Observers) /\ hearing \in Seq(Observers)
      /\ UNCHANGED <<trace, apart, asked, hearing>> /\ installed' = Installed(trace)
  BY DEF Install, IInv, ConnectTypeOK
<1>2. None \notin HooksOf(Observers) /\ None \notin Seq(Observers) /\ <<>> \in Seq(Observers)
  BY NoneAssumption
<1>3. t = [calls |-> asked, func |-> hearing]
  <2>1. CASE trace = None
    BY <1>1, <2>1 DEF onConnect, Composed
  <2>2. CASE trace # None
    BY <1>1, <2>2 DEF onConnect, Composed
  <2> QED
    BY <2>1, <2>2
<1>4. t \in HooksOf(Observers) /\ t # None /\ t.func # None
  BY <1>1, <1>2, <1>3
<1> HIDE DEF t
<1>5. installed' = t
  <2>1. installed' = onConnect(t)
    BY <1>1, <1>4 DEF Installed, ComposeRoundTripper, Compose, DumpOnConnect, t
  <2> QED
    BY <1>3, <1>4, <2>1 DEF onConnect
<1> QED
  BY <1>1, <1>3, <1>4, <1>5 DEF Composed

\* Nothing is composed, and nobody dials.
LEMMA InitIInv == Init => IInv
<1> SUFFICES ASSUME Init PROVE IInv
  OBVIOUS
<1>1. <<>> \in Seq(Observers) /\ <<>> \in Seq(Observers \X Results) /\ 1 \in 1..Addresses
  BY DialerAssumption
<1>2. ConnectTypeOK
  BY <1>1 DEF Init, ConnectTypeOK
<1>3. Composed
  BY DEF Init, Composed, Distinct, Without
<1>4. Attempts
  BY NoneAssumption DEF Init, Attempts, Dialed, Begun, Kept, Tries
<1>5. Funcs /\ Met /\ ToldOnce
  BY DEF Init, Funcs, Met, ToldOnce, Over, Busy, Tries
<1> QED
  BY <1>2, <1>3, <1>4, <1>5 DEF IInv

\* While sets are composed and installed nobody dials.
LEMMA SetStep ==
  ASSUME IInv, Install \/ \E o \in Observers, kind \in HookKinds : ComposeSet(o, kind)
  PROVE  IInv'
<1>1. /\ trace' \in HooksOf(Observers) \cup {None} /\ apart' \subseteq Observers
      /\ asked' \in Seq(Observers) /\ hearing' \in Seq(Observers)
      /\ installed' \in HooksOf(Observers) \cup {None}
      /\ Composed'
  <2>1. CASE Install
    BY <2>1, InstallStep DEF Install, IInv, ConnectTypeOK
  <2>2. CASE \E o \in Observers, kind \in HookKinds : ComposeSet(o, kind)
    BY <2>2, ComposeStep DEF ComposeSet, IInv, ConnectTypeOK
  <2> QED
    BY <2>1, <2>2
<1>2. installed = None /\ UNCHANGED dialVars
  BY DEF Install, ComposeSet
<1>3. ConnectTypeOK'
  BY <1>1, <1>2 DEF dialVars, IInv, ConnectTypeOK
<1>4. \A r \in Racers : pc[r] = "ready" /\ addr[r] = 1
  BY <1>2 DEF IInv, Attempts
<1>5. Attempts'
  BY <1>2, <1>4 DEF dialVars, IInv, Attempts, Dialed, Begun, Kept
<1>6. Funcs' /\ Met'
  BY <1>2, <1>4 DEF dialVars, Funcs, Met, Busy
<1>7. ToldOnce'
  <2>1. \A t \in Tries : result[t] = None
    BY <1>4 DEF IInv, Attempts, Dialed, Tries
  <2> QED
    BY <1>2, <2>1 DEF dialVars, ToldOnce, Over
<1> QED
  BY <1>1, <1>3, <1>5, <1>6, <1>7 DEF IInv

\* An attempt begins: its observers are told, and it meets those under way.
LEMMA ConnectStartStep == ASSUME IInv, NEW r \in Racers, ConnectStart(r) PROVE IInv'
<1>0. /\ pc \in [Racers -> Places] /\ addr \in [Racers -> 1..Addresses]
      /\ begun \in [Tries -> Seq(Observers)] /\ overlapped \subseteq Tries
      /\ pc[r] = "ready" /\ Try(r) \in Tries /\ addr[r] \in 1..Addresses
      /\ Addresses \in Nat
  BY DialerAssumption DEF ConnectStart, IInv, ConnectTypeOK, Places, Tries, Try
<1>1. /\ pc' = [pc EXCEPT ![r] = "hooked"] /\ UNCHANGED <<setVars, addr, connectDone, result, heard>>
      /\ begun' = [begun EXCEPT ![Try(r)] = asked]
      /\ overlapped' = IF Under = {} THEN overlapped ELSE overlapped \cup Under \cup {Try(r)}
      /\ installed # None
  BY DEF ConnectStart, IInv, Composed
<1>2. Under \subseteq Tries
  BY <1>0 DEF Under, Try, Tries
<1>3. overlapped \subseteq overlapped' /\ overlapped' \subseteq Tries
  BY <1>0, <1>1, <1>2
<1>4. ConnectTypeOK'
  BY <1>0, <1>1, <1>3 DEF setVars, IInv, ConnectTypeOK, Places
<1>5. Composed'
  BY <1>1 DEF setVars, IInv, Composed
<1>6. Attempts'
  <2> SUFFICES ASSUME NEW s \in Racers, NEW n \in 1..Addresses
               PROVE  /\ (Dialed(s, n) <=> result[<<s, n>>] # None)'
                      /\ (Begun(s, n) => begun[<<s, n>>] = asked)'
                      /\ (~Kept(s, n) => heard[<<s, n>>] = <<>> /\ connectDone # <<s, n>>)'
    BY <1>1 DEF Attempts, setVars
  <2>1. /\ Dialed(s, n) <=> result[<<s, n>>] # None
        /\ Begun(s, n) => begun[<<s, n>>] = asked
        /\ ~Kept(s, n) => heard[<<s, n>>] = <<>> /\ connectDone # <<s, n>>
    BY DEF IInv, Attempts
  <2>2. <<s, n>> \in Tries
    BY DEF Tries
  <2>3. CASE s = r
    BY <1>0, <1>1, <2>1, <2>2, <2>3 DEF setVars, Dialed, Begun, Kept, Try
  <2>4. CASE s # r
    BY <1>0, <1>1, <2>1, <2>2, <2>4 DEF setVars, Dialed, Begun, Kept, Try
  <2> QED
    BY <2>3, <2>4
<1>7. Funcs'
  BY <1>0, <1>1, <1>3 DEF IInv, Funcs, Try
<1>8. Met'
  <2> SUFFICES ASSUME NEW p \in Racers, NEW q \in Racers, p # q,
                      pc'[p] \in Busy, pc'[q] \in Busy
               PROVE  Try(p) \in overlapped'
    BY <1>1 DEF Met, Try
  <2>1. CASE p # r /\ q # r
    BY <1>0, <1>1, <1>3, <2>1 DEF IInv, Met
  <2>2. CASE p = r
    BY <1>0, <1>1, <2>2 DEF Under, Busy
  <2>3. CASE q = r
    BY <1>0, <1>1, <2>3 DEF Under, Busy
  <2> QED
    BY <2>1, <2>2, <2>3
<1>9. ToldOnce'
  <2> SUFFICES ASSUME NEW t \in Tries, Over(t)', t \notin overlapped'
               PROVE  heard[t] = Report(result[t])
    BY <1>1 DEF ToldOnce, Report, setVars
  <2>1. Over(t)
    BY <1>0, <1>1 DEF Over, Tries
  <2> QED
    BY <1>3, <2>1 DEF IInv, ToldOnce
<1> QED
  BY <1>4, <1>5, <1>6, <1>7, <1>8, <1>9 DEF IInv

\* Whoever else is under way has met this attempt, whose func takes the place.
LEMMA KeepStep == ASSUME IInv, NEW r \in Racers, Keep(r) PROVE IInv'
<1>0. /\ pc \in [Racers -> Places] /\ addr \in [Racers -> 1..Addresses]
      /\ pc[r] = "hooked" /\ Try(r) \in Tries /\ addr[r] \in 1..Addresses
      /\ Addresses \in Nat /\ installed # None
  BY DialerAssumption DEF Keep, IInv, ConnectTypeOK, Attempts, Places, Tries, Try
<1>1. /\ pc' = [pc EXCEPT ![r] = "dialing"] /\ connectDone' = Try(r)
      /\ UNCHANGED <<setVars, addr, result, begun, heard, overlapped>>
  BY DEF Keep
<1>2. ConnectTypeOK' /\ Composed'
  BY <1>0, <1>1 DEF setVars, IInv, ConnectTypeOK, Composed, Places
<1>3. Attempts'
  <2> SUFFICES ASSUME NEW s \in Racers, NEW n \in 1..Addresses
               PROVE  /\ (Dialed(s, n) <=> result[<<s, n>>] # None)'
                      /\ (Begun(s, n) => begun[<<s, n>>] = asked)'
                      /\ (~Kept(s, n) => heard[<<s, n>>] = <<>> /\ connectDone # <<s, n>>)'
    BY <1>0, <1>1 DEF Attempts, setVars
  <2>1. /\ Dialed(s, n) <=> result[<<s, n>>] # None
        /\ Begun(s, n) => begun[<<s, n>>] = asked
        /\ ~Kept(s, n) => heard[<<s, n>>] = <<>> /\ connectDone # <<s, n>>
    BY DEF IInv, Attempts
  <2>2. CASE s = r
    BY <1>0, <1>1, <2>1, <2>2 DEF setVars, Dialed, Begun, Kept, Try
  <2>3. CASE s # r
    BY <1>0, <1>1, <2>1, <2>3 DEF setVars, Dialed, Begun, Kept, Try
  <2> QED
    BY <2>2, <2>3
<1>4. Funcs'
  <2> SUFFICES ASSUME NEW s \in Racers, pc'[s] \in {"dialing", "ended"}
               PROVE  /\ Try(r) = Try(s) \/ (Try(r) \in overlapped /\ Try(s) \in overlapped)
                      /\ Try(s) \notin overlapped => heard[Try(s)] = <<>>
    BY <1>0, <1>1 DEF Funcs, Try
  <2>1. CASE s = r
    <3>1. ~Kept(r, addr[r])
      BY <1>0 DEF Kept
    <3>2. heard[<<r, addr[r]>>] = <<>>
      BY <1>0, <3>1 DEF IInv, Attempts
    <3> QED
      BY <2>1, <3>2 DEF Try
  <2>2. CASE s # r
    <3>1. pc[s] \in {"dialing", "ended"}
      BY <1>0, <1>1, <2>2
    <3> QED
      BY <1>0, <2>2, <3>1 DEF IInv, Funcs, Met, Busy
  <2> QED
    BY <2>1, <2>2
<1>5. Met'
  BY <1>0, <1>1 DEF IInv, Met, Busy, Try
<1>6. ToldOnce'
  <2> SUFFICES ASSUME NEW t \in Tries, Over(t)', t \notin overlapped
               PROVE  heard[t] = Report(result[t])
    BY <1>1 DEF ToldOnce, Report, setVars
  <2>1. Over(t)
    BY <1>0, <1>1 DEF Over, Tries
  <2> QED
    BY <2>1 DEF IInv, ToldOnce
<1> QED
  BY <1>2, <1>3, <1>4, <1>5, <1>6 DEF IInv

\* An attempt ends, and is not over before its ConnectDone was called.
LEMMA DialStep == ASSUME IInv, NEW r \in Racers, Dial(r) PROVE IInv'
<1>0. /\ pc \in [Racers -> Places] /\ addr \in [Racers -> 1..Addresses]
      /\ result \in [Tries -> Results \cup {None}]
      /\ pc[r] = "dialing" /\ Try(r) \in Tries /\ addr[r] \in 1..Addresses
      /\ Addresses \in Nat /\ installed # None
  BY DialerAssumption DEF Dial, IInv, ConnectTypeOK, Attempts, Places, Tries, Try
<1>1. PICK x \in Results : result' = [result EXCEPT ![Try(r)] = x]
  BY DEF Dial
<1>2. /\ pc' = [pc EXCEPT ![r] = "ended"] /\ x # None
      /\ UNCHANGED <<setVars, addr, connectDone, begun, heard, overlapped>>
  BY NoneAssumption DEF Dial
<1>3. ConnectTypeOK' /\ Composed'
  BY <1>0, <1>1, <1>2 DEF setVars, IInv, ConnectTypeOK, Composed, Places
<1>4. Attempts'
  <2> SUFFICES ASSUME NEW s \in Racers, NEW n \in 1..Addresses
               PROVE  /\ (Dialed(s, n) <=> result[<<s, n>>] # None)'
                      /\ (Begun(s, n) => begun[<<s, n>>] = asked)'
                      /\ (~Kept(s, n) => heard[<<s, n>>] = <<>> /\ connectDone # <<s, n>>)'
    BY <1>0, <1>2 DEF Attempts, setVars
  <2>1. /\ Dialed(s, n) <=> result[<<s, n>>] # None
        /\ Begun(s, n) => begun[<<s, n>>] = asked
        /\ ~Kept(s, n) => heard[<<s, n>>] = <<>> /\ connectDone # <<s, n>>
    BY DEF IInv, Attempts
  <2>2. <<s, n>> \in Tries
    BY DEF Tries
  <2>3. CASE s = r
    BY <1>0, <1>1, <1>2, <2>1, <2>2, <2>3 DEF setVars, Dialed, Begun, Kept, Try
  <2>4. CASE s # r
    BY <1>0, <1>1, <1>2, <2>1, <2>2, <2>4 DEF setVars, Dialed, Begun, Kept, Try
  <2> QED
    BY <2>3, <2>4
<1>5. Funcs'
  BY <1>0, <1>2 DEF IInv, Funcs, Try
<1>6. Met'
  BY <1>0, <1>2 DEF IInv, Met, Busy, Try
<1>7. ToldOnce'
  <2> SUFFICES ASSUME NEW t \in Tries, Over(t)', t \notin overlapped
               PROVE  heard[t] = Report(result'[t])
    BY <1>2 DEF ToldOnce, Report, setVars
  <2>1. t # Try(r)
    BY <1>0, <1>2 DEF Over, Try
  <2>2. result'[t] = result[t] /\ Over(t)
    <3>1. result'[t] = result[t]
      BY <1>0, <1>1, <2>1
    <3>2. CASE t[1] = r
      <4>1. t[2] # addr[r]
        BY <2>1, <3>2 DEF Tries, Try
      <4> QED
        BY <1>0, <1>2, <3>1, <3>2, <4>1 DEF Over
    <3>3. CASE t[1] # r
      BY <1>0, <1>2, <3>1, <3>3 DEF Over, Tries
    <3> QED
      BY <3>1, <3>2, <3>3
  <2> QED
    BY <2>2 DEF IInv, ToldOnce
<1> QED
  BY <1>3, <1>4, <1>5, <1>6, <1>7 DEF IInv

\* The func in hand tells the end of this attempt: it is its own, or both met.
LEMMA ConnectDoneStep == ASSUME IInv, NEW r \in Racers, ConnectDone(r) PROVE IInv'
<1> DEFINE c == connectDone
           x == result[Try(r)]
<1>0. /\ pc \in [Racers -> Places] /\ addr \in [Racers -> 1..Addresses]
      /\ heard \in [Tries -> Seq(Observers \X Results)]
      /\ pc[r] = "ended" /\ Try(r) \in Tries /\ addr[r] \in 1..Addresses
      /\ Addresses \in Nat /\ installed # None /\ c \in Tries
  BY DialerAssumption DEF ConnectDone, IInv, ConnectTypeOK, Attempts, Funcs, Places, Tries, Try
<1>1. x \in Results /\ Report(x) \in Seq(Observers \X Results) /\ <<>> \o Report(x) = Report(x)
  <2>1. Dialed(r, addr[r]) <=> result[<<r, addr[r]>>] # None
    BY <1>0 DEF IInv, Attempts
  <2>2. x \in Results
    BY <1>0, <2>1 DEF Dialed, Try, IInv, ConnectTypeOK
  <2> QED
    BY <2>2, Reports DEF IInv
<1>2. /\ heard' = [heard EXCEPT ![c] = @ \o Report(x)]
      /\ UNCHANGED <<setVars, connectDone, result, begun, overlapped>>
  BY <1>0 DEF ConnectDone, Heard, Report, IInv, Composed
<1>3. \/ /\ addr[r] < Addresses
         /\ addr' = [addr EXCEPT ![r] = addr[r] + 1] /\ pc' = [pc EXCEPT ![r] = "ready"]
      \/ addr' = addr /\ pc' = [pc EXCEPT ![r] = "over"]
  BY <1>0 DEF ConnectDone
<1>4. addr' \in [Racers -> 1..Addresses] /\ pc' \in [Racers -> Places]
  <2>1. addr[r] < Addresses => addr[r] + 1 \in 1..Addresses
    BY <1>0
  <2>2. "ready" \in Places /\ "over" \in Places
    BY DEF Places
  <2> QED
    BY <1>0, <1>3, <2>1, <2>2
<1>5. heard' \in [Tries -> Seq(Observers \X Results)]
  <2>1. heard[c] \o Report(x) \in Seq(Observers \X Results)
    BY <1>0, <1>1
  <2> QED
    BY <1>0, <1>2, <2>1
<1>6. ConnectTypeOK' /\ Composed'
  BY <1>2, <1>4, <1>5 DEF setVars, IInv, ConnectTypeOK, Composed, Places
<1>7. ASSUME NEW s \in Racers, s # r PROVE pc'[s] = pc[s] /\ addr'[s] = addr[s]
  BY <1>0, <1>3, <1>7
<1>8. /\ \/ addr'[r] = addr[r] + 1 /\ pc'[r] = "ready"
         \/ addr'[r] = addr[r] /\ pc'[r] = "over"
      /\ addr[r] \in Int
  BY <1>0, <1>3
<1>9. Attempts'
  <2> SUFFICES ASSUME NEW s \in Racers, NEW n \in 1..Addresses
               PROVE  /\ (Dialed(s, n) <=> result[<<s, n>>] # None)'
                      /\ (Begun(s, n) => begun[<<s, n>>] = asked)'
                      /\ (~Kept(s, n) => heard[<<s, n>>] = <<>> /\ connectDone # <<s, n>>)'
    BY <1>0, <1>2 DEF Attempts, setVars
  <2>1. /\ Dialed(s, n) <=> result[<<s, n>>] # None
        /\ Begun(s, n) => begun[<<s, n>>] = asked
        /\ ~Kept(s, n) => heard[<<s, n>>] = <<>> /\ connectDone # <<s, n>>
    BY DEF IInv, Attempts
  <2>2. <<s, n>> \in Tries /\ n \in Int
    BY <1>0 DEF Tries
  <2>3. (Dialed(s, n)' <=> Dialed(s, n)) /\ (Begun(s, n)' <=> Begun(s, n)) /\ (Kept(s, n)' <=> Kept(s, n))
    <3>1. CASE s = r
      BY <1>0, <1>8, <2>2, <3>1 DEF Dialed, Begun, Kept
    <3>2. CASE s # r
      BY <1>7, <3>2 DEF Dialed, Begun, Kept
    <3> QED
      BY <3>1, <3>2
  <2>4. ~Kept(s, n) => heard'[<<s, n>>] = heard[<<s, n>>]
    BY <1>0, <1>2, <2>1, <2>2
  <2> QED
    BY <1>2, <2>1, <2>3, <2>4 DEF setVars
<1>10. Met'
  BY <1>2, <1>7, <1>8 DEF IInv, Met, Busy, Try
<1>11. Funcs'
  <2> SUFFICES ASSUME NEW s \in Racers, pc'[s] \in {"dialing", "ended"}
               PROVE  /\ c \in Tries
                      /\ c = Try(s)' \/ (c \in overlapped /\ Try(s)' \in overlapped)
                      /\ Try(s)' \notin overlapped => heard'[Try(s)'] = <<>>
    BY <1>2 DEF Funcs
  <2>1. s # r
    BY <1>8
  <2>2. pc[s] \in {"dialing", "ended"} /\ Try(s)' = Try(s)
    BY <1>7, <2>1 DEF Try
  <2>3. Try(s) \in overlapped
    BY <1>0, <2>1, <2>2 DEF IInv, Met, Busy
  <2> QED
    BY <2>2, <2>3 DEF IInv, Funcs
<1>12. ToldOnce'
  <2> SUFFICES ASSUME NEW t \in Tries, Over(t)', t \notin overlapped
               PROVE  heard'[t] = Report(result[t])
    BY <1>2 DEF ToldOnce, Report, setVars
  <2>0. c = Try(r) \/ (c \in overlapped /\ Try(r) \in overlapped)
    BY <1>0 DEF IInv, Funcs
  <2>1. CASE t = Try(r)
    <3>1. c = t /\ heard[t] = <<>>
      BY <1>0, <2>0, <2>1 DEF IInv, Funcs
    <3> QED
      BY <1>0, <1>1, <1>2, <2>1, <3>1
  <2>2. CASE t # Try(r)
    <3>1. c # t /\ heard'[t] = heard[t]
      BY <1>0, <1>2, <2>0, <2>2
    <3>2. Over(t)
      <4>1. CASE t[1] = r
        <5>1. t[2] # addr[r]
          BY <2>2, <4>1 DEF Tries, Try
        <5> QED
          BY <1>2, <4>1, <5>1 DEF Over
      <4>2. CASE t[1] # r
        BY <1>2, <1>7, <4>2 DEF Over, Tries
      <4> QED
        BY <4>1, <4>2
    <3> QED
      BY <3>1, <3>2 DEF IInv, ToldOnce
  <2> QED
    BY <2>1, <2>2
<1> QED
  BY <1>6, <1>9, <1>10, <1>11, <1>12 DEF IInv

\* Every step keeps what was said.
LEMMA Step == IInv /\ [Next]_vars => IInv'
<1> SUFFICES ASSUME IInv, [Next]_vars PROVE IInv'
  OBVIOUS
<1>1. CASE Install \/ \E o \in Observers, kind \in HookKinds : ComposeSet(o, kind)
  BY <1>1, SetStep
<1>2. ASSUME NEW r \in Racers, ConnectStart(r) \/ Keep(r) \/ Dial(r) \/ ConnectDone(r)
      PROVE  IInv'
  BY <1>2, ConnectStartStep, KeepStep, DialStep, ConnectDoneStep
<1>3. CASE UNCHANGED vars
  <2>1. UNCHANGED <<trace, apart, asked, hearing, installed, pc, addr, connectDone,
                    result, begun, heard, overlapped>>
    BY <1>3 DEF vars, setVars, dialVars
  <2>2. ConnectTypeOK' /\ Composed'
    BY <2>1 DEF IInv, ConnectTypeOK, Composed
  <2>3. Attempts' /\ Funcs' /\ Met'
    BY <2>1 DEF IInv, Attempts, Funcs, Met, Dialed, Begun, Kept, Try
  <2>4. ToldOnce'
    BY <2>1 DEF IInv, ToldOnce, Over, Report
  <2> QED
    BY <2>2, <2>3, <2>4 DEF IInv
<1> QED
  BY <1>1, <1>2, <1>3 DEF Next, AllOver

\* Who is told what holds from the first state on: the induction of the rest.
THEOREM Inductive == Spec => []IInv
<1> QED
  BY InitIInv, Step, PTL DEF Spec

-----------------------------------------------------------------------------
\* The variables have their types in every state.
THEOREM TypeCorrect == Spec => []ConnectTypeOK
<1>1. IInv => ConnectTypeOK
  BY DEF IInv
<1> QED
  BY <1>1, Inductive, PTL

\* An attempt that met no other is told to the observers composed, in their
\* order: of its beginning, and once of its own end.
THEOREM Undisturbed == Spec => []UndisturbedTold
<1>1. IInv => UndisturbedTold
  <2> SUFFICES ASSUME IInv, NEW t \in Tries, Over(t), t \notin overlapped
               PROVE  /\ begun[t] = asked
                      /\ heard[t] = [k \in DOMAIN hearing |-> <<hearing[k], result[t]>>]
    BY DEF UndisturbedTold
  <2>1. t[1] \in Racers /\ t[2] \in 1..Addresses /\ t = <<t[1], t[2]>>
    BY DEF Tries
  <2>2. Dialed(t[1], t[2]) /\ (Begun(t[1], t[2]) => begun[t] = asked)
    BY <2>1 DEF IInv, Attempts, Over
  <2>3. Begun(t[1], t[2])
    BY <2>2 DEF Dialed, Begun
  <2> QED
    BY <2>2, <2>3 DEF IInv, ToldOnce, Report
<1> QED
  BY <1>1, Inductive, PTL

-----------------------------------------------------------------------------
\* The ends an observer heard of, and the attempts that are over.
EndsOf(o) == UNION {{t} \X Ends(t, o) : t \in Tries}
OverTries == {t \in Tries : Over(t)}

\* EndsBalance, and what makes it one of numbers.
Balanced ==
  \A k \in DOMAIN hearing :
    IsFiniteSet(EndsOf(hearing[k])) /\ Cardinality(EndsOf(hearing[k])) = Cardinality(OverTries)

\* There are so many attempts, and no more of them are over.
LEMMA FiniteTries == IsFiniteSet(Tries) /\ IsFiniteSet(OverTries)
<1>1. IsFiniteSet(1..Addresses)
  BY DialerAssumption, FS_Interval
<1>2. IsFiniteSet(Tries)
  BY <1>1, DialerAssumption, FS_Product DEF Tries
<1> QED
  BY <1>2, FS_Subset DEF OverTries

\* Before the first attempt nobody heard of an end, and there was none.
LEMMA SetBalanced ==
  ASSUME IInv, Install \/ \E o \in Observers, kind \in HookKinds : ComposeSet(o, kind)
  PROVE  Balanced'
<1>1. installed = None /\ UNCHANGED dialVars
  BY DEF Install, ComposeSet
<1>2. \A t \in Tries : heard[t] = <<>> /\ result[t] = None
  BY <1>1 DEF IInv, Attempts, Dialed, Kept, Tries
<1>3. \A t \in Tries : heard'[t] = <<>> /\ result'[t] = None
  BY <1>1, <1>2 DEF dialVars
<1>4. OverTries' = {}
  BY <1>3 DEF OverTries, Over
<1>5. ASSUME NEW o PROVE EndsOf(o)' = {}
  BY <1>3 DEF EndsOf, Ends
<1> QED
  BY <1>4, <1>5, FS_EmptySet DEF Balanced

\* Of the steps of a racer, the last one alone ends an attempt.
LEMMA RacerBalanced ==
  ASSUME IInv, Balanced, NEW r \in Racers, ConnectStart(r) \/ Keep(r) \/ Dial(r)
  PROVE  Balanced'
<1>0. /\ pc \in [Racers -> Places] /\ addr \in [Racers -> 1..Addresses]
      /\ result \in [Tries -> Results \cup {None}] /\ Try(r) \in Tries
  BY DEF IInv, ConnectTypeOK, Places, Tries, Try
<1>1. UNCHANGED <<hearing, heard, addr>>
  BY DEF ConnectStart, Keep, Dial, setVars
<1>2. OverTries' = OverTries
  <2> SUFFICES ASSUME NEW t \in Tries PROVE Over(t)' <=> Over(t)
    BY DEF OverTries
  <2>0. t[1] \in Racers /\ t[2] \in 1..Addresses /\ t = <<t[1], t[2]>>
    BY DEF Tries
  <2>1. CASE ConnectStart(r) \/ Keep(r)
    BY <1>0, <2>0, <2>1 DEF ConnectStart, Keep, Over
  <2>2. CASE Dial(r)
    <3>1. PICK x \in Results : result' = [result EXCEPT ![Try(r)] = x]
      BY <2>2 DEF Dial
    <3>2. pc[r] = "dialing" /\ pc' = [pc EXCEPT ![r] = "ended"] /\ addr' = addr
      BY <2>2 DEF Dial
    <3>3. CASE t = Try(r)
      <4>1. Dialed(r, addr[r]) <=> result[<<r, addr[r]>>] # None
        BY <1>0 DEF IInv, Attempts
      <4> QED
        BY <1>0, <3>2, <3>3, <4>1 DEF Over, Dialed, Try
    <3>4. CASE t # Try(r)
      <4>1. result'[t] = result[t]
        BY <1>0, <3>1, <3>4
      <4>2. t[1] = r => t[2] # addr[r]
        BY <2>0, <3>4 DEF Try
      <4> QED
        BY <1>0, <2>0, <3>2, <4>1, <4>2 DEF Over
    <3> QED
      BY <3>3, <3>4
  <2> QED
    BY <2>1, <2>2
<1>3. ASSUME NEW o PROVE EndsOf(o)' = EndsOf(o)
  BY <1>1 DEF EndsOf, Ends
<1> QED
  BY <1>1, <1>2, <1>3 DEF Balanced

\* One attempt more is over, and each observer heard of one end more.
LEMMA ConnectDoneBalanced ==
  ASSUME IInv, Balanced, NEW r \in Racers, ConnectDone(r)
  PROVE  Balanced'
<1>c. PICK c \in Tries : c = connectDone
  BY DEF ConnectDone, IInv, Funcs
<1>n. PICK n, x : n = Len(heard[c]) /\ x = result[Try(r)]
  OBVIOUS
<1>0. /\ pc \in [Racers -> Places] /\ addr \in [Racers -> 1..Addresses]
      /\ heard \in [Tries -> Seq(Observers \X Results)]
      /\ pc[r] = "ended" /\ Try(r) \in Tries /\ addr[r] \in 1..Addresses
      /\ Addresses \in Nat /\ installed # None
  BY DialerAssumption DEF ConnectDone, IInv, ConnectTypeOK, Attempts, Places, Tries, Try
<1>1. x \in Results /\ x # None
  <2>1. Dialed(r, addr[r]) <=> result[<<r, addr[r]>>] # None
    BY <1>0 DEF IInv, Attempts
  <2> QED
    BY <1>0, <1>n, <2>1 DEF Dialed, Try, IInv, ConnectTypeOK
<1>2. /\ heard' = [heard EXCEPT ![c] = @ \o Report(x)]
      /\ UNCHANGED <<hearing, result>>
  BY <1>0, <1>c, <1>n DEF ConnectDone, Heard, Report, IInv, Composed, setVars
<1>3. /\ \A s \in Racers : s # r => pc'[s] = pc[s] /\ addr'[s] = addr[s]
      /\ \/ addr'[r] = addr[r] + 1 /\ pc'[r] = "ready"
         \/ addr'[r] = addr[r] /\ pc'[r] = "over"
  BY <1>0 DEF ConnectDone
<1>4. OverTries' = OverTries \cup {Try(r)} /\ Try(r) \notin OverTries
  <2> SUFFICES ASSUME NEW t \in Tries
               PROVE  Over(t)' <=> Over(t) \/ t = Try(r)
    <3>1. ~Over(Try(r))
      BY <1>0 DEF Over, Try
    <3> QED
      BY <1>0, <3>1 DEF OverTries
  <2>0. t[1] \in Racers /\ t[2] \in 1..Addresses /\ t = <<t[1], t[2]>>
    BY DEF Tries
  <2>1. CASE t = Try(r)
    BY <1>1, <1>2, <1>3, <1>n, <2>1 DEF Over, Try
  <2>2. CASE t # Try(r)
    <3>1. CASE t[1] = r
      <4>1. t[2] # addr[r]
        BY <2>0, <2>2, <3>1 DEF Try
      <4> QED
        BY <1>2, <1>3, <2>2, <3>1, <4>1 DEF Over
    <3>2. CASE t[1] # r
      BY <1>2, <1>3, <2>0, <2>2, <3>2 DEF Over
    <3> QED
      BY <3>1, <3>2
  <2> QED
    BY <2>1, <2>2
<1>5. Cardinality(OverTries') = Cardinality(OverTries) + 1
  BY <1>4, FiniteTries, FS_AddElement
<1>6. SUFFICES ASSUME NEW j \in DOMAIN hearing, NEW o, o = hearing[j]
      PROVE  /\ IsFiniteSet(EndsOf(o)')
             /\ Cardinality(EndsOf(o)') = Cardinality(OverTries')
  BY <1>2 DEF Balanced
<1>7. /\ n \in Nat /\ DOMAIN heard[c] = 1..n /\ DOMAIN heard'[c] = 1..n + Len(hearing)
      /\ DOMAIN hearing = 1..Len(hearing) /\ Len(hearing) \in Nat
      /\ \A k \in 1..n : heard'[c][k] = heard[c][k]
      /\ \A k \in n + 1..n + Len(hearing) : heard'[c][k] = <<hearing[k - n], x>>
  <2>1. /\ Report(x) \in Seq(Observers \X Results) /\ Len(Report(x)) = Len(hearing)
        /\ Len(hearing) \in Nat /\ DOMAIN hearing = 1..Len(hearing)
    BY <1>1, Reports DEF IInv
  <2>2. heard[c] \in Seq(Observers \X Results) /\ heard'[c] = heard[c] \o Report(x)
    BY <1>0, <1>2
  <2>n. n = Len(heard[c])
    BY <1>n
  <2>3. \A k \in n + 1..n + Len(hearing) : heard'[c][k] = Report(x)[k - n]
    BY <2>1, <2>2, <2>n
  <2>4. \A k \in n + 1..n + Len(hearing) : k - n \in DOMAIN hearing
    BY <2>1, <2>2, <2>n
  <2> QED
    BY <2>1, <2>2, <2>n, <2>3, <2>4 DEF Report
<1>8. Ends(c, o)' = Ends(c, o) \cup {n + j}
  <2> SUFFICES ASSUME NEW k
               PROVE  k \in Ends(c, o)' <=> k \in Ends(c, o) \/ k = n + j
    OBVIOUS
  <2>0. j \in 1..Len(hearing) /\ j \in Int
    BY <1>7
  <2>1. CASE k \in 1..n
    BY <1>7, <2>0, <2>1 DEF Ends
  <2>2. CASE k \in n + 1..n + Len(hearing)
    <3>0. k \in Int /\ n \in Int /\ k \notin 1..n /\ k - n \in 1..Len(hearing)
      BY <1>7, <2>2
    <3>1. k - n \in DOMAIN hearing /\ heard'[c][k][1] = hearing[k - n]
      <4>1. heard'[c][k] = <<hearing[k - n], x>>
        BY <1>7, <2>2
      <4> QED
        BY <1>7, <3>0, <4>1
    <3>2. hearing[k - n] = o <=> k - n = j
      BY <1>6, <3>1 DEF IInv, Composed, Distinct
    <3>3. k - n = j <=> k = n + j
      BY <2>0, <3>0
    <3>4. k \in DOMAIN heard'[c] /\ k \notin DOMAIN heard[c]
      BY <1>7, <2>2, <3>0
    <3> QED
      BY <3>1, <3>2, <3>3, <3>4 DEF Ends
  <2>3. CASE k \notin 1..n + Len(hearing)
    BY <1>7, <2>0, <2>3 DEF Ends
  <2> QED
    BY <1>7, <2>1, <2>2, <2>3
<1>9. ASSUME NEW t \in Tries, t # c PROVE Ends(t, o)' = Ends(t, o)
  BY <1>0, <1>2, <1>9 DEF Ends
<1>10. EndsOf(o)' = EndsOf(o) \cup {<<c, n + j>>} /\ <<c, n + j>> \notin EndsOf(o)
  <2>1. n + j \notin Ends(c, o)
    BY <1>7 DEF Ends
  <2> QED
    BY <1>0, <1>8, <1>9, <2>1 DEF EndsOf
<1>11. IsFiniteSet(EndsOf(o)) /\ Cardinality(EndsOf(o)) = Cardinality(OverTries)
  BY <1>6 DEF Balanced
<1> QED
  BY <1>5, <1>10, <1>11, FS_AddElement

\* Every observer heard of as many ends as there were, whichever func told them.
THEOREM Balance == Spec => []EndsBalance
<1>1. Init => Balanced
  BY DEF Init, Balanced
<1>2. IInv /\ Balanced /\ [Next]_vars => Balanced'
  <2> SUFFICES ASSUME IInv, Balanced, [Next]_vars PROVE Balanced'
    OBVIOUS
  <2>1. CASE Install \/ \E o \in Observers, kind \in HookKinds : ComposeSet(o, kind)
    BY <2>1, SetBalanced
  <2>2. ASSUME NEW r \in Racers, ConnectStart(r) \/ Keep(r) \/ Dial(r) PROVE Balanced'
    BY <2>2, RacerBalanced
  <2>3. ASSUME NEW r \in Racers, ConnectDone(r) PROVE Balanced'
    BY <2>3, ConnectDoneBalanced
  <2>4. CASE UNCHANGED vars
    <3>1. UNCHANGED <<hearing, pc, addr, result, heard>>
      BY <2>4 DEF vars, setVars, dialVars
    <3>2. OverTries' = OverTries
      BY <3>1 DEF OverTries, Over
    <3>3. ASSUME NEW o PROVE EndsOf(o)' = EndsOf(o)
      BY <3>1 DEF EndsOf, Ends
    <3> QED
      BY <3>1, <3>2, <3>3 DEF Balanced
  <2> QED
    BY <2>1, <2>2, <2>3, <2>4 DEF Next, AllOver
<1>3. Balanced => EndsBalance
  BY DEF Balanced, EndsBalance, EndsOf, OverTries
<1> QED
  BY <1>1, <1>2, <1>3, Inductive, PTL DEF Spec
=============================================================================
