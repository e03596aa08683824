---------------------------- MODULE CallPromise -----------------------------
(***************************************************************************)
(* What an operation that changes a spool promises its caller, without a   *)
(* word about attempts, answers or time:                                   *)
(*                                                                         *)
(*   - a failure that does not match ErrResultUnknown changed nothing, and *)
(*     will not;                                                           *)
(*   - a call changes the spool once, unless it set RetryUnknown for an    *)
(*     append that neither a lease nor a dedup key the server still        *)
(*     remembers protects;                                                 *)
(*   - a success stands for a change: the call's own, or the one its dedup *)
(*     key had already made.                                               *)
(***************************************************************************)


CONSTANTS
  Calls,
  Requests,   \* Records with at least the fields policy, key and lease.
  NoRequest,
  NoKey, NoLease,
  Names       \* What the changes of a call are called.

VARIABLES
  phase,    \* "new", "open", "ok", "failed", "unknown"
  asked,    \* The request of a call.
  changes,  \* The changes a call made, each by a name of its own.
  forgot    \* Dedup keys whose window has passed.

promiseVars == <<phase, asked, changes, forgot>>

\* The request allowed a second change, and nothing protects it any more.
Unprotected(c) ==
  /\ asked[c].policy = "retrySendUnknown"
  /\ asked[c].lease = NoLease
  /\ asked[c].key = NoKey \/ asked[c].key \in forgot

Init ==
  /\ phase = [c \in Calls |-> "new"]
  /\ asked = [c \in Calls |-> NoRequest]
  /\ changes = [c \in Calls |-> {}]
  /\ forgot = {}

Invoke(c, r) ==
  /\ phase[c] = "new"
  /\ phase' = [phase EXCEPT ![c] = "open"]
  /\ asked' = [asked EXCEPT ![c] = r]
  /\ UNCHANGED <<changes, forgot>>

\* Refused before anything was sent.
Refuse(c, r) ==
  /\ phase[c] = "new"
  /\ phase' = [phase EXCEPT ![c] = "failed"]
  /\ asked' = [asked EXCEPT ![c] = r]
  /\ UNCHANGED <<changes, forgot>>

\* The change may come after the call returned, but for a failed call never.
Change(c) ==
  /\ phase[c] \in {"open", "ok", "unknown"}
  /\ changes[c] = {} \/ Unprotected(c)
  /\ \E n \in Names \ changes[c] :
       changes' = [changes EXCEPT ![c] = @ \cup {n}]
  /\ UNCHANGED <<phase, asked, forgot>>

ReturnOk(c) ==
  /\ phase[c] = "open"
  /\ \E d \in Calls :
       /\ changes[d] # {}
       /\ d = c \/ (asked[c].key # NoKey /\ asked[d].key = asked[c].key)
  /\ phase' = [phase EXCEPT ![c] = "ok"]
  /\ UNCHANGED <<asked, changes, forgot>>

ReturnFailed(c) ==
  /\ phase[c] = "open"
  /\ changes[c] = {}
  /\ phase' = [phase EXCEPT ![c] = "failed"]
  /\ UNCHANGED <<asked, changes, forgot>>

ReturnUnknown(c) ==
  /\ phase[c] = "open"
  /\ phase' = [phase EXCEPT ![c] = "unknown"]
  /\ UNCHANGED <<asked, changes, forgot>>

Forget(k) ==
  /\ forgot' = forgot \cup {k}
  /\ UNCHANGED <<phase, asked, changes>>

Next ==
  \/ \E c \in Calls :
       \/ \E r \in Requests : Invoke(c, r) \/ Refuse(c, r)
       \/ Change(c) \/ ReturnOk(c) \/ ReturnFailed(c) \/ ReturnUnknown(c)
  \/ \E r \in Requests : Forget(r.key)

Spec == Init /\ [][Next]_promiseVars
=============================================================================
