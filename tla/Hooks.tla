------------------------------- MODULE Hooks --------------------------------
(***************************************************************************)
(* Sets of hooks and their composition (the code gtrace generates).        *)
(*                                                                         *)
(* A hook is nil, which is None, or what a call of it does: the observers  *)
(* it tells of the beginning, and the func it returns.  A func is nil as   *)
(* well, or the observers it tells of the end, in the order it tells them. *)
(***************************************************************************)
EXTENDS Sequences

CONSTANT None

HookKinds == {"nil", "silent", "func"}

\* The hooks there can be, of any of the observers.
HooksOf(observers) == [calls : Seq(observers), func : Seq(observers) \cup {None}]

\* The hook of an observer: none, one that returns no func, one that does.
Hook(o, kind) ==
  IF kind = "nil" THEN None
  ELSE [calls |-> <<o>>, func |-> IF kind = "silent" THEN None ELSE <<o>>]

\* Mutant: of two funcs the second is dropped.
ComposeFirstFunc(r1, r2) == IF r1 = None THEN r2 ELSE r1

ComposeFuncs(r1, r2) ==
  IF r1 = None THEN r2 ELSE IF r2 = None THEN r1 ELSE r1 \o r2

\* ClientTrace.Compose, hook by hook: the first set before the second.
Compose(t, x) ==
  IF t = None THEN x
  ELSE IF x = None THEN t
  ELSE [calls |-> t.calls \o x.calls, func |-> ComposeFuncs(t.func, x.func)]

\* RoundTripperTrace.Compose is the same code of package httputil.
ComposeRoundTripper(t, x) == Compose(t, x)

\* ClientTrace.onConnect: nil or not, it is called and returns a func to call.
onConnect(t) ==
  IF t = None THEN [calls |-> <<>>, func |-> <<>>]
  ELSE [calls |-> t.calls, func |-> IF t.func = None THEN <<>> ELSE t.func]

\* DumpRoundTripperTrace has a hook for the round trip only.
DumpOnConnect == None

\* The OnConnect hook Client.init installs of the set a caller composed.
Installed(t) == onConnect(ComposeRoundTripper(onConnect(t), DumpOnConnect))
=============================================================================
