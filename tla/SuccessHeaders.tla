--------------------------- MODULE SuccessHeaders ----------------------------
(***************************************************************************)
(* What the client reads of the headers of a success.                      *)
(*                                                                         *)
(* A header is absent, or has a value that its reader can read, or one it  *)
(* cannot: a time that is not RFC 3339, a count that is no number, a state *)
(* of no known name.                                                       *)
(***************************************************************************)
EXTENDS Integers, Sequences, Functions

HeaderNames == {"LeaseExpiresAt", "Retries", "CreatedAt", "State", "VisibleAt",
                "ExpiresAt", "Lease"}
Forms == {"absent", "readable", "unreadable"}

\* What a field of a result can be: its zero, the -1 of a count that was not
\* read, or what the header says.
Values == {"zero", "minus one", "value"}
Blank  == [h \in HeaderNames |-> "zero"]

\* The headers an operation reads, in the order it does.
HeadersOf(op) ==
  CASE op = "Recv"    -> <<"LeaseExpiresAt", "Retries", "CreatedAt", "Lease">>
    [] op = "Renew"   -> <<"LeaseExpiresAt">>
    [] op = "Inspect" -> <<"Retries", "State", "CreatedAt", "VisibleAt",
                           "LeaseExpiresAt", "ExpiresAt">>
    [] OTHER          -> <<>>

\* An absent header is nothing to complain of, but no state is no known one.
Unreadable(h, form) == form = "unreadable" \/ (h = "State" /\ form = "absent")

\* parseTimeHeader, parseRetries and MessageState.fromWire; the lease is taken
\* as it is.
ValueOf(h, form) ==
  IF form = "readable" THEN "value"
  ELSE IF h = "Retries" /\ form = "unreadable" THEN "minus one" ELSE "zero"

\* Of the headers that came, those the operation reads.
Carried(op, came) ==
  [h \in HeaderNames |-> IF h \in Range(HeadersOf(op)) THEN came[h] ELSE "absent"]
=============================================================================
