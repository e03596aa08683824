-------------------------------- MODULE Wire --------------------------------
(***************************************************************************)
(* The enumerations of the API: the package's values, the names they have  *)
(* on the wire, and the two ways a value is read from there.               *)
(*                                                                         *)
(* A value is named after its constant, without the type's name; "Unknown" *)
(* is the zero of every enumeration and has no name on the wire.           *)
(***************************************************************************)
EXTENDS Functions

errorKind2wire ==
  [AccountBlocked       |-> "account_blocked",
   AccountSuspended     |-> "account_suspended",
   DedupClaimed         |-> "dedup_claimed",
   DedupDisabled        |-> "dedup_disabled",
   DedupInFlight        |-> "dedup_in_flight",
   InvalidToken         |-> "invalid_token",
   NotFailed            |-> "not_failed",
   OperationUnconfirmed |-> "operation_unconfirmed",
   PayloadTooLarge      |-> "payload_too_large",
   QueueBusy            |-> "queue_busy",
   QueueCreating        |-> "queue_creating",
   QueueDeleting        |-> "queue_deleting",
   QueueExists          |-> "queue_exists",
   QueueLimit           |-> "queue_limit",
   QueueNotFound        |-> "queue_not_found",
   QueueReplaced        |-> "queue_replaced",
   RateLimited          |-> "rate_limited",
   RetentionLimit       |-> "retention_limit",
   SpoolFull            |-> "spool_full",
   SpoolNotFound        |-> "spool_not_found",
   StaleToken           |-> "stale_token",
   Unauthenticated      |-> "unauthenticated",
   UnknownHeader        |-> "unknown_header"]

spoolLimit2wire      == [Messages |-> "messages", DataBytes |-> "dataBytes"]
queueDeleteMode2wire == [Force |-> "force", Drain |-> "drain"]
queueState2wire ==
  [Active |-> "active", Deleting |-> "deleting", Draining |-> "draining"]
messageState2wire ==
  [Delayed |-> "delayed", Visible |-> "visible", Pending |-> "pending",
   Failed |-> "failed", Unavailable |-> "unavailable"]

\* The enumerations are read by the reverse of their tables.
ASSUME TablesAssumption ==
  \A table \in {errorKind2wire, spoolLimit2wire, queueDeleteMode2wire,
                queueState2wire, messageState2wire} :
    IsInjective(table) /\ "Unknown" \notin DOMAIN table

reverse(table) == Inverse(table, DOMAIN table, Range(table))

errorKind4wire    == reverse(errorKind2wire)
spoolLimit4wire   == reverse(spoolLimit2wire)
queueState4wire   == reverse(queueState2wire)
messageState4wire == reverse(messageState2wire)

\* toWire fails for a value without a name.
HasWire(table, value) == value \in DOMAIN table

\* fromWire fails for a name it does not know, and sets nothing.
Knows(reversed, name)    == name \in DOMAIN reversed
FromWire(reversed, name) == IF Knows(reversed, name) THEN reversed[name] ELSE "Unknown"

\* A field the object does not have is not decoded at all.
Absent == "absent"

\* UnmarshalJSON of a state: an unknown one fails, and what it is part of too.
Decodes(reversed, name) == name = Absent \/ Knows(reversed, name)
=============================================================================
