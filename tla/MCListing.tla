----------------------------- MODULE MCListing ------------------------------
(***************************************************************************)
(* A walk over five items of which one does not match, two to a page:      *)
(* pages that are full, empty with more to come, and empty at the end.     *)
(* Walks share nothing but the listing, so the others are among its        *)
(* changes; the same iterator is walked again once a walk is over.         *)
(***************************************************************************)
EXTENDS Listing

\* One item has no state on the wire, one that of a newer version.
MCWireState == <<"visible", "failed", Absent, "newer", "pending">>
=============================================================================
