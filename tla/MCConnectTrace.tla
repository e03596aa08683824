--------------------------- MODULE MCConnectTrace ---------------------------
(***************************************************************************)
(* A host with addresses of both families, two of each: a racer that       *)
(* fails over to its next address, and one that meets it on the way.  Up   *)
(* to two hook sets, in any order, each without the hook, with one that    *)
(* returns no func and with one that does.                                 *)
(***************************************************************************)
EXTENDS ConnectTrace
=============================================================================
