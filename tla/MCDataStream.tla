---------------------------- MODULE MCDataStream ----------------------------
(***************************************************************************)
(* A payload of two reads, its reader, and two closers who may come at any *)
(* moment.                                                                 *)
(***************************************************************************)
EXTENDS DataStream
=============================================================================
