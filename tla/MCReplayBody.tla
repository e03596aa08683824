---------------------------- MODULE MCReplayBody ----------------------------
(***************************************************************************)
(* A source of three bytes read one or two at a time, for two retries: a   *)
(* retry can meet the reading of either attempt before it.                 *)
(***************************************************************************)
EXTENDS ReplayBody
=============================================================================
