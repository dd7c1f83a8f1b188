------------------------------- MODULE MCExec -------------------------------
(***************************************************************************)
(* Exec for TLC: up to three chunks of stdout, the first of which ends     *)
(* inside a multi-byte character.                                          *)
(***************************************************************************)
EXTENDS Exec, TLC

FirstChunk == {1}
=============================================================================
