------------------------------- MODULE MCPipe -------------------------------
(***************************************************************************)
(* Pipe for TLC: a bridge with two threads on the write side, which write, *)
(* half-close and disconnect in any order.                                 *)
(***************************************************************************)
EXTENDS Pipe, TLC

CONSTANTS w1, w2

Bridge == {w1, w2}
=============================================================================
