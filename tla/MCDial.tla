------------------------------- MODULE MCDial -------------------------------
(***************************************************************************)
(* Dial for TLC: each endpoint trusts the key of its own host, and the     *)
(* target also the key of the first hop, so that a key that is good for    *)
(* one endpoint is presented where it is not.                              *)
(***************************************************************************)
EXTENDS Dial, TLC

CONSTANTS k1, k2, k3, rogue

AllKeys   == {k1, k2, k3, rogue}
OwnKeys   == <<{k1}, {k2}, {k3, k1}>>
SecondHop == {2}
=============================================================================
