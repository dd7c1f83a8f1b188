----------------------------- MODULE MCForwards -----------------------------
(***************************************************************************)
(* Forwards for TLC: two threads that ask, one port with traffic on it.    *)
(***************************************************************************)
EXTENDS Forwards, TLC

CONSTANTS t1, t2

OneThread  == {t1}
TwoThreads == {t1, t2}
OnePort    == {"p"}
=============================================================================
