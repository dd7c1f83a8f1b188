----------------------------- MODULE MCSession -----------------------------
(***************************************************************************)
(* Session for TLC: the caller threads are model values, everything else   *)
(* is small enough to be given in the cfg files.                           *)
(***************************************************************************)
EXTENDS Session, TLC

CONSTANTS t1, t2

OneThread  == {t1}
TwoThreads == {t1, t2}
=============================================================================
