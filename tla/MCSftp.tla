------------------------------- MODULE MCSftp -------------------------------
(***************************************************************************)
(* Sftp for TLC: every bound is small enough to be given in the cfg.       *)
(***************************************************************************)
EXTENDS Sftp, TLC
=============================================================================
