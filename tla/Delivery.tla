------------------------------ MODULE Delivery ------------------------------
(***************************************************************************)
(* What every inbound path of the crate promises to whoever is at its end, *)
(* an event sink, the caller of exec, the reader of a byte pipe or of a    *)
(* remote file, the sink of a forward: what arrived is handed over in the  *)
(* order it came, and the end comes after the last of it and before        *)
(* nothing. What never arrived, because a link went or a server stopped,   *)
(* is not promised.                                                        *)
(*                                                                         *)
(* A thing that arrives is known by its place in the order of arrival.     *)
(***************************************************************************)
EXTENDS Naturals

VARIABLES
  sent,   \* the places of what has arrived
  out,    \* the places of what has been handed over
  over    \* whoever takes it has been told that this is all

vars == <<sent, out, over>>

Init == sent = {} /\ out = {} /\ over = FALSE

\* Something more arrives, behind all that is there.
Arrive ==
  /\ ~over
  /\ sent \subseteq sent' /\ sent' \subseteq Nat
  /\ \A n \in sent, m \in sent' \ sent : n < m
  /\ UNCHANGED <<out, over>>

\* The next of it, one or several at once, is handed over.
HandOver ==
  /\ ~over
  /\ out \subseteq out' /\ out' \subseteq sent
  /\ \A n \in out', m \in sent \ out' : n < m
  /\ UNCHANGED <<sent, over>>

\* The end is told when nothing is left to hand over.
End ==
  /\ ~over /\ over' = TRUE
  /\ out = sent
  /\ UNCHANGED <<sent, out>>

Next == Arrive \/ HandOver \/ End

Spec == Init /\ [][Next]_vars
=============================================================================
