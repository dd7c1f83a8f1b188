------------------------------- MODULE Upload -------------------------------
(***************************************************************************)
(* What an upload through a `.part` file promises to whoever looks at the  *)
(* server: the source's beginning that is there only ever grows, over any  *)
(* number of broken connections, and the file appears under its own name   *)
(* once, whole.                                                            *)
(***************************************************************************)
EXTENDS Naturals

CONSTANT Size   \* the source's length

VARIABLES
  held,       \* how much of the source the server holds
  published   \* the file is there under its own name

vars == <<held, published>>

Init == held \in 0..Size /\ published = FALSE

Grow ==
  /\ ~published /\ held < Size
  /\ held' = held + 1
  /\ UNCHANGED published

Publish ==
  /\ ~published /\ held = Size
  /\ published' = TRUE
  /\ UNCHANGED held

Next == Grow \/ Publish

Spec == Init /\ [][Next]_vars
=============================================================================
