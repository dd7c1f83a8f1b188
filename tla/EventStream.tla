---------------------------- MODULE EventStream ----------------------------
(***************************************************************************)
(* What the event sink of an SshSpikeSession is promised, whatever the     *)
(* transport does underneath: every message the server put on the shell    *)
(* channel is reported once, in the order it was sent; the stream ends     *)
(* with at most one terminal event; Closed is reported for the server's    *)
(* CHANNEL_CLOSE and for nothing else; Died is reported only when no       *)
(* CHANNEL_CLOSE arrived, and only after everything that did arrive.       *)
(* Session.tla implements this specification.                              *)
(***************************************************************************)
EXTENDS Naturals, Sequences

VARIABLES
  sent,    \* what the server put on the shell channel and the client received
  events   \* what the sink was told, each event with the message it reports

vars == <<sent, events>>

Payload == {"data", "stderr", "status", "eof"}
Message == Payload \cup {"close"}

\* stdout and stderr are one stream to the sink; a half-close is not shown.
Shown(m) == m # "eof"
Meaning == [data   |-> "Data",
            stderr |-> "Data",
            status |-> "ExitStatus",
            close  |-> "Closed"]
Terminal == {"Closed", "Died"}

ServerDone == \E n \in 1..Len(sent) : sent[n] = "close"
Over       == \E n \in 1..Len(events) : events[n].kind \in Terminal
Reported   == {events[n].of : n \in 1..Len(events)}
\* The shown messages the sink has not been told of yet.
Due        == {n \in 1..Len(sent) : Shown(sent[n]) /\ n \notin Reported}

Init == sent = <<>> /\ events = <<>>

Send(m) ==
  /\ ~ServerDone /\ ~Over
  /\ sent' = Append(sent, m)
  /\ UNCHANGED events

Report ==
  /\ ~Over
  /\ \E n \in Due :
       /\ \A k \in Due : n <= k
       /\ events' = Append(events, [kind |-> Meaning[sent[n]], of |-> n])
  /\ UNCHANGED sent

Die ==
  /\ ~Over /\ ~ServerDone /\ Due = {}
  /\ \E n \in 0..Len(sent) :
       events' = Append(events, [kind |-> "Died", of |-> n])
  /\ UNCHANGED sent

Next == (\E m \in Message : Send(m)) \/ Report \/ Die

Spec == Init /\ [][Next]_vars
=============================================================================
