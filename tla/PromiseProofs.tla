--------------------------- MODULE PromiseProofs ---------------------------
(***************************************************************************)
(* EventStream implements Delivery: the shell's output and exit status are *)
(* what arrives, the events that carry them are handed over, the terminal  *)
(* event is the end.                                                       *)
(***************************************************************************)
EXTENDS Naturals, Sequences, TLAPS

VARIABLES msgs, events

Sink == INSTANCE EventStream WITH sent <- msgs, events <- events

Content == {"data", "stderr", "status"}
Kinds   == {"Data", "ExitStatus", "Closed", "Died"}
Came    == {n \in 1..Len(msgs) : msgs[n] \in Content}
Told    == {n \in 1..Len(events) : events[n].kind \in {"Data", "ExitStatus"}}
Given   == {events[n].of : n \in Told}

Shell == INSTANCE Delivery WITH sent <- Came, out <- Given, over <- Sink!Over

\* A CHANNEL_CLOSE is the last message, and what was told was told in order.
SinkInv ==
  /\ msgs \in Seq(Sink!Message) /\ events \in Seq([kind : Kinds, of : Nat])
  /\ \A n \in 1..Len(msgs) : msgs[n] = "close" => n = Len(msgs)
  /\ Given \subseteq Came
  /\ \A n \in Given, m \in Came \ Given : n < m

\* One message, or one event, more.
LEMMA AppendFacts ==
  ASSUME NEW S, NEW s \in Seq(S), NEW e \in S
  PROVE  /\ Append(s, e) \in Seq(S)
         /\ Len(s) \in Nat
         /\ Len(Append(s, e)) = Len(s) + 1
         /\ \A n \in 1..Len(s) : Append(s, e)[n] = s[n]
         /\ Append(s, e)[Len(s) + 1] = e
OBVIOUS

\* What is in a sequence is in its set.
LEMMA ElementFacts ==
  ASSUME NEW S, NEW s \in Seq(S), NEW n \in 1..Len(s)
  PROVE  s[n] \in S
OBVIOUS

\* What one more event does to the mapping.
LEMMA EventFacts ==
  ASSUME SinkInv, ~Sink!Over, NEW k \in Kinds, NEW p \in Nat,
         events' = Append(events, [kind |-> k, of |-> p])
  PROVE  /\ events' \in Seq([kind : Kinds, of : Nat])
         /\ Given' = Given \cup (IF k \in {"Data", "ExitStatus"} THEN {p} ELSE {})
         /\ Sink!Over' <=> k \in {"Closed", "Died"}
         /\ Sink!Reported = Given
<1> DEFINE e == [kind |-> k, of |-> p]
<1>1. e \in [kind : Kinds, of : Nat] /\ e.kind = k /\ e.of = p
  OBVIOUS
<1> HIDE DEF e
<1>2. /\ events' \in Seq([kind : Kinds, of : Nat])
      /\ Len(events) \in Nat /\ Len(events') = Len(events) + 1
      /\ \A n \in 1..Len(events) : events'[n] = events[n]
      /\ events'[Len(events) + 1] = e
  <2>1. events \in Seq([kind : Kinds, of : Nat]) BY DEF SinkInv
  <2>2. events' = Append(events, e) BY DEF e
  <2> QED BY <1>1, <2>1, <2>2, AppendFacts
<1>3. 1..Len(events') = (1..Len(events)) \cup {Len(events) + 1}
  BY <1>2
<1>4. Told' = Told \cup (IF k \in {"Data", "ExitStatus"} THEN {Len(events) + 1} ELSE {})
  BY <1>1, <1>2, <1>3 DEF Told
<1>5. Given' = Given \cup (IF k \in {"Data", "ExitStatus"} THEN {p} ELSE {})
  <2>1. \A n \in Told : events'[n] = events[n]
    BY <1>2 DEF Told
  <2>2. events'[Len(events) + 1].of = p
    BY <1>1, <1>2
  <2>3. CASE k \in {"Data", "ExitStatus"}
    <3>1. Told' = Told \cup {Len(events) + 1} BY <1>4, <2>3
    <3>2. Given' = Given \cup {p} BY <2>1, <2>2, <3>1 DEF Given
    <3> QED BY <2>3, <3>2
  <2>4. CASE k \notin {"Data", "ExitStatus"}
    <3>1. Told' = Told BY <1>4, <2>4
    <3>2. Given' = Given BY <2>1, <3>1 DEF Given
    <3> QED BY <2>4, <3>2
  <2> QED BY <2>3, <2>4
<1>6. Sink!Over' <=> k \in {"Closed", "Died"}
  BY <1>1, <1>2, <1>3 DEF Sink!Over, Sink!Terminal, Kinds
<1>7. Sink!Reported = Given
  <2>1. \A n \in 1..Len(events) : events[n] \in [kind : Kinds, of : Nat]
    <3>1. events \in Seq([kind : Kinds, of : Nat]) BY DEF SinkInv
    <3> QED BY <3>1, ElementFacts
  <2>2. Told = 1..Len(events)
    BY <2>1 DEF Told, Sink!Over, Sink!Terminal, Kinds
  <2> QED BY <2>2 DEF Given, Sink!Reported
<1> QED BY <1>2, <1>5, <1>6, <1>7

\* Every step of the sink's contract keeps the invariant and is a delivery's.
LEMMA SinkStep ==
  SinkInv /\ [Sink!Next]_(Sink!vars) => SinkInv' /\ [Shell!Next]_(Shell!vars)
<1> SUFFICES ASSUME SinkInv, [Sink!Next]_(Sink!vars)
             PROVE  SinkInv' /\ [Shell!Next]_(Shell!vars)
  OBVIOUS
<1>0. /\ msgs \in Seq(Sink!Message) /\ Len(msgs) \in Nat
      /\ \A n \in 1..Len(msgs) : msgs[n] \in Content \cup {"eof", "close"}
      /\ Given \subseteq Came /\ \A n \in Given, m \in Came \ Given : n < m
  BY DEF SinkInv, Sink!Message, Sink!Payload, Content
<1>1. ASSUME NEW m \in Sink!Message, Sink!Send(m)
      PROVE  SinkInv' /\ [Shell!Next]_(Shell!vars)
  <2>1. /\ ~Sink!Over /\ events' = events /\ msgs' = Append(msgs, m)
        /\ \A n \in 1..Len(msgs) : msgs[n] # "close"
    BY <1>1 DEF Sink!Send, Sink!ServerDone
  <2>2. /\ msgs' \in Seq(Sink!Message) /\ Len(msgs') = Len(msgs) + 1
        /\ \A n \in 1..Len(msgs) : msgs'[n] = msgs[n]
        /\ msgs'[Len(msgs) + 1] = m
    BY <1>0, <2>1, AppendFacts
  <2>3. 1..Len(msgs') = (1..Len(msgs)) \cup {Len(msgs) + 1}
    BY <1>0, <2>2
  <2>4. Came' = Came \cup (IF m \in Content THEN {Len(msgs) + 1} ELSE {})
    BY <1>0, <2>2, <2>3 DEF Came
  <2>5. Given' = Given /\ Sink!Over' = Sink!Over
    BY <2>1 DEF Given, Told, Sink!Over
  <2>6. \A n \in Came : n \in Nat /\ n < Len(msgs) + 1
    BY <1>0 DEF Came
  <2>7. \A n \in Given', k \in Came' \ Given' : n < k
    BY <1>0, <2>4, <2>5, <2>6
  <2>8. \A n \in 1..Len(msgs') : msgs'[n] = "close" => n = Len(msgs')
    BY <2>1, <2>2, <2>3
  <2>9. SinkInv'
    <3>1. Given' \subseteq Came' BY <1>0, <2>4, <2>5
    <3>2. events' \in Seq([kind : Kinds, of : Nat]) BY <2>1 DEF SinkInv
    <3> QED BY <2>2, <2>7, <2>8, <3>1, <3>2 DEF SinkInv
  <2>10. Shell!Arrive
    <3>1. Came \subseteq Came' /\ Came' \subseteq Nat
      BY <1>0, <2>4, <2>6
    <3>2. \A n \in Came, k \in Came' \ Came : n < k
      BY <2>4, <2>6
    <3> QED BY <2>1, <2>5, <3>1, <3>2 DEF Shell!Arrive
  <2> QED BY <2>9, <2>10 DEF Shell!Next
<1>2. CASE Sink!Report
  <2>1. PICK n \in Sink!Due :
          /\ \A k \in Sink!Due : n <= k
          /\ events' = Append(events, [kind |-> Sink!Meaning[msgs[n]], of |-> n])
    BY <1>2 DEF Sink!Report
  <2>2. ~Sink!Over /\ msgs' = msgs BY <1>2 DEF Sink!Report
  <2> DEFINE k == Sink!Meaning[msgs[n]]
  <2>3. /\ n \in 1..Len(msgs) /\ n \in Nat /\ msgs[n] \in Content \cup {"close"}
        /\ n \notin Sink!Reported
    BY <1>0, <2>1 DEF Sink!Due, Sink!Shown
  <2>4. /\ k \in Kinds
        /\ msgs[n] \in Content <=> k \in {"Data", "ExitStatus"}
        /\ msgs[n] = "close" <=> k \in {"Closed", "Died"}
    BY <2>3 DEF Sink!Meaning, Content, Kinds
  <2>5. events' = Append(events, [kind |-> k, of |-> n])
    BY <2>1
  <2> HIDE DEF k
  <2>6. /\ events' \in Seq([kind : Kinds, of : Nat])
        /\ Given' = Given \cup (IF k \in {"Data", "ExitStatus"} THEN {n} ELSE {})
        /\ Sink!Over' <=> k \in {"Closed", "Died"}
        /\ Sink!Reported = Given
    BY <2>2, <2>3, <2>4, <2>5, EventFacts
  <2>7. Came' = Came BY <2>2 DEF Came
  <2>8. Came \ Given \subseteq Sink!Due /\ Came \subseteq Nat
    BY <2>6 DEF Came, Sink!Due, Sink!Shown, Content
  <2>9. CASE msgs[n] \in Content
    <3>1. Given' = Given \cup {n} /\ n \in Came /\ ~Sink!Over'
      BY <2>3, <2>4, <2>6, <2>9 DEF Came, Content, Kinds
    <3>2. \A m \in Came \ Given' : n <= m /\ m # n /\ m \in Nat
      BY <2>1, <2>8, <3>1
    <3>3. \A m \in Came \ Given' : n < m
      BY <2>3, <3>2
    <3>4. \A j \in Given', m \in Came \ Given' : j < m
      BY <1>0, <3>1, <3>3
    <3>5. SinkInv'
      BY <1>0, <2>2, <2>6, <2>7, <3>1, <3>4 DEF SinkInv
    <3>6. Shell!HandOver
      <4>1. Sink!Over' = Sink!Over BY <2>2, <3>1 DEF Sink!Over
      <4> QED BY <1>0, <2>2, <2>7, <3>1, <3>4, <4>1 DEF Shell!HandOver
    <3> QED BY <3>5, <3>6 DEF Shell!Next
  <2>10. CASE msgs[n] = "close"
    <3>1. Given' = Given /\ Sink!Over'
      BY <2>4, <2>6, <2>10
    <3>2. Came \subseteq Given
      <4>1. n = Len(msgs) BY <2>3, <2>10 DEF SinkInv
      <4>2. \A m \in Came : m \in 1..Len(msgs) /\ m # n
        BY <2>10 DEF Came, Content
      <4>3. \A m \in Came : m < n BY <1>0, <4>1, <4>2
      <4>4. \A m \in Came \ Given : n <= m BY <2>1, <2>8
      <4> QED BY <2>3, <2>8, <4>3, <4>4
    <3>3. SinkInv'
      BY <1>0, <2>2, <2>6, <2>7, <3>1 DEF SinkInv
    <3>4. Shell!End
      BY <1>0, <2>2, <2>7, <3>1, <3>2 DEF Shell!End
    <3> QED BY <3>3, <3>4 DEF Shell!Next
  <2> QED BY <2>3, <2>9, <2>10
<1>3. CASE Sink!Die
  <2>1. PICK p \in 0..Len(msgs) : events' = Append(events, [kind |-> "Died", of |-> p])
    BY <1>3 DEF Sink!Die
  <2>2. ~Sink!Over /\ msgs' = msgs /\ Sink!Due = {} BY <1>3 DEF Sink!Die
  <2>3. /\ events' \in Seq([kind : Kinds, of : Nat])
        /\ Given' = Given /\ Sink!Over' /\ Sink!Reported = Given
    <3>1. p \in Nat /\ "Died" \in Kinds /\ "Died" \notin {"Data", "ExitStatus"}
      BY <1>0 DEF Kinds
    <3> QED BY <2>1, <2>2, <3>1, EventFacts
  <2>4. Came' = Came BY <2>2 DEF Came
  <2>5. Came = Given
    BY <1>0, <2>2, <2>3 DEF Came, Sink!Due, Sink!Shown, Content
  <2>6. SinkInv'
    BY <1>0, <2>2, <2>3, <2>4 DEF SinkInv
  <2>7. Shell!End
    BY <2>2, <2>3, <2>4, <2>5 DEF Shell!End
  <2> QED BY <2>6, <2>7 DEF Shell!Next
<1>4. CASE UNCHANGED Sink!vars
  <2>1. UNCHANGED <<msgs, events>> BY <1>4 DEF Sink!vars
  <2>2. Came' = Came /\ Given' = Given /\ Sink!Over' = Sink!Over
    BY <2>1 DEF Came, Given, Told, Sink!Over
  <2> QED BY <2>1, <2>2 DEF SinkInv, Shell!vars
<1> QED BY <1>1, <1>2, <1>3, <1>4 DEF Sink!Next

\* A sink that is told what EventStream promises is at the end of a delivery:
\* of the shell's output and status, with its terminal event for the end.
THEOREM SinkDelivers == Sink!Spec => Shell!Spec
<1>1. Sink!Init => SinkInv /\ Shell!Init
  <2> SUFFICES ASSUME Sink!Init PROVE SinkInv /\ Shell!Init
    OBVIOUS
  <2>1. msgs = <<>> /\ events = <<>> BY DEF Sink!Init
  <2>2. Came = {} /\ Given = {} /\ ~Sink!Over
    BY <2>1 DEF Came, Told, Given, Sink!Over
  <2> QED BY <2>1, <2>2 DEF SinkInv, Shell!Init
<1> QED BY <1>1, SinkStep, PTL DEF Sink!Spec, Shell!Spec
=============================================================================
