----------------------------- MODULE ExecProofs -----------------------------
(***************************************************************************)
(* Exec's safety for any amount of output. The chunks in the queue are the *)
(* ones sent and not collected, in the order they were sent.               *)
(***************************************************************************)
EXTENDS Exec, TLAPS

IsData(p)  == p \in 1..Len(queue) /\ queue[p].kind = "data"
IsClose(p) == p \in 1..Len(queue) /\ queue[p].kind = "close"

\* No gap between what was collected and what was sent, and no disorder.
NoneMissing ==
  /\ \A p \in 1..Len(queue) :
       IsData(p) => queue[p].n \in (Len(got) + 1)..written
  /\ \A m \in (Len(got) + 1)..written :
       \E p \in 1..Len(queue) : IsData(p) /\ queue[p].n = m
  /\ \A p, q \in 1..Len(queue) :
       IsData(p) /\ IsData(q) /\ p < q => queue[p].n < queue[q].n
  /\ Len(got) <= written

\* CHANNEL_CLOSE is the last message, and all the output was sent before it.
CloseIsLast ==
  /\ closed => written = output
  /\ \A p \in 1..Len(queue) : IsClose(p) => p = Len(queue) /\ closed

NotEnded == phase # "returned" => ended = "notYet"

\* What is collected is the beginning of the output: all of it behind a CLOSE,
\* and all that was received behind the timer or a dead transport.
GotIsPrefix == got = [n \in 1..Len(got) |-> n]
AllTaken == ended = "close" => Len(got) = output
ReceivedTaken == ended \in {"quiet", "none"} => Len(got) = written

Inv == /\ TypeOK /\ NoneMissing /\ CloseIsLast /\ NotEnded
       /\ GotIsPrefix /\ AllTaken /\ ReceivedTaken
-----------------------------------------------------------------------------
LEMMA AppendFacts ==
  ASSUME NEW S, NEW s \in Seq(S), NEW e \in S
  PROVE  /\ Append(s, e) \in Seq(S)
         /\ Len(s) \in Nat
         /\ Len(Append(s, e)) = Len(s) + 1
         /\ \A p \in 1..Len(s) : Append(s, e)[p] = s[p]
         /\ Append(s, e)[Len(s) + 1] = e
OBVIOUS

LEMMA TailFacts ==
  ASSUME NEW S, NEW s \in Seq(S), s # <<>>
  PROVE  /\ Tail(s) \in Seq(S) /\ Head(s) \in S /\ Head(s) = s[1]
         /\ Len(s) \in Nat \ {0}
         /\ Len(Tail(s)) = Len(s) - 1
         /\ \A p \in 1..Len(Tail(s)) : Tail(s)[p] = s[p + 1]
OBVIOUS

LEMMA SignalFacts ==
  /\ \A k \in {"status", "other", "close"} : Signal(k) \in Message /\ Signal(k).kind = k
  /\ \A m \in Nat : [kind |-> "data", n |-> m] \in Message
BY DEF Signal, Message

\* TypeOK is inductive.
LEMMA TypeStep == TypeOK /\ [Next]_vars => TypeOK'
<1> SUFFICES ASSUME TypeOK, [Next]_vars PROVE TypeOK'
  OBVIOUS
<1> USE DEF TypeOK, server, loop, answer
<1>0. /\ MaxOutput \in Nat /\ MaxOther \in Nat /\ output \in Nat
      /\ written \in Nat /\ others \in Nat
  BY ExecAssumption
<1>1. CASE ServerWrites
  <2>1. queue' \in Seq(Message)
    <3>1. [kind |-> "data", n |-> written + 1] \in Message
      BY <1>0, SignalFacts
    <3> QED BY <1>1, <3>1, AppendFacts DEF ServerWrites
  <2>2. written' \in 0..output
    BY <1>0, <1>1 DEF ServerWrites
  <2> QED BY <1>1, <2>1, <2>2 DEF ServerWrites
<1>2. CASE ServerStatus \/ ServerOther \/ ServerCloses
  <2>1. queue' \in Seq(Message)
    <3>1. PICK k \in {"status", "other", "close"} : queue' = Append(queue, Signal(k))
      BY <1>2 DEF ServerStatus, ServerOther, ServerCloses
    <3>2. Signal(k) \in Message BY SignalFacts
    <3> QED BY <3>1, <3>2, AppendFacts
  <2>2. others' \in 0..MaxOther
    BY <1>0, <1>2 DEF ServerStatus, ServerOther, ServerCloses
  <2> QED BY <1>2, <2>1, <2>2, ZenonT(40) DEF ServerStatus, ServerOther, ServerCloses
<1>3. CASE LinkBreaks BY <1>3 DEF LinkBreaks
<1>4. CASE Begin
  BY <1>4 DEF Begin, Opens, Requests, OpenRefused, TransportGone, ChannelError
<1>5. CASE TakeData
  <2>1. queue' \in Seq(Message) /\ Head(queue) \in Message
    BY <1>5, TailFacts DEF TakeData, Take
  <2>2. Head(queue).n \in Nat BY <2>1 DEF Message
  <2>3. got' \in Seq(Nat) BY <1>5, <2>2, AppendFacts DEF TakeData
  <2> QED BY <1>5, <2>1, <2>3 DEF TakeData
<1>6. CASE TakeStatus \/ TakeOther \/ TakeClose
  <2>1. queue' \in Seq(Message)
    BY <1>6, TailFacts DEF TakeStatus, TakeOther, TakeClose, Take
  <2> QED BY <1>6, <2>1, ZenonT(40) DEF TakeStatus, TakeOther, TakeClose, Break
<1>7. CASE TakeNone \/ Quiet BY <1>7 DEF TakeNone, Quiet, Break
<1>8. CASE Returned \/ UNCHANGED vars BY <1>8 DEF Returned, vars
<1> QED BY <1>1, <1>2, <1>3, <1>4, <1>5, <1>6, <1>7, <1>8 DEF Next, Server, Drain
-----------------------------------------------------------------------------
\* One message more at the end of the queue.
LEMMA SendStep ==
  ASSUME Inv, TypeOK', NEW m \in Message, queue' = Append(queue, m), ~closed,
         UNCHANGED <<got, phase, ended, output>>, phase = "read",
         \/ m.kind = "data" /\ m.n = written + 1 /\ written' = written + 1 /\ ~closed'
         \/ m.kind = "close" /\ UNCHANGED written /\ closed' /\ written = output
         \/ m.kind \in {"status", "other"} /\ UNCHANGED <<written, closed>>
  PROVE  Inv'
<1> USE DEF Inv
<1>1. /\ Len(queue') = Len(queue) + 1 /\ Len(queue) \in Nat
      /\ \A p \in 1..Len(queue) : queue'[p] = queue[p]
      /\ queue'[Len(queue) + 1] = m
  BY AppendFacts DEF TypeOK
<1>2. Len(got) \in Nat /\ written \in Nat /\ written' \in Nat
  BY DEF TypeOK
<1>3. \A p \in 1..Len(queue) : ~IsClose(p)
  BY DEF CloseIsLast, IsClose
<1>4. NoneMissing'
  <2>1. \A p \in 1..Len(queue') :
          \/ p \in 1..Len(queue) /\ (IsData(p)' <=> IsData(p))
          \/ p = Len(queue) + 1 /\ (IsData(p)' <=> m.kind = "data")
    BY <1>1 DEF IsData
  <2>2. ASSUME NEW p \in 1..Len(queue'), IsData(p)'
        PROVE  queue'[p].n \in (Len(got) + 1)..written'
    BY <1>1, <1>2, <2>1, <2>2 DEF NoneMissing
  <2>3. ASSUME NEW k \in (Len(got) + 1)..written'
        PROVE  \E p \in 1..Len(queue') : IsData(p)' /\ queue'[p].n = k
    <3>1. CASE k \in (Len(got) + 1)..written
      <4>1. PICK p \in 1..Len(queue) : IsData(p) /\ queue[p].n = k
        BY <3>1 DEF NoneMissing
      <4> QED BY <1>1, <4>1 DEF IsData
    <3>2. CASE k \notin (Len(got) + 1)..written
      <4>1. k = written + 1 /\ m.kind = "data" /\ m.n = k
        BY <1>2, <3>2
      <4> QED BY <1>1, <4>1 DEF IsData
    <3> QED BY <3>1, <3>2
  <2>4. ASSUME NEW p \in 1..Len(queue'), NEW q \in 1..Len(queue'),
               IsData(p)', IsData(q)', p < q
        PROVE  queue'[p].n < queue'[q].n
    <3>1. p \in 1..Len(queue) /\ IsData(p)
      BY <1>1, <2>1, <2>4
    <3>2. queue[p].n \in (Len(got) + 1)..written
      BY <3>1 DEF NoneMissing
    <3>3. CASE q \in 1..Len(queue)
      BY <1>1, <2>1, <2>4, <3>1, <3>3 DEF NoneMissing
    <3>4. CASE q = Len(queue) + 1
      BY <1>1, <1>2, <2>1, <2>4, <3>1, <3>2, <3>4
    <3> QED BY <1>1, <3>3, <3>4
  <2>5. Len(got') <= written' /\ got' = got
    BY <1>2 DEF NoneMissing
  <2>6. \A p, q \in 1..Len(queue') :
          IsData(p)' /\ IsData(q)' /\ p < q => queue'[p].n < queue'[q].n
    BY <2>4
  <2>7. \A p \in 1..Len(queue') : IsData(p)' => queue'[p].n \in (Len(got') + 1)..written'
    BY <2>2, <2>5
  <2>8. \A k \in (Len(got') + 1)..written' : \E p \in 1..Len(queue') : IsData(p)' /\ queue'[p].n = k
    BY <2>3, <2>5
  <2> HIDE DEF Inv
  <2> QED BY <2>5, <2>6, <2>7, <2>8 DEF NoneMissing
<1>5. CloseIsLast'
  BY <1>1, <1>3 DEF CloseIsLast, IsClose
<1>6. NotEnded' /\ GotIsPrefix' /\ AllTaken' /\ ReceivedTaken'
  BY DEF NotEnded, GotIsPrefix, AllTaken, ReceivedTaken
<1> QED BY <1>4, <1>5, <1>6

\* The head of the queue taken: a chunk is collected, the rest passed over.
LEMMA TakeStep ==
  ASSUME Inv, TypeOK', NEW k \in {"data", "status", "other"}, Take(k),
         got' = (IF k = "data" THEN Append(got, Head(queue).n) ELSE got),
         UNCHANGED <<written, closed, phase, ended, output>>
  PROVE  Inv'
<1> USE DEF Inv
<1>1. /\ queue # <<>> /\ queue' = Tail(queue) /\ queue[1].kind = k
      /\ Len(queue) \in Nat \ {0} /\ Len(queue') = Len(queue) - 1
      /\ \A p \in 1..Len(queue') : queue'[p] = queue[p + 1] /\ p + 1 \in 1..Len(queue)
      /\ Head(queue) = queue[1]
  <2>1. queue \in Seq(Message) BY DEF TypeOK
  <2>2. queue # <<>> /\ queue' = Tail(queue) /\ Head(queue).kind = k
    BY DEF Take
  <2> QED BY <2>1, <2>2, TailFacts
<1>2. Len(got) \in Nat /\ written \in Nat /\ got \in Seq(Nat)
  BY DEF TypeOK
<1>3. \A p \in 1..Len(queue') :
        (IsData(p)' <=> IsData(p + 1)) /\ (IsClose(p)' <=> IsClose(p + 1))
  BY <1>1 DEF IsData, IsClose
<1>4. k = "data" => queue[1].n = Len(got) + 1 /\ Len(got) + 1 <= written
  <2> SUFFICES ASSUME k = "data" PROVE queue[1].n = Len(got) + 1 /\ Len(got) + 1 <= written
    OBVIOUS
  <2>1. IsData(1) /\ 1 \in 1..Len(queue) BY <1>1 DEF IsData
  <2>2. queue[1].n \in (Len(got) + 1)..written BY <2>1 DEF NoneMissing
  <2>3. PICK p \in 1..Len(queue) : IsData(p) /\ queue[p].n = Len(got) + 1
    BY <1>2, <2>2, SMTT(20) DEF NoneMissing
  <2>4. p = 1 \/ queue[1].n < queue[p].n
    BY <1>1, <2>1, <2>3 DEF NoneMissing
  <2> QED BY <1>2, <2>2, <2>3, <2>4
<1>5. Len(got') = (IF k = "data" THEN Len(got) + 1 ELSE Len(got))
  <2>1. k = "data" => queue[1].n \in Nat BY <1>2, <1>4
  <2> QED BY <1>1, <1>2, <2>1, AppendFacts
<1>6. NoneMissing'
  <2>1. ASSUME NEW p \in 1..Len(queue'), IsData(p)'
        PROVE  queue'[p].n \in (Len(got') + 1)..written
    <3>1. IsData(p + 1) /\ p + 1 \in 1..Len(queue) /\ queue'[p] = queue[p + 1]
      BY <1>1, <1>3, <2>1
    <3>2. queue[p + 1].n \in (Len(got) + 1)..written BY <3>1 DEF NoneMissing
    <3>3. CASE k = "data"
      <4>1. IsData(1) /\ 1 \in 1..Len(queue) /\ 1 < p + 1 BY <1>1, <3>3 DEF IsData
      <4>2. queue[1].n < queue[p + 1].n BY <3>1, <4>1 DEF NoneMissing
      <4> QED BY <1>2, <1>4, <1>5, <3>1, <3>2, <3>3, <4>2
    <3> QED BY <1>5, <3>1, <3>2, <3>3
  <2>2. ASSUME NEW m \in (Len(got') + 1)..written
        PROVE  \E p \in 1..Len(queue') : IsData(p)' /\ queue'[p].n = m
    <3>1. m \in (Len(got) + 1)..written /\ (k = "data" => m # Len(got) + 1)
      BY <1>2, <1>5
    <3>2. PICK p \in 1..Len(queue) : IsData(p) /\ queue[p].n = m
      BY <3>1 DEF NoneMissing
    <3>3. p # 1
      BY <1>1, <1>4, <3>1, <3>2 DEF IsData
    <3>4. p - 1 \in 1..Len(queue') /\ (p - 1) + 1 = p
      BY <1>1, <3>3
    <3>5. IsData(p - 1)' /\ queue'[p - 1] = queue[p]
      BY <1>1, <1>3, <3>2, <3>4
    <3> QED BY <3>2, <3>4, <3>5
  <2>3. ASSUME NEW p \in 1..Len(queue'), NEW q \in 1..Len(queue'),
               IsData(p)', IsData(q)', p < q
        PROVE  queue'[p].n < queue'[q].n
    <3>1. /\ IsData(p + 1) /\ IsData(q + 1) /\ p + 1 < q + 1
          /\ p + 1 \in 1..Len(queue) /\ q + 1 \in 1..Len(queue)
          /\ queue'[p] = queue[p + 1] /\ queue'[q] = queue[q + 1]
      BY <1>1, <1>3, <2>3
    <3> QED BY <3>1 DEF NoneMissing
  <2>4. Len(got') <= written BY <1>2, <1>4, <1>5 DEF NoneMissing
  <2> QED BY <2>1, <2>2, <2>3, <2>4 DEF NoneMissing
<1>7. CloseIsLast'
  <2>1. ASSUME NEW p \in 1..Len(queue'), IsClose(p)' PROVE p = Len(queue') /\ closed'
    <3>1. IsClose(p + 1) /\ p + 1 \in 1..Len(queue) BY <1>1, <1>3, <2>1
    <3>2. p + 1 = Len(queue) /\ closed BY <3>1 DEF CloseIsLast
    <3>3. Len(queue) \in Nat /\ Len(queue') = Len(queue) - 1 /\ Len(queue') \in Nat
      BY <1>1
    <3>4. p \in Nat BY <3>3
    <3>5. p = Len(queue') BY ONLY <3>2, <3>3, <3>4
    <3> QED BY <3>2, <3>5
  <2>2. closed' => written' = output' BY DEF CloseIsLast
  <2> QED BY <2>1, <2>2 DEF CloseIsLast
<1>8. GotIsPrefix'
  <2>1. CASE k # "data" BY <2>1 DEF GotIsPrefix
  <2>2. CASE k = "data"
    <3>1. got' = Append(got, Len(got) + 1) BY <1>1, <1>4, <2>2
    <3>2. \A n \in 1..Len(got) : got[n] = n BY DEF GotIsPrefix
    <3>3. got' \in Seq(Nat) BY DEF TypeOK
    <3>4. \A n \in 1..Len(got') : got'[n] = n BY <1>2, <3>1, <3>2, AppendFacts
    <3> QED BY <3>3, <3>4 DEF GotIsPrefix
  <2> QED BY <2>1, <2>2
<1>9. NotEnded' /\ AllTaken' /\ ReceivedTaken'
  BY DEF NotEnded, AllTaken, ReceivedTaken, Take
<1> QED BY <1>6, <1>7, <1>8, <1>9

LEMMA InvInit == Init => Inv
<1> SUFFICES ASSUME Init PROVE Inv
  OBVIOUS
<1>1. output \in 0..MaxOutput /\ MaxOutput \in Nat /\ MaxOther \in Nat
  BY ExecAssumption DEF Init
<1>2. TypeOK
  <2>1. <<>> \in Seq(Message) /\ <<>> \in Seq(Nat) OBVIOUS
  <2>2. output \in Nat /\ 0 \in 0..output /\ 0 \in 0..MaxOther BY <1>1
  <2> QED BY <1>1, <2>1, <2>2 DEF Init, TypeOK
<1>3. NoneMissing /\ CloseIsLast
  BY <1>1 DEF Init, NoneMissing, CloseIsLast, IsData, IsClose
<1>4. NotEnded /\ GotIsPrefix /\ AllTaken /\ ReceivedTaken
  BY DEF Init, NotEnded, GotIsPrefix, AllTaken, ReceivedTaken
<1> QED BY <1>2, <1>3, <1>4 DEF Inv

LEMMA InvStep == Inv /\ [Next]_vars => Inv'
<1> SUFFICES ASSUME Inv, [Next]_vars PROVE Inv'
  OBVIOUS
<1> USE DEF server, loop, answer
<1>0. TypeOK' BY TypeStep DEF Inv
<1>1. ASSUME UNCHANGED <<queue, got, written, closed, output>>,
             \/ UNCHANGED <<phase, ended>>
             \/ phase' # "returned" /\ phase # "returned" /\ ended' = ended
             \/ ended' = "error" /\ phase' = "returned"
      PROVE  Inv'
  BY <1>0, <1>1 DEF Inv, NoneMissing, CloseIsLast, NotEnded, GotIsPrefix,
     AllTaken, ReceivedTaken, IsData, IsClose
<1>2. CASE ServerWrites
  <2>1. written \in Nat BY ExecAssumption DEF Inv, TypeOK
  <2>2. [kind |-> "data", n |-> written + 1] \in Message BY <2>1, SignalFacts
  <2> QED BY <1>0, <1>2, <2>2, SendStep DEF ServerWrites, Serving
<1>3. CASE ServerStatus
  BY <1>0, <1>3, SendStep, SignalFacts DEF ServerStatus, Serving
<1>4. CASE ServerOther
  BY <1>0, <1>4, SendStep, SignalFacts DEF ServerOther, Serving
<1>5. CASE ServerCloses
  BY <1>0, <1>5, SendStep, SignalFacts DEF ServerCloses, Serving
<1>6. CASE LinkBreaks BY <1>1, <1>6 DEF LinkBreaks
<1>7. CASE Begin
  BY <1>1, <1>7 DEF Begin, Opens, Requests, OpenRefused, TransportGone, ChannelError
<1>8. CASE TakeData BY <1>0, <1>8, TakeStep DEF TakeData
<1>9. CASE TakeStatus BY <1>0, <1>9, TakeStep DEF TakeStatus
<1>10. CASE TakeOther BY <1>0, <1>10, TakeStep DEF TakeOther
<1>11. CASE TakeClose
  <2>1. /\ queue \in Seq(Message) /\ queue # <<>> /\ queue[1].kind = "close"
        /\ queue' = Tail(queue) /\ Len(got) \in Nat /\ written \in Nat
    BY <1>11, TailFacts DEF TakeClose, Take, Inv, TypeOK
  <2>2. Len(queue) \in Nat \ {0} /\ 1 \in 1..Len(queue)
    BY <2>1, TailFacts
  <2>3. Len(queue) = 1 /\ closed
    BY <2>1, <2>2 DEF Inv, CloseIsLast, IsClose
  <2>4. Len(queue') = 0
    BY <2>1, <2>3, TailFacts
  <2>5. (Len(got) + 1)..written = {}
    BY <2>1, <2>3 DEF Inv, NoneMissing, IsData
  <2>6. Len(got) = written /\ written = output
    BY <2>1, <2>3, <2>5 DEF Inv, NoneMissing, CloseIsLast
  <2>7. /\ UNCHANGED <<got, written, closed, output>>
        /\ ended' = "close" /\ phase' = "returned"
    BY <1>11 DEF TakeClose, Break
  <2> QED BY <1>0, <2>1, <2>4, <2>5, <2>6, <2>7
          DEF Inv, NoneMissing, CloseIsLast, NotEnded, GotIsPrefix, AllTaken,
              ReceivedTaken, IsData, IsClose
<1>12. CASE TakeNone \/ Quiet
  <2>1. /\ queue = <<>> /\ UNCHANGED <<queue, got, written, closed, output>>
        /\ ended' \in {"none", "quiet"} /\ phase' = "returned"
    BY <1>12 DEF TakeNone, Quiet, Break
  <2>2. Len(got) \in Nat /\ written \in Nat BY DEF Inv, TypeOK
  <2>3. Len(got) = written
    BY <2>1, <2>2 DEF Inv, NoneMissing, IsData
  <2> QED BY <1>0, <2>1, <2>3
          DEF Inv, NoneMissing, CloseIsLast, NotEnded, GotIsPrefix, AllTaken,
              ReceivedTaken, IsData, IsClose
<1>13. CASE Returned \/ UNCHANGED vars BY <1>1, <1>13 DEF Returned, vars
<1> QED BY <1>2, <1>3, <1>4, <1>5, <1>6, <1>7, <1>8, <1>9, <1>10, <1>11, <1>12, <1>13
       DEF Next, Server, Drain

LEMMA InvAlways == Spec => []Inv
BY InvInit, InvStep, PTL DEF Spec
-----------------------------------------------------------------------------
\* Every variable of an exec keeps to its type, for any output and any server.
THEOREM ExecTypeCorrect == Spec => []TypeOK
<1>1. Inv => TypeOK BY DEF Inv
<1> QED BY <1>1, InvAlways, PTL

\* What exec collects is a gap-free, ordered beginning of the output.
THEOREM GotAlwaysPrefix == Spec => []GotIsPrefix
<1>1. Inv => GotIsPrefix BY DEF Inv
<1> QED BY <1>1, InvAlways, PTL

\* What was collected is judged as a whole, when the loop ends.
Judged == ended \in {"close", "quiet", "none"} => (result = "ok" <=> Len(got) \notin Cuts)

LEMMA JudgedStep == Inv /\ Judged /\ [Next]_vars => Judged'
<1> SUFFICES ASSUME Inv, Judged, [Next]_vars PROVE Judged'
  OBVIOUS
<1> USE DEF Judged, server, loop, answer
<1>1. CASE TakeClose \/ TakeNone \/ Quiet
  BY <1>1 DEF TakeClose, TakeNone, Quiet, Break
<1>2. CASE TakeData \/ TakeStatus \/ TakeOther
  BY <1>2 DEF Inv, NotEnded, Take, TakeData, TakeStatus, TakeOther
<1>3. CASE Server \/ Begin \/ Returned \/ UNCHANGED vars
  BY <1>3 DEF Server, ServerWrites, ServerStatus, ServerOther, ServerCloses, LinkBreaks,
     Begin, Opens, Requests, OpenRefused, TransportGone, ChannelError, Returned, vars
<1> QED BY <1>1, <1>2, <1>3 DEF Next, Drain

\* An exec that ended with the server's CHANNEL_CLOSE has all the output, in
\* order, also when the exit status overtook most of it, and returns it if it
\* is text.
THEOREM CloseAlwaysComplete == Spec => []CloseMeansComplete
<1>1. Init => Judged BY DEF Init, Judged
<1>2. Inv /\ Judged => CloseMeansComplete
  BY DEF Inv, AllTaken, GotIsPrefix, Judged, CloseMeansComplete
<1> QED BY <1>1, <1>2, JudgedStep, InvAlways, PTL DEF Spec
-----------------------------------------------------------------------------
(***************************************************************************)
(* Exec implements Delivery: the output is what arrives, what exec collects *)
(* is handed over, and its return is the end.                              *)
(***************************************************************************)
\* Until the request is out, the server has nothing to send.
NothingYet == phase \in {"open", "request"} => written = 0 /\ got = <<>>

LEMMA NothingYetStep == NothingYet /\ [Next]_vars => NothingYet'
BY DEF NothingYet, Next, vars, Server, Begin, Drain, ServerWrites, ServerStatus,
   ServerOther, ServerCloses, LinkBreaks, Serving, Opens, Requests, OpenRefused,
   TransportGone, ChannelError, TakeData, TakeStatus, TakeOther, TakeClose, TakeNone,
   Quiet, Returned, Take, Break, server, loop, answer

\* In the invariant's states the mapping of what was handed over is an interval.
LEMMA Collected ==
  ASSUME Inv
  PROVE  /\ {got[n] : n \in 1..Len(got)} = 1..Len(got)
         /\ Len(got) \in Nat /\ written \in Nat /\ Len(got) <= written
<1>1. \A n \in 1..Len(got) : got[n] = n BY DEF Inv, GotIsPrefix
<1>2. Len(got) \in Nat /\ written \in Nat BY ExecAssumption DEF Inv, TypeOK
<1> QED BY <1>1, <1>2 DEF Inv, NoneMissing

LEMMA OutputStep ==
  Inv /\ Inv' /\ NothingYet /\ [Next]_vars => [Output!Next]_(Output!vars)
<1> SUFFICES ASSUME Inv, Inv', NothingYet, [Next]_vars
             PROVE  [Output!Next]_(Output!vars)
  OBVIOUS
<1> USE DEF server, loop, answer
<1>1. /\ {got[n] : n \in 1..Len(got)} = 1..Len(got)
      /\ Len(got) \in Nat /\ written \in Nat /\ Len(got) <= written
  BY Collected
<1>2. /\ {got'[n] : n \in 1..Len(got')} = 1..Len(got')
      /\ Len(got') \in Nat /\ written' \in Nat /\ Len(got') <= written'
  <2>1. \A n \in 1..Len(got') : got'[n] = n BY DEF Inv, GotIsPrefix
  <2>2. Len(got') \in Nat /\ written' \in Nat BY ExecAssumption DEF Inv, TypeOK
  <2> QED BY <2>1, <2>2 DEF Inv, NoneMissing
<1>3. ASSUME UNCHANGED <<written, got>>, phase' = "returned" <=> phase = "returned"
      PROVE  UNCHANGED Output!vars
  BY <1>3 DEF Output!vars
<1>4. CASE ServerWrites
  <2>1. /\ written' = written + 1 /\ got' = got
        /\ phase # "returned" /\ phase' # "returned"
    BY <1>4 DEF ServerWrites, Serving
  <2>2. Output!Arrive
    BY <1>1, <1>2, <2>1 DEF Output!Arrive
  <2> QED BY <2>2 DEF Output!Next
<1>5. CASE TakeData
  <2>1. /\ UNCHANGED <<written, phase>> /\ phase # "returned"
        /\ Len(got') = Len(got) + 1
    <3>1. got' = Append(got, Head(queue).n) /\ got \in Seq(Nat) /\ got' \in Seq(Nat)
      BY <1>5 DEF TakeData, Inv, TypeOK
    <3>2. Len(got') = Len(got) + 1
      BY <3>1
    <3> QED BY <1>5, <3>2 DEF TakeData, Take
  <2>2. 1..Len(got) \subseteq 1..Len(got') /\ 1..Len(got') \subseteq 1..written
    BY <1>1, <1>2, <2>1
  <2>3. \A n \in 1..Len(got'), m \in (1..written) \ (1..Len(got')) : n < m
    BY <1>1, <1>2
  <2>4. Output!HandOver
    BY <1>1, <1>2, <2>1, <2>2, <2>3 DEF Output!HandOver
  <2> QED BY <2>4 DEF Output!Next
<1>6. ASSUME phase # "returned", phase' = "returned", UNCHANGED <<written, got>>,
             written = Len(got)
      PROVE  Output!Next
  <2>1. Output!End BY <1>1, <1>6 DEF Output!End
  <2> QED BY <2>1 DEF Output!Next
<1>7. CASE OpenRefused \/ TransportGone
  BY <1>6, <1>7 DEF OpenRefused, TransportGone, ChannelError, NothingYet
<1>8. CASE TakeClose \/ TakeNone \/ Quiet
  <2>1. /\ phase = "read" /\ phase' = "returned" /\ UNCHANGED <<written, got, output>>
        /\ ended' \in {"close", "none", "quiet"}
    BY <1>8 DEF TakeClose, TakeNone, Quiet, Take, Break
  <2>2. Len(got') = written' \/ Len(got') = output'
    BY <2>1 DEF Inv, ReceivedTaken, AllTaken
  <2>3. written' <= output' /\ output' \in Nat
    BY ExecAssumption DEF Inv, TypeOK
  <2>4. written = Len(got)
    BY <1>2, <2>1, <2>2, <2>3
  <2> QED BY <1>6, <2>1, <2>4
<1>9. CASE ServerStatus \/ ServerOther \/ ServerCloses \/ LinkBreaks
  BY <1>3, <1>9 DEF ServerStatus, ServerOther, ServerCloses, LinkBreaks
<1>10. CASE Opens \/ Requests \/ TakeStatus \/ TakeOther \/ Returned \/ UNCHANGED vars
  BY <1>3, <1>10 DEF Opens, Requests, TakeStatus, TakeOther, Returned, vars
<1> QED BY <1>4, <1>5, <1>7, <1>8, <1>9, <1>10 DEF Next, Server, Begin, Drain

\* However the status, the timer, the link and the server's CLOSE fall, exec
\* collects the output in order and returns behind all of it that arrived.
THEOREM OutputAlwaysDelivered == Spec => Delivered
<1>1. Init => Output!Init /\ NothingYet
  <2> SUFFICES ASSUME Init PROVE Output!Init /\ NothingYet
    OBVIOUS
  <2>1. written = 0 /\ got = <<>> /\ phase = "open" BY DEF Init
  <2>2. 1..written = {} /\ {got[n] : n \in 1..Len(got)} = {} BY <2>1
  <2> QED BY <2>1, <2>2 DEF Output!Init, NothingYet
<1>2. NothingYet /\ [Next]_vars => NothingYet'
  BY NothingYetStep
<1>3. Inv /\ Inv' /\ NothingYet /\ [Next]_vars => [Output!Next]_(Output!vars)
  BY OutputStep
<1> QED BY <1>1, <1>2, <1>3, InvAlways, PTL DEF Spec, Delivered, Output!Spec
=============================================================================
