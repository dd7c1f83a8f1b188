--------------------------- MODULE ForwardsProofs ---------------------------
(***************************************************************************)
(* Forwards' safety for any number of threads, ports, channels and         *)
(* prompts: types, what becomes of the channels that were accepted, and    *)
(* what answers which call.                                                *)
(***************************************************************************)
EXTENDS Forwards, FiniteSetTheorems, TLAPS

\* The queue and the sink know of accepted channels only.
Known ==
  /\ \A n \in 1..Len(queue) : queue[n] \in 1..Len(accepted)
  /\ \A n \in 1..Len(handed) : handed[n] \in 1..Len(accepted)

Inv == TypeOK /\ Known /\ HandedOnceInOrder
-----------------------------------------------------------------------------
\* What Append does to a sequence.
LEMMA AppendFacts ==
  ASSUME NEW S, NEW s \in Seq(S), NEW e \in S
  PROVE  /\ Append(s, e) \in Seq(S)
         /\ Len(s) \in Nat
         /\ Len(Append(s, e)) = Len(s) + 1
         /\ \A n \in 1..Len(s) : Append(s, e)[n] = s[n]
         /\ Append(s, e)[Len(s) + 1] = e
OBVIOUS

\* What Head and Tail make of one that is not empty.
LEMMA TailFacts ==
  ASSUME NEW S, NEW s \in Seq(S), s # <<>>
  PROVE  /\ Len(s) \in Nat \ {0}
         /\ Head(s) \in S /\ Head(s) = s[1]
         /\ Tail(s) \in Seq(S) /\ Len(Tail(s)) = Len(s) - 1
         /\ \A n \in 1..(Len(s) - 1) : Tail(s)[n] = s[n + 1]
OBVIOUS

\* A callback takes a free worker, or none.
LEMMA BusyFacts ==
  ASSUME TypeOK
  PROVE  /\ Busy \in Nat
         /\ dispatcher # "calling" => Busy = prompts
         /\ dispatcher = "calling" => Busy = prompts + 1
         /\ FreeWorker => Busy + 1 <= Workers
BY DEF TypeOK, Busy, FreeWorker, Workers

\* TypeOK is inductive.
LEMMA TypeStep == TypeOK /\ [Next]_vars => TypeOK'
<1> SUFFICES ASSUME TypeOK, [Next]_vars PROVE TypeOK'
  OBVIOUS
<1> USE ForwardsAssumption DEF TypeOK, client, server, routing
<1>1. ASSUME NEW t \in Threads, Caller(t) PROVE TypeOK'
  <2>1. CASE Enter(t) BY <2>1 DEF Enter, Goto, Busy
  <2>2. CASE Ask(t) BY <2>2 DEF Ask, Goto, Busy
  <2>3. CASE AskFails(t) BY <2>3 DEF AskFails, Goto, Busy
  <2>4. CASE Return(t) BY <2>4 DEF Return, Goto, Busy
  <2> QED BY <1>1, <2>1, <2>2, <2>3, <2>4 DEF Caller
<1>2. CASE DialTarget \/ ConnectReturns
  BY <1>2 DEF DialTarget, ConnectReturns, Busy
<1>3. CASE SessionEnds BY <1>3 DEF SessionEnds, Busy
<1>4. CASE TakeReply
  <2>1. inbox' \in Seq(Ports \cup {"reply"})
    BY <1>4, TailFacts DEF TakeReply
  <2>2. pc' \in [Threads -> {"idle", "call", "asking", "answered"}]
    BY <1>4 DEF TakeReply
  <2> QED BY <1>4, <2>1, <2>2 DEF TakeReply, Busy
<1>5. CASE TakeOpen
  <2>1. inbox' \in Seq(Ports \cup {"reply"}) /\ Head(inbox) \in Ports \cup {"hop"}
    BY <1>5, TailFacts DEF TakeOpen
  <2>2. accepted' \in Seq(Ports \cup {"hop"})
    BY <1>5, <2>1, AppendFacts DEF TakeOpen, Accept
  <2>3. Len(accepted) + 1 \in Nat
    OBVIOUS
  <2>4. queue' \in Seq(Nat)
    BY <1>5, <2>3, AppendFacts DEF TakeOpen
  <2> QED BY <1>5, <2>1, <2>2, <2>4 DEF TakeOpen, Busy
<1>6. CASE HopOpens
  <2>1. accepted' \in Seq(Ports \cup {"hop"})
    BY <1>6, AppendFacts DEF HopOpens, Accept
  <2> QED BY <1>6, <2>1 DEF HopOpens, Busy
<1>7. CASE Dispatch
  <2>1. queue' \in Seq(Nat) /\ Head(queue) \in Nat
    BY <1>7, TailFacts DEF Dispatch
  <2>2. handed' \in Seq(Nat)
    BY <1>7, <2>1, AppendFacts DEF Dispatch
  <2>3. Busy' <= Workers
    BY <1>7, BusyFacts DEF Dispatch, Busy, FreeWorker, Workers
  <2> QED BY <1>7, <2>1, <2>2, <2>3 DEF Dispatch
<1>8. CASE DispatchEnds BY <1>8 DEF DispatchEnds, Busy
<1>9. CASE SinkReturns
  <2>1. Busy' <= Workers
    BY <1>9, BusyFacts DEF SinkReturns, Busy, Workers
  <2> QED BY <1>9, <2>1 DEF SinkReturns
<1>10. CASE VerifierAsks
  <2>1. Busy' <= Workers
    BY <1>10, BusyFacts DEF VerifierAsks, Busy, FreeWorker, Workers
  <2> QED BY <1>10, <2>1 DEF VerifierAsks
<1>11. CASE UserDecides
  <2>1. Busy' <= Workers /\ prompts' \in Nat
    BY <1>11, BusyFacts DEF UserDecides, Busy, Workers
  <2> QED BY <1>11, <2>1 DEF UserDecides
<1>12. CASE ServerAnswers
  <2>1. inbox' \in Seq(Ports \cup {"reply"})
    BY <1>12, AppendFacts DEF ServerAnswers
  <2>2. bound' \subseteq Ports
    BY <1>12 DEF ServerAnswers, NoAsk, Asks
  <2> QED BY <1>12, <2>1, <2>2 DEF ServerAnswers, Busy
<1>13. ASSUME NEW p \in Ports, ServerOpens(p) PROVE TypeOK'
  <2>1. inbox' \in Seq(Ports \cup {"reply"})
    BY <1>13, AppendFacts DEF ServerOpens
  <2> QED BY <1>13, <2>1 DEF ServerOpens, Busy
<1>14. CASE Finished \/ UNCHANGED vars BY <1>14 DEF Finished, vars, Busy
<1> QED
  BY <1>1, <1>2, <1>3, <1>4, <1>5, <1>6, <1>7, <1>8, <1>9, <1>10, <1>11, <1>12, <1>13,
     <1>14 DEF Next, Task, Dispatcher, Server

LEMMA InvInit == Init => Inv
<1> SUFFICES ASSUME Init PROVE Inv
  OBVIOUS
<1>1. TypeOK
  BY ForwardsAssumption DEF Init, TypeOK, Busy, Workers
<1>2. Known /\ HandedOnceInOrder
  BY DEF Init, Known, HandedOnceInOrder, Held
<1> QED BY <1>1, <1>2 DEF Inv
-----------------------------------------------------------------------------
\* An accepted channel that is queued is the newest, and waits at the end.
LEMMA OpenKeeps ==
  ASSUME Inv, TakeOpen
  PROVE  Known' /\ HandedOnceInOrder'
<1> DEFINE new == Len(accepted) + 1
<1>0. /\ accepted \in Seq(Ports \cup {"hop"}) /\ queue \in Seq(Nat)
      /\ handed \in Seq(Nat) /\ Head(inbox) \in Ports
      /\ inbox \in Seq(Ports \cup {"reply"}) /\ handed' = handed
      /\ accepted' = Append(accepted, Head(inbox)) /\ queue' = Append(queue, new)
  BY DEF Inv, TypeOK, TakeOpen, Accept
<1>1. /\ Len(accepted) \in Nat /\ Len(accepted') = new
      /\ \A k \in 1..Len(accepted) : accepted'[k] = accepted[k]
      /\ accepted'[new] = Head(inbox)
  BY <1>0, AppendFacts
<1>2. /\ Len(queue) \in Nat /\ Len(queue') = Len(queue) + 1
      /\ \A n \in 1..Len(queue) : queue'[n] = queue[n]
      /\ queue'[Len(queue) + 1] = new
  BY <1>0, <1>1, AppendFacts
<1>3. \A n \in 1..Len(queue') : n \in 1..Len(queue) \/ n = Len(queue) + 1
  BY <1>2
<1>4. Len(handed) \in Nat /\ Len(queue) + 1 \in 1..Len(queue')
  BY <1>0, <1>2
<1>5. \A k \in 1..Len(accepted') : k \in 1..Len(accepted) \/ k = new
  BY <1>1
<1>6. new \in 1..Len(accepted') /\ 1..Len(accepted) \subseteq 1..Len(accepted')
  BY <1>1
<1>known. Known BY DEF Inv
<1>order. HandedOnceInOrder BY DEF Inv
<1> HIDE DEF new
<1>7. Known'
  BY <1>0, <1>2, <1>3, <1>6, <1>known DEF Known
<1>8. \A k : Held(k)' <=> Held(k) \/ k = new
  BY <1>0, <1>2, <1>3, <1>4 DEF Held
<1>9. ASSUME NEW k \in 1..Len(accepted') PROVE Held(k)' <=> accepted'[k] \in Ports
  BY <1>0, <1>1, <1>5, <1>8, <1>order DEF HandedOnceInOrder, new
<1>10. \A n \in 1..Len(queue) : queue[n] < new
  BY <1>1, <1>known DEF Known, new
<1>11. \A n \in 1..Len(handed) : handed[n] < new
  BY <1>1, <1>known DEF Known, new
<1>12. \A m, n \in 1..Len(queue') : m < n => queue'[m] < queue'[n]
  <2>1. SUFFICES ASSUME NEW m \in 1..Len(queue'), NEW n \in 1..Len(queue'), m < n
                 PROVE  queue'[m] < queue'[n]
    OBVIOUS
  <2>2. m \in 1..Len(queue) BY <1>2, <1>3, <2>1
  <2>3. CASE n = Len(queue) + 1 BY <1>2, <1>10, <2>2, <2>3
  <2>4. CASE n \in 1..Len(queue) BY <1>2, <1>order, <2>1, <2>2, <2>4 DEF HandedOnceInOrder
  <2> QED BY <1>3, <2>3, <2>4
<1>13. \A m \in 1..Len(handed), n \in 1..Len(queue') : handed[m] < queue'[n]
  BY <1>2, <1>3, <1>11, <1>order DEF HandedOnceInOrder
<1> QED BY <1>0, <1>7, <1>9, <1>12, <1>13, <1>order DEF HandedOnceInOrder

\* A jump hop's channel is accepted, and nobody knows of it.
LEMMA HopKeeps ==
  ASSUME Inv, HopOpens
  PROVE  Known' /\ HandedOnceInOrder'
<1> DEFINE new == Len(accepted) + 1
<1>0. /\ accepted \in Seq(Ports \cup {"hop"})
      /\ accepted' = Append(accepted, "hop") /\ UNCHANGED <<queue, handed>>
  BY DEF Inv, TypeOK, HopOpens, Accept
<1>1. /\ Len(accepted) \in Nat /\ Len(accepted') = new
      /\ \A k \in 1..Len(accepted) : accepted'[k] = accepted[k]
      /\ accepted'[new] = "hop"
  BY <1>0, AppendFacts
<1>2. Known'
  BY <1>0, <1>1 DEF Inv, Known
<1>3. \A k : Held(k)' <=> Held(k)
  BY <1>0 DEF Held
<1>4. ~Held(new)
  BY <1>1 DEF Inv, Known, Held
<1>5. \A k \in 1..Len(accepted') : Held(k)' <=> accepted'[k] \in Ports
  <2>1. \A k \in 1..Len(accepted') : k \in 1..Len(accepted) \/ k = new
    BY <1>1
  <2> QED BY <1>1, <1>3, <1>4, <2>1, ForwardsAssumption DEF Inv, HandedOnceInOrder
<1> QED BY <1>0, <1>2, <1>5 DEF Inv, HandedOnceInOrder

\* The sink is given the channel that has waited longest.
LEMMA DispatchKeeps ==
  ASSUME Inv, Dispatch
  PROVE  Known' /\ HandedOnceInOrder'
<1>0. /\ queue \in Seq(Nat) /\ handed \in Seq(Nat) /\ queue # <<>>
      /\ queue' = Tail(queue) /\ handed' = Append(handed, Head(queue))
      /\ accepted' = accepted
  BY DEF Inv, TypeOK, Dispatch, routing
<1>1. /\ Len(queue) \in Nat \ {0} /\ Head(queue) = queue[1] /\ Head(queue) \in Nat
      /\ Len(queue') = Len(queue) - 1
      /\ \A n \in 1..(Len(queue) - 1) : queue'[n] = queue[n + 1]
  BY <1>0, TailFacts
<1>2. /\ Len(handed) \in Nat /\ Len(handed') = Len(handed) + 1
      /\ \A n \in 1..Len(handed) : handed'[n] = handed[n]
      /\ handed'[Len(handed) + 1] = queue[1]
  BY <1>0, <1>1, AppendFacts
<1>3. \A n \in 1..Len(handed') : n \in 1..Len(handed) \/ n = Len(handed) + 1
  BY <1>2
<1>4. Len(handed) + 1 \in 1..Len(handed') /\ 1..Len(handed) \subseteq 1..Len(handed')
  BY <1>2
<1>5. \A n \in 1..Len(queue') : n + 1 \in 1..Len(queue) /\ 1 < n + 1 /\ queue'[n] = queue[n + 1]
  BY <1>1
<1>6. \A n \in 1..Len(queue) : n = 1 \/ (n - 1 \in 1..Len(queue') /\ queue'[n - 1] = queue[n])
  BY <1>1
<1>7. 1 \in 1..Len(queue)
  BY <1>1
<1>known. Known BY DEF Inv
<1>order. HandedOnceInOrder BY DEF Inv
<1>8. Known'
  BY <1>0, <1>2, <1>3, <1>5, <1>7, <1>known DEF Known
<1>9. ASSUME NEW k PROVE Held(k)' <=> Held(k)
  <2>1. Held(k)' => Held(k)
    BY <1>2, <1>3, <1>5, <1>7 DEF Held
  <2>2. Held(k) => Held(k)'
    BY <1>2, <1>4, <1>6 DEF Held
  <2> QED BY <2>1, <2>2
<1>10. \A m, n \in 1..Len(handed') : m < n => handed'[m] < handed'[n]
  BY <1>2, <1>3, <1>7, <1>order DEF HandedOnceInOrder
<1>11. \A m, n \in 1..Len(queue') : m < n => queue'[m] < queue'[n]
  BY <1>1, <1>5, <1>order DEF HandedOnceInOrder
<1>12. \A m \in 1..Len(handed'), n \in 1..Len(queue') : handed'[m] < queue'[n]
  BY <1>2, <1>3, <1>5, <1>7, <1>order DEF HandedOnceInOrder
<1> QED BY <1>0, <1>8, <1>9, <1>10, <1>11, <1>12, <1>order DEF HandedOnceInOrder

LEMMA InvStep == Inv /\ [Next]_vars => Inv'
<1> SUFFICES ASSUME Inv, [Next]_vars PROVE Known' /\ HandedOnceInOrder'
  BY TypeStep DEF Inv
<1>1. CASE UNCHANGED <<accepted, queue, handed>>
  BY <1>1 DEF Inv, Known, HandedOnceInOrder, Held
<1>2. CASE TakeOpen BY <1>2, OpenKeeps
<1>3. CASE HopOpens BY <1>3, HopKeeps
<1>4. CASE Dispatch BY <1>4, DispatchKeeps
<1>5. ASSUME NEW t \in Threads, Caller(t) PROVE UNCHANGED <<accepted, queue, handed>>
  BY <1>5 DEF Caller, Enter, Ask, AskFails, Return, routing
<1>6. ASSUME DialTarget \/ ConnectReturns \/ SessionEnds \/ TakeReply \/ DispatchEnds
               \/ SinkReturns \/ VerifierAsks \/ UserDecides \/ Server \/ Finished
               \/ UNCHANGED vars
      PROVE  UNCHANGED <<accepted, queue, handed>>
  BY <1>6 DEF DialTarget, ConnectReturns, SessionEnds, TakeReply, DispatchEnds,
     SinkReturns, VerifierAsks, UserDecides, Server, ServerAnswers, ServerOpens,
     Finished, vars, routing
<1> QED BY <1>1, <1>2, <1>3, <1>4, <1>5, <1>6 DEF Next, Task, Dispatcher

LEMMA InvAlways == Spec => []Inv
BY InvInit, InvStep, PTL DEF Spec
-----------------------------------------------------------------------------
\* Every value in every reachable state is one the model means; never more
\* callbacks run than the runtime has workers.
THEOREM ForwardsTypeCorrect == Spec => []TypeOK
<1>1. Inv => TypeOK BY DEF Inv
<1> QED BY <1>1, InvAlways, PTL

\* For any traffic, every channel the target's handler accepted is queued or
\* handed to the sink, once and in order, and a jump hop's never is.
THEOREM AlwaysHandedOnceInOrder == Spec => []HandedOnceInOrder
<1>1. Inv => HandedOnceInOrder BY DEF Inv
<1> QED BY <1>1, InvAlways, PTL
-----------------------------------------------------------------------------
(***************************************************************************)
(* Forwards implements Delivery: the target's channels are what arrives,   *)
(* what the sink was given is handed over, the dispatcher's end is the end.*)
(***************************************************************************)
\* While the session is up its handler holds a sender, and the dispatcher has
\* not ended; when it has, nothing waits for it.
Ending ==
  /\ session = "up" => "handler" \in router
  /\ dispatcher = "ended" => router = {} /\ queue = <<>>

LEMMA EndingStep == Ending /\ [Next]_vars => Ending'
<1> SUFFICES ASSUME Ending, [Next]_vars PROVE Ending'
  OBVIOUS
<1> USE DEF Ending, client, server, routing
<1>1. ASSUME NEW t \in Threads, Caller(t) PROVE Ending'
  BY <1>1 DEF Caller, Enter, Ask, AskFails, Return
<1>2. CASE DialTarget \/ ConnectReturns \/ SessionEnds
  BY <1>2 DEF DialTarget, ConnectReturns, SessionEnds
<1>3. CASE Task
  BY <1>3 DEF Task, TakeReply, TakeOpen, HopOpens
<1>4. CASE Dispatcher
  BY <1>4 DEF Dispatcher, Dispatch, DispatchEnds, SinkReturns
<1>5. CASE VerifierAsks \/ UserDecides \/ Server \/ Finished \/ UNCHANGED vars
  BY <1>5 DEF VerifierAsks, UserDecides, Server, ServerAnswers, ServerOpens, Finished, vars
<1> QED BY <1>1, <1>2, <1>3, <1>4, <1>5 DEF Next

\* The two sides of the mapping, in the invariant's states.
Targets == {k \in 1..Len(accepted) : accepted[k] \in Ports}
Given   == {handed[n] : n \in 1..Len(handed)}
Waiting == {queue[n] : n \in 1..Len(queue)}

LEMMA SplitFacts ==
  ASSUME Inv
  PROVE  /\ Given \subseteq Targets /\ Targets \subseteq Given \cup Waiting
         /\ Targets \subseteq Nat
         /\ \A n \in Given, m \in Waiting : n < m
         /\ Waiting \subseteq Targets
<1>1. /\ Given \subseteq 1..Len(accepted) /\ Waiting \subseteq 1..Len(accepted)
      /\ \A k : Held(k) <=> k \in Given \cup Waiting
  BY DEF Inv, Known, Given, Waiting, Held
<1>2. /\ \A k \in 1..Len(accepted) : Held(k) <=> accepted[k] \in Ports
      /\ \A n \in Given, m \in Waiting : n < m
  BY DEF Inv, HandedOnceInOrder, Given, Waiting
<1>3. 1..Len(accepted) \subseteq Nat
  BY DEF Inv, TypeOK
<1> QED BY <1>1, <1>2, <1>3 DEF Targets

LEMMA ConnectionsStep ==
  Inv /\ Inv' /\ Ending /\ [Next]_vars => [Connections!Next]_(Connections!vars)
<1> SUFFICES ASSUME Inv, Inv', Ending, [Next]_vars
             PROVE  [Connections!Next]_(Connections!vars)
  OBVIOUS
<1>0. /\ accepted \in Seq(Ports \cup {"hop"}) /\ Len(accepted) \in Nat
      /\ queue \in Seq(Nat) /\ handed \in Seq(Nat)
  BY DEF Inv, TypeOK
<1>1. ASSUME Targets' = Targets, Given' = Given, dispatcher' = "ended" <=> dispatcher = "ended"
      PROVE  UNCHANGED Connections!vars
  BY <1>1 DEF Targets, Given, Connections!vars
<1>2. CASE TakeOpen
  <2>1. /\ accepted' = Append(accepted, Head(inbox)) /\ Head(inbox) \in Ports
        /\ handed' = handed /\ dispatcher' = dispatcher /\ dispatcher # "ended"
    BY <1>2 DEF TakeOpen, Accept, Ending
  <2>2. /\ Len(accepted') = Len(accepted) + 1
        /\ \A k \in 1..Len(accepted) : accepted'[k] = accepted[k]
        /\ accepted'[Len(accepted) + 1] = Head(inbox)
    BY <1>0, <2>1, AppendFacts
  <2>3. Targets' = Targets \cup {Len(accepted) + 1}
    BY <1>0, <2>1, <2>2 DEF Targets
  <2>4. \A n \in Targets : n < Len(accepted) + 1
    BY <1>0 DEF Targets
  <2>5. Targets \subseteq Nat /\ Len(accepted) + 1 \in Nat
    BY <1>0, SplitFacts
  <2>6. Given' = Given
    BY <2>1 DEF Given
  <2>7. /\ Targets \subseteq Targets' /\ Targets' \subseteq Nat
        /\ \A n \in Targets, m \in Targets' \ Targets : n < m
    BY <2>3, <2>4, <2>5
  <2>8. Connections!Arrive
    BY <2>1, <2>6, <2>7 DEF Connections!Arrive, Targets, Given
  <2> QED BY <2>8 DEF Connections!Next
<1>3. CASE HopOpens
  <2>1. /\ accepted' = Append(accepted, "hop") /\ UNCHANGED <<handed, dispatcher>>
    BY <1>3 DEF HopOpens, Accept
  <2>2. /\ Len(accepted') = Len(accepted) + 1
        /\ \A k \in 1..Len(accepted) : accepted'[k] = accepted[k]
        /\ accepted'[Len(accepted) + 1] = "hop"
    BY <1>0, <2>1, AppendFacts
  <2>3. Targets' = Targets
    BY <1>0, <2>2, ForwardsAssumption DEF Targets
  <2> QED BY <1>1, <2>1, <2>3 DEF Given
<1>4. CASE Dispatch
  <2>1. /\ dispatcher # "ended" /\ dispatcher' # "ended" /\ accepted' = accepted
        /\ queue # <<>> /\ queue' = Tail(queue) /\ handed' = Append(handed, Head(queue))
    BY <1>4 DEF Dispatch, routing
  <2>2. Head(queue) \in Nat BY <1>0, <2>1, TailFacts
  <2>3. /\ Len(handed) \in Nat /\ Len(handed') = Len(handed) + 1
        /\ \A n \in 1..Len(handed) : handed'[n] = handed[n]
    BY <1>0, <2>1, <2>2, AppendFacts
  <2>4. Given \subseteq Given'
    BY <2>3 DEF Given
  <2>5. Targets' = Targets
    BY <2>1 DEF Targets
  <2>6. Given' \subseteq Targets' /\ \A n \in Given', m \in Targets' \ Given' : n < m
    <3>1. /\ Given' \subseteq Targets' /\ Targets' \subseteq Given' \cup Waiting'
          /\ \A n \in Given', m \in Waiting' : n < m
      <4>1. /\ Given' \subseteq 1..Len(accepted') /\ Waiting' \subseteq 1..Len(accepted')
            /\ \A k : Held(k)' <=> k \in Given' \cup Waiting'
        BY DEF Inv, Known, Given, Waiting, Held
      <4>2. /\ \A k \in 1..Len(accepted') : Held(k)' <=> accepted'[k] \in Ports
            /\ \A n \in Given', m \in Waiting' : n < m
        BY DEF Inv, HandedOnceInOrder, Given, Waiting
      <4> QED BY <4>1, <4>2 DEF Targets
    <3> QED BY <3>1
  <2>7. Connections!HandOver
    BY <2>1, <2>4, <2>5, <2>6 DEF Connections!HandOver, Targets, Given
  <2> QED BY <2>7 DEF Connections!Next
<1>5. CASE DispatchEnds
  <2>1. /\ dispatcher = "waiting" /\ dispatcher' = "ended" /\ queue = <<>>
        /\ UNCHANGED <<accepted, handed>>
    BY <1>5 DEF DispatchEnds
  <2>2. Given = Targets
    <3>1. Waiting = {} BY <2>1 DEF Waiting
    <3> QED BY <3>1, SplitFacts
  <2>3. Connections!End
    BY <2>1, <2>2 DEF Connections!End, Targets, Given
  <2> QED BY <2>3 DEF Connections!Next
<1>6. CASE SinkReturns
  BY <1>1, <1>6 DEF SinkReturns, Targets, Given
<1>7. ASSUME UNCHANGED <<accepted, handed, dispatcher>> PROVE UNCHANGED Connections!vars
  BY <1>1, <1>7 DEF Targets, Given
<1>8. ASSUME NEW t \in Threads, Caller(t) PROVE UNCHANGED <<accepted, handed, dispatcher>>
  BY <1>8 DEF Caller, Enter, Ask, AskFails, Return, routing
<1>9. ASSUME DialTarget \/ ConnectReturns \/ SessionEnds \/ TakeReply \/ VerifierAsks
               \/ UserDecides \/ Server \/ Finished \/ UNCHANGED vars
      PROVE  UNCHANGED <<accepted, handed, dispatcher>>
  BY <1>9 DEF DialTarget, ConnectReturns, SessionEnds, TakeReply, VerifierAsks,
     UserDecides, Server, ServerAnswers, ServerOpens, Finished, vars, routing
<1> QED
  BY <1>2, <1>3, <1>4, <1>5, <1>6, <1>7, <1>8, <1>9 DEF Next, Task, Dispatcher

\* However requests, cancels, the session's end and slow sinks fall, the sink
\* is given the target's channels in order and the dispatcher ends behind the
\* last of them.
THEOREM ConnectionsAlwaysDelivered == Spec => Delivered
<1>1. Init => Ending /\ Connections!Init
  <2> SUFFICES ASSUME Init PROVE Ending /\ Connections!Init
    OBVIOUS
  <2>1. Targets = {} /\ Given = {} BY DEF Init, Targets, Given
  <2> QED BY <2>1 DEF Init, Ending, Connections!Init, Targets, Given
<1> QED
  BY <1>1, EndingStep, ConnectionsStep, InvAlways, PTL
  DEF Spec, Delivered, Connections!Spec
-----------------------------------------------------------------------------
(***************************************************************************)
(* Answers and calls.                                                      *)
(***************************************************************************)
Asking  == {t \in Threads : pc[t] = "asking"}
Replies == {n \in 1..Len(inbox) : inbox[n] = "reply"}

\* The lock's holder is the one thread that asks; while the session is up its
\* request or the answer to it, and never both, is on its way.
Paired ==
  /\ \A t, u \in Asking : t = u
  /\ session = "none" => Asking = {}
  /\ session # "up" => ask = NoAsk /\ inbox = <<>>
  /\ \A m, n \in Replies : m = n
  /\ ask # NoAsk => Replies = {}
  /\ session = "up" => (Asking # {} <=> ask # NoAsk \/ Replies # {})

LEMMA PairedStep == TypeOK /\ Paired /\ [Next]_vars => Paired'
<1> SUFFICES ASSUME TypeOK, Paired, [Next]_vars PROVE Paired'
  OBVIOUS
<1> USE DEF client, server, routing
<1>0. /\ inbox \in Seq(Ports \cup {"reply"}) /\ Len(inbox) \in Nat
      /\ pc \in [Threads -> {"idle", "call", "asking", "answered"}]
      /\ "reply" \notin Ports
  BY ForwardsAssumption DEF TypeOK
<1>1. ASSUME Asking' = Asking, UNCHANGED <<ask, inbox, session>> PROVE Paired'
  BY <1>1 DEF Paired, Replies
<1>2. ASSUME NEW t \in Threads, Enter(t) \/ Return(t) PROVE Paired'
  <2>1. Asking' = Asking BY <1>0, <1>2 DEF Asking, Enter, Return, Goto
  <2> QED BY <1>1, <1>2, <2>1 DEF Enter, Return
<1>3. ASSUME NEW t \in Threads, Ask(t) PROVE Paired'
  <2>1. /\ Asking = {} /\ session = "up" /\ ask' \in Asks
        /\ UNCHANGED <<inbox, session>> /\ pc' = [pc EXCEPT ![t] = "asking"]
    BY <1>3 DEF Ask, HandleLockFree, Asking, Goto
  <2>2. Asking' = {t} BY <1>0, <2>1 DEF Asking
  <2>3. ask' # NoAsk BY <2>1 DEF Asks, NoAsk
  <2>4. Replies = {} /\ Replies' = Replies BY <2>1 DEF Paired, Replies
  <2> QED BY <2>1, <2>2, <2>3, <2>4 DEF Paired
<1>4. ASSUME NEW t \in Threads, AskFails(t) PROVE Paired'
  <2>1. /\ session # "up" /\ pc' = [pc EXCEPT ![t] = "answered"]
        /\ UNCHANGED <<ask, inbox, session>>
    BY <1>4 DEF AskFails, Goto
  <2>2. Asking' \subseteq Asking BY <1>0, <2>1 DEF Asking
  <2> QED BY <2>1, <2>2 DEF Paired, Replies
<1>5. CASE DialTarget
  <2>1. /\ session = "none" /\ session' = "up" /\ UNCHANGED <<ask, inbox, pc>>
    BY <1>5 DEF DialTarget
  <2>2. Asking = {} /\ ask = NoAsk /\ inbox = <<>> BY <2>1 DEF Paired
  <2>3. Replies' = {} /\ Asking' = {} BY <2>1, <2>2 DEF Replies, Asking
  <2> QED BY <2>1, <2>2, <2>3 DEF Paired
<1>6. CASE SessionEnds
  <2>1. /\ session' = "over" /\ ask' = NoAsk /\ inbox' = <<>> /\ pc' = pc
    BY <1>6 DEF SessionEnds
  <2>2. Replies' = {} /\ Asking' = Asking BY <2>1 DEF Replies, Asking
  <2> QED BY <2>1, <2>2 DEF Paired
<1>7. CASE TakeReply
  <2>1. /\ session = "up" /\ session' = session /\ ask' = ask /\ inbox # <<>>
        /\ Head(inbox) = "reply" /\ inbox' = Tail(inbox)
        /\ pc' = [t \in Threads |-> IF pc[t] = "asking" THEN "answered" ELSE pc[t]]
    BY <1>7 DEF TakeReply
  <2>2. /\ Len(inbox) \in Nat \ {0} /\ inbox[1] = "reply" /\ Len(inbox') = Len(inbox) - 1
        /\ \A n \in 1..(Len(inbox) - 1) : inbox'[n] = inbox[n + 1]
    BY <1>0, <2>1, TailFacts
  <2>3. 1 \in Replies BY <2>2 DEF Replies
  <2>4. Replies' = {}
    <3>1. \A n \in Replies' : n + 1 \in Replies /\ n + 1 # 1
      BY <2>2 DEF Replies
    <3> QED BY <2>3, <3>1 DEF Paired
  <2>5. Asking' = {} BY <2>1 DEF Asking
  <2>6. ask' = NoAsk BY <2>1, <2>3 DEF Paired
  <2> QED BY <2>1, <2>4, <2>5, <2>6 DEF Paired
<1>8. CASE TakeOpen
  <2>1. /\ session = "up" /\ session' = session /\ ask' = ask /\ inbox # <<>>
        /\ Head(inbox) \in Ports /\ inbox' = Tail(inbox) /\ pc' = pc
    BY <1>8 DEF TakeOpen
  <2>2. /\ Len(inbox) \in Nat \ {0} /\ inbox[1] # "reply" /\ Len(inbox') = Len(inbox) - 1
        /\ \A n \in 1..(Len(inbox) - 1) : inbox'[n] = inbox[n + 1]
    BY <1>0, <2>1, TailFacts
  <2>3. \A n \in Replies' : n \in Nat /\ n + 1 \in Replies
    BY <2>2 DEF Replies
  <2>4. \A n \in Replies : n - 1 \in Replies'
    <3>1. ASSUME NEW n \in Replies PROVE n - 1 \in Replies'
      <4>1. n \in 1..Len(inbox) /\ n # 1 /\ inbox[n] = "reply"
        BY <2>2 DEF Replies
      <4>2. n - 1 \in 1..(Len(inbox) - 1) /\ (n - 1) + 1 = n BY <2>2, <4>1
      <4> QED BY <2>2, <4>1, <4>2 DEF Replies
    <3> QED BY <3>1
  <2>5. \A m, n \in Replies' : m = n
    <3>1. \A m, n \in Replies' : m + 1 = n + 1 /\ m \in Nat /\ n \in Nat
      BY <2>3 DEF Paired
    <3> QED BY <3>1
  <2>6. Replies' = {} <=> Replies = {} BY <2>3, <2>4
  <2>7. Asking' = Asking BY <2>1 DEF Asking
  <2> QED BY <2>1, <2>5, <2>6, <2>7 DEF Paired
<1>9. CASE ServerAnswers
  <2>1. /\ session = "up" /\ session' = session /\ ask # NoAsk /\ ask' = NoAsk
        /\ inbox' = Append(inbox, "reply") /\ pc' = pc
    BY <1>9 DEF ServerAnswers
  <2>2. /\ Len(inbox') = Len(inbox) + 1 /\ inbox'[Len(inbox) + 1] = "reply"
        /\ \A n \in 1..Len(inbox) : inbox'[n] = inbox[n]
    BY <1>0, <2>1, AppendFacts
  <2>3. Replies = {} BY <2>1 DEF Paired
  <2>4. Replies' = {Len(inbox) + 1} BY <1>0, <2>2, <2>3 DEF Replies
  <2>5. Asking' = Asking BY <2>1 DEF Asking
  <2> QED BY <2>1, <2>4, <2>5 DEF Paired
<1>10. ASSUME NEW p \in Ports, ServerOpens(p) PROVE Paired'
  <2>1. /\ session = "up" /\ session' = session /\ ask' = ask
        /\ inbox' = Append(inbox, p) /\ pc' = pc
    BY <1>10 DEF ServerOpens
  <2>2. /\ Len(inbox') = Len(inbox) + 1 /\ inbox'[Len(inbox) + 1] = p
        /\ \A n \in 1..Len(inbox) : inbox'[n] = inbox[n]
    BY <1>0, <2>1, AppendFacts
  <2>3. p # "reply" BY <1>0
  <2>4. Replies' = Replies BY <1>0, <2>2, <2>3 DEF Replies
  <2>5. Asking' = Asking BY <2>1 DEF Asking
  <2> QED BY <2>1, <2>4, <2>5 DEF Paired
<1>11. CASE ConnectReturns \/ HopOpens \/ Dispatcher \/ VerifierAsks \/ UserDecides
              \/ Finished \/ UNCHANGED vars
  <2>1. UNCHANGED <<pc, ask, inbox, session>>
    BY <1>11 DEF ConnectReturns, HopOpens, Dispatcher, Dispatch, DispatchEnds,
       SinkReturns, VerifierAsks, UserDecides, Finished, vars
  <2> QED BY <1>1, <2>1 DEF Asking
<1> QED
  BY <1>2, <1>3, <1>4, <1>5, <1>6, <1>7, <1>8, <1>9, <1>10, <1>11
  DEF Next, Caller, Task, Server

\* A set of at most one member has as many.
LEMMA AtMostOne ==
  ASSUME NEW S, \A m, n \in S : m = n
  PROVE  /\ S = {} => Cardinality(S) = 0
         /\ S # {} => Cardinality(S) = 1
<1>1. S = {} => Cardinality(S) = 0 BY FS_EmptySet
<1>2. ASSUME S # {} PROVE Cardinality(S) = 1
  <2>1. PICK m \in S : S = {m} BY <1>2
  <2> QED BY <2>1, FS_Singleton
<1> QED BY <1>1, <1>2

\* For any number of threads and any traffic, a call that waits for its answer
\* has exactly one coming, and no answer comes that no call waits for.
THEOREM AlwaysOneAnswerPerCall == Spec => []OneAnswerPerCall
<1>1. Init => Paired
  <2> SUFFICES ASSUME Init PROVE Paired
    OBVIOUS
  <2>1. Asking = {} /\ Replies = {} BY DEF Init, Asking, Replies
  <2> QED BY <2>1 DEF Init, Paired
<1>2. Paired => OneAnswerPerCall
  <2> SUFFICES ASSUME Paired, session = "up"
               PROVE  Cardinality(Asking) = (IF ask = NoAsk THEN 0 ELSE 1) + Cardinality(Replies)
    BY DEF OneAnswerPerCall, Asking, Replies
  <2>1. /\ Asking = {} => Cardinality(Asking) = 0
        /\ Asking # {} => Cardinality(Asking) = 1
    BY AtMostOne DEF Paired
  <2>2. /\ Replies = {} => Cardinality(Replies) = 0
        /\ Replies # {} => Cardinality(Replies) = 1
    BY AtMostOne DEF Paired
  <2>3. /\ ask # NoAsk => Replies = {}
        /\ Asking # {} <=> ask # NoAsk \/ Replies # {}
    BY DEF Paired
  <2> QED BY <2>1, <2>2, <2>3
<1>3. Inv => TypeOK BY DEF Inv
<1> QED BY <1>1, <1>2, <1>3, PairedStep, InvAlways, PTL DEF Spec
=============================================================================
