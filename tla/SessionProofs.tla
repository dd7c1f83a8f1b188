--------------------------- MODULE SessionProofs ---------------------------
(***************************************************************************)
(* Session's safety for any number of threads, hops and messages.          *)
(***************************************************************************)
EXTENDS Session, TLAPS

\* Until somebody takes the handle, the teardown has everything still to do.
OpenWhole ==
  handle = "open" =>
    pending = Conns /\ \A i \in Conns : conn[i] \notin {"bye", "dropped"}

\* Whatever the teardown has ended, the connection riding it has had its bye.
ByesInTurn ==
  \A i \in Conns \ {1} :
    conn[i - 1] \in {"bye", "dropped"} => handle = "released" \/ i \notin pending

\* How far the closer is decides what can have gone out on the shell.
ShellProgress ==
  /\ writeHalf \in {"held", "eof"} => wire \notin {"eof", "close"}
  /\ writeHalf = "close" /\ conn[Target] \in Up => wire = "eof"

Locks == CallsOwnTheirHandle /\ NoHalfClosed /\ OpenWhole
-----------------------------------------------------------------------------
LEMMA TargetIsConn == Target \in Conns /\ Conns \subseteq Nat
BY SessionAssumption DEF Target, Conns

LEMMA EventIsEvent ==
  ASSUME NEW n \in Nat, NEW k \in {"Data", "ExitStatus", "Closed", "Died"}
  PROVE  [kind |-> k, of |-> n] \in Event
BY DEF Event, Terminal

\* TypeOK is inductive.
LEMMA TypeStep == TypeOK /\ [Next]_vars => TypeOK'
<1> SUFFICES ASSUME TypeOK, [Next]_vars PROVE TypeOK'
  OBVIOUS
<1> USE DEF TypeOK, callers, shell, chain, stream, Goto, Up, Down
<1>1. ASSUME NEW t \in Threads, Caller(t) PROVE TypeOK'
  <2>1. CASE Enter(t) BY <2>1 DEF Enter
  <2>2. CASE WriteLock(t) BY <2>2 DEF WriteLock
  <2>3. CASE WriteSent(t)
    <3>1. window - 1 \in 0..Window
      BY <2>3, SessionAssumption DEF WriteSent
    <3> QED BY <2>3, <3>1 DEF WriteSent
  <2>4. CASE WriteFailed(t) BY <2>4 DEF WriteFailed
  <2>5. CASE Resize(t) BY <2>5 DEF Resize
  <2>6. CASE CallLock(t) BY <2>6 DEF CallLock
  <2>7. CASE CallAnswered(t) BY <2>7 DEF CallAnswered
  <2>8. CASE CallFailed(t) BY <2>8 DEF CallFailed
  <2>9. CASE DisconnectShell(t) BY <2>9 DEF DisconnectShell
  <2>10. CASE DisconnectHandle(t) BY <2>10 DEF DisconnectHandle
  <2> QED BY <1>1, <2>1, <2>2, <2>3, <2>4, <2>5, <2>6, <2>7, <2>8, <2>9, <2>10
          DEF Caller
<1>2. CASE Release BY <1>2 DEF Release
<1>3. CASE Closer BY <1>3 DEF Closer, CloserEof, CloserClose
<1>4. CASE Teardown
  <2>1. ASSUME NEW i \in Conns, ByeAnswered(i) \/ ByeRefused(i) \/ ByeTimeout(i)
        PROVE TypeOK'
    BY <2>1, TargetIsConn DEF ByeAnswered, ByeRefused, ByeTimeout, EndBye
  <2>2. CASE ByeLate BY <2>2, TargetIsConn DEF ByeLate
  <2>3. CASE TeardownEnds BY <2>3, TargetIsConn DEF TeardownEnds
  <2> QED BY <1>4, <2>1, <2>2, <2>3 DEF Teardown
<1>5. CASE Links
  BY <1>5 DEF Links, GoesSilent, Breaks, Detects, Orphaned
<1>6. CASE Server
  <2>1. ASSUME NEW m \in Payload, ServerSends(m) PROVE TypeOK'
    BY <2>1 DEF ServerSends
  <2>2. CASE ServerCloses BY <2>2 DEF ServerCloses
  <2>3. CASE ServerWidens
    <3>1. window + 1 \in 0..Window
      BY <2>3, SessionAssumption DEF ServerWidens
    <3> QED BY <2>3, <3>1 DEF ServerWidens
  <2> QED BY <1>6, <2>1, <2>2, <2>3 DEF Server
<1>7. CASE Pump
  <2> DEFINE told(k, n) == events' = Append(events, [kind |-> k, of |-> n])
  <2>1. ASSUME NEW k \in {"Data", "ExitStatus", "Closed", "Died"}, NEW n \in Nat,
               told(k, n)
        PROVE  events' \in Seq(Event)
    <3>1. [kind |-> k, of |-> n] \in Event
      BY EventIsEvent
    <3>2. events \in Seq(Event)
      OBVIOUS
    <3> QED BY ONLY <2>1, <3>1, <3>2 DEF told
  <2>2. read + 1 \in Nat /\ read \in Nat
    OBVIOUS
  <2>3. CASE PumpData BY <2>3, <2>1, <2>2 DEF PumpData, Tell
  <2>4. CASE PumpStatus BY <2>4, <2>1, <2>2 DEF PumpStatus, Tell
  <2>5. CASE PumpSkip BY <2>5 DEF PumpSkip
  <2>6. CASE PumpClose BY <2>6, <2>1, <2>2 DEF PumpClose, Tell
  <2>7. CASE PumpDead BY <2>7, <2>1, <2>2 DEF PumpDead, Tell
  <2> QED BY <1>7, <2>3, <2>4, <2>5, <2>6, <2>7 DEF Pump
<1>8. CASE Finished BY <1>8 DEF Finished, vars
<1>9. CASE UNCHANGED vars BY <1>9 DEF vars
<1> QED BY <1>1, <1>2, <1>3, <1>4, <1>5, <1>6, <1>7, <1>8, <1>9 DEF Next

LEMMA TypeInit == Init => TypeOK
BY SessionAssumption DEF Init, TypeOK, Up, Down, Event, Payload

\* Every value in every reachable state is one the model means.
THEOREM TypeCorrect == Spec => []TypeOK
<1>1. Init => TypeOK BY TypeInit
<1>2. TypeOK /\ [Next]_vars => TypeOK' BY TypeStep
<1> QED BY <1>1, <1>2, PTL DEF Spec
-----------------------------------------------------------------------------
\* What the callers hold is theirs: the locks' half of the invariant. A step
\* that touches no lock, no half and no bye keeps it.
LEMMA LocksStep == TypeOK /\ Locks /\ [Next]_vars => Locks'
<1> SUFFICES ASSUME TypeOK, Locks, [Next]_vars PROVE Locks'
  OBVIOUS
<1> USE DEF TypeOK, Locks, CallsOwnTheirHandle, NoHalfClosed, OpenWhole,
            callers, shell, chain, stream, Goto
<1>1. ASSUME NEW t \in Threads, Caller(t) PROVE Locks'
  <2>1. CASE Enter(t) BY <2>1 DEF Enter
  <2>2. CASE WriteLock(t) BY <2>2 DEF WriteLock
  <2>3. CASE WriteSent(t) BY <2>3 DEF WriteSent
  <2>4. CASE WriteFailed(t) BY <2>4 DEF WriteFailed
  <2>5. CASE Resize(t) BY <2>5 DEF Resize
  <2>6. CASE CallLock(t) BY <2>6 DEF CallLock
  <2>7. CASE CallAnswered(t) BY <2>7 DEF CallAnswered
  <2>8. CASE CallFailed(t) BY <2>8 DEF CallFailed
  <2>9. CASE DisconnectShell(t) BY <2>9 DEF DisconnectShell, WriteLockFree
  <2>10. CASE DisconnectHandle(t) BY <2>10 DEF DisconnectHandle, HandleLockFree
  <2> QED BY <1>1, <2>1, <2>2, <2>3, <2>4, <2>5, <2>6, <2>7, <2>8, <2>9, <2>10
          DEF Caller
<1>2. CASE Release BY <1>2 DEF Release
<1>3. CASE Closer BY <1>3 DEF Closer, CloserEof, CloserClose
<1>4. CASE Teardown
  BY <1>4 DEF Teardown, ByeAnswered, ByeRefused, ByeTimeout, EndBye, ByeLate, TeardownEnds
<1>5. CASE Links
  BY <1>5 DEF Links, GoesSilent, Breaks, Detects, Orphaned
<1>6. CASE Server
  BY <1>6 DEF Server, ServerSends, ServerCloses, ServerWidens
<1>7. CASE Pump
  BY <1>7 DEF Pump, PumpData, PumpStatus, PumpSkip, PumpClose, PumpDead
<1>8. CASE UNCHANGED vars BY <1>8 DEF vars
<1> QED BY <1>1, <1>2, <1>3, <1>4, <1>5, <1>6, <1>7, <1>8 DEF Next, Finished

LEMMA LocksInit == Init => Locks
BY DEF Init, Locks, CallsOwnTheirHandle, NoHalfClosed, OpenWhole

LEMMA LocksAlways == Spec => [](TypeOK /\ Locks)
<1>1. Init => TypeOK /\ Locks BY TypeInit, LocksInit
<1>2. TypeOK /\ Locks /\ [Next]_vars => (TypeOK /\ Locks)'
  BY TypeStep, LocksStep
<1> QED BY <1>1, <1>2, PTL DEF Spec

\* A call in progress keeps the handle it started with, a write its half.
THEOREM CallsKeepTheirHandle == Spec => []CallsOwnTheirHandle
<1>1. Locks => CallsOwnTheirHandle BY DEF Locks
<1> QED BY <1>1, LocksAlways, PTL

\* However many callers disconnect, none leaves a half-closed session behind.
THEOREM NeverHalfClosed == Spec => []NoHalfClosed
<1>1. Locks => NoHalfClosed BY DEF Locks
<1> QED BY <1>1, LocksAlways, PTL
-----------------------------------------------------------------------------
\* Byes go innermost first, so the connection above an ended one had its bye.
LEMMA ByesStep == TypeOK /\ Locks /\ ByesInTurn /\ [Next]_vars => ByesInTurn'
<1> SUFFICES ASSUME TypeOK, Locks, ByesInTurn, [Next]_vars PROVE ByesInTurn'
  OBVIOUS
<1> USE DEF TypeOK, ByesInTurn, callers, shell, chain, stream
<1>1. ASSUME NEW t \in Threads, Caller(t) PROVE ByesInTurn'
  <2>1. CASE DisconnectHandle(t)
    BY <2>1 DEF DisconnectHandle, Locks, OpenWhole, Conns
  <2>2. CASE ~DisconnectHandle(t)
    BY <1>1, <2>2 DEF Caller, Enter, WriteLock, WriteSent, WriteFailed, Resize,
       CallLock, CallAnswered, CallFailed, DisconnectShell
  <2> QED BY <2>1, <2>2
<1>2. CASE Release BY <1>2 DEF Release
<1>3. CASE Closer BY <1>3 DEF Closer, CloserEof, CloserClose
<1>4. CASE Teardown
  <2>1. ASSUME NEW i \in Conns, NEW how \in {"bye", "dropped"} \cup Up,
               how = conn[i] \/ how \in {"bye", "dropped"},
               ByeTurn(i), EndBye(i, how)
        PROVE  ByesInTurn'
    <3> SUFFICES ASSUME NEW j \in Conns \ {1}, conn'[j - 1] \in {"bye", "dropped"},
                        handle' # "released"
                 PROVE  j \notin pending'
      OBVIOUS
    <3>1. CASE j - 1 = i
      BY <2>1, <3>1 DEF ByeTurn, EndBye, Conns
    <3>2. CASE j - 1 # i
      <4>1. j - 1 \in Conns
        BY SessionAssumption DEF Conns
      <4> QED BY <2>1, <3>2, <4>1 DEF EndBye
    <3> QED BY <3>1, <3>2
  <2>2. ASSUME NEW i \in Conns, ByeAnswered(i) \/ ByeRefused(i) \/ ByeTimeout(i)
        PROVE  ByesInTurn'
    BY <2>1, <2>2 DEF ByeAnswered, ByeRefused, ByeTimeout
  <2>3. CASE ByeLate \/ TeardownEnds
    <3>1. \A j \in Conns \ {1} : j - 1 \in Conns /\ j - 1 # Target
      BY SessionAssumption DEF Conns, Target
    <3> QED BY <2>3, <3>1 DEF ByeLate, TeardownEnds
  <2> QED BY <1>4, <2>2, <2>3 DEF Teardown
<1>5. CASE Links
  <2> SUFFICES ASSUME NEW i \in Conns, NEW to \in {"silent", "lost", "orphaned"},
                      conn' = [conn EXCEPT ![i] = to],
                      UNCHANGED <<handle, pending>>
               PROVE  ByesInTurn'
    BY <1>5 DEF Links, GoesSilent, Breaks, Detects, Orphaned
  <2>1. \A j \in Conns \ {1} : j - 1 \in Conns
    BY SessionAssumption DEF Conns
  <2> QED BY <2>1
<1>6. CASE Server
  BY <1>6 DEF Server, ServerSends, ServerCloses, ServerWidens
<1>7. CASE Pump
  BY <1>7 DEF Pump, PumpData, PumpStatus, PumpSkip, PumpClose, PumpDead
<1>8. CASE UNCHANGED vars BY <1>8 DEF vars
<1> QED BY <1>1, <1>2, <1>3, <1>4, <1>5, <1>6, <1>7, <1>8 DEF Next, Finished

\* A teardown never ends a connection from under one it has not said bye to.
THEOREM NeverKilledSilently == Spec => []NoSilentKill
<1>1. Init => ByesInTurn
  <2>1. \A j \in Conns \ {1} : j - 1 \in Conns
    BY SessionAssumption DEF Conns
  <2> QED BY <2>1 DEF Init, ByesInTurn
<1>2. TypeOK /\ Locks /\ ByesInTurn /\ [Next]_vars => ByesInTurn'
  BY ByesStep
<1>3. ByesInTurn => NoSilentKill
  BY DEF ByesInTurn, NoSilentKill
<1> QED BY <1>1, <1>2, <1>3, LocksAlways, PTL DEF Spec
-----------------------------------------------------------------------------
\* What may have gone out on the shell, given how far the closer is. A
\* connection that is down stays down, so what failed to go out stays unsent.
LEMMA ShellStep ==
  TypeOK /\ Locks /\ ShellProgress /\ [Next]_vars => ShellProgress'
<1> SUFFICES ASSUME TypeOK, Locks, ShellProgress, [Next]_vars PROVE ShellProgress'
  OBVIOUS
<1> USE TargetIsConn DEF TypeOK, ShellProgress, callers, shell, chain, stream, Goto
<1>1. ASSUME NEW t \in Threads, Caller(t) PROVE ShellProgress'
  <2>1. CASE WriteSent(t)
    BY <2>1 DEF WriteSent, Locks, CallsOwnTheirHandle
  <2>2. CASE Resize(t) BY <2>2 DEF Resize
  <2>3. CASE DisconnectShell(t) BY <2>3 DEF DisconnectShell
  <2>4. CASE ~WriteSent(t) /\ ~Resize(t) /\ ~DisconnectShell(t)
    BY <1>1, <2>4 DEF Caller, Enter, WriteLock, WriteFailed, CallLock, CallAnswered,
       CallFailed, DisconnectHandle
  <2> QED BY <2>1, <2>2, <2>3, <2>4
<1>2. CASE Release BY <1>2 DEF Release
<1>3. CASE CloserEof BY <1>3 DEF CloserEof
<1>4. CASE CloserClose BY <1>4 DEF CloserClose
<1>5. ASSUME UNCHANGED <<writeHalf, wire>>, conn'[Target] \in Up => conn[Target] \in Up
      PROVE  ShellProgress'
  BY <1>5
<1>6. CASE Teardown
  <2>1. UNCHANGED <<writeHalf, wire>>
    BY <1>6 DEF Teardown, ByeAnswered, ByeRefused, ByeTimeout, EndBye, ByeLate,
       TeardownEnds
  <2>2. conn'[Target] \in Up => conn[Target] \in Up
    BY <1>6 DEF Teardown, ByeAnswered, ByeRefused, ByeTimeout, EndBye, ByeLate,
       TeardownEnds, Up
  <2> QED BY <1>5, <2>1, <2>2
<1>7. CASE Links
  <2>1. UNCHANGED <<writeHalf, wire>>
    BY <1>7 DEF Links, GoesSilent, Breaks, Detects, Orphaned
  <2>2. conn'[Target] \in Up => conn[Target] \in Up
    BY <1>7 DEF Links, GoesSilent, Breaks, Detects, Orphaned, Up
  <2> QED BY <1>5, <2>1, <2>2
<1>8. CASE Server
  BY <1>8 DEF Server, ServerSends, ServerCloses, ServerWidens
<1>9. CASE Pump
  BY <1>9 DEF Pump, PumpData, PumpStatus, PumpSkip, PumpClose, PumpDead
<1>10. CASE UNCHANGED vars BY <1>10 DEF vars
<1> QED BY <1>1, <1>2, <1>3, <1>4, <1>6, <1>7, <1>8, <1>9, <1>10
       DEF Next, Finished, Closer

\* The action behind ShellEndsInOrder.
EndsInOrder ==
  /\ wire \in {"eof", "close"} => wire' \in {wire, "close"}
  /\ wire' = "close" => wire \in {"eof", "close"}

LEMMA ShellOrderStep ==
  TypeOK /\ Locks /\ ShellProgress /\ [Next]_vars => EndsInOrder
<1> SUFFICES ASSUME TypeOK, Locks, ShellProgress, [Next]_vars PROVE EndsInOrder
  OBVIOUS
<1> USE DEF TypeOK, ShellProgress, EndsInOrder, callers, shell, chain, stream
<1>1. ASSUME NEW t \in Threads, Caller(t) PROVE EndsInOrder
  <2>1. CASE WriteSent(t)
    BY <2>1 DEF WriteSent, Locks, CallsOwnTheirHandle
  <2>2. CASE Resize(t) BY <2>2 DEF Resize
  <2>3. CASE ~WriteSent(t) /\ ~Resize(t)
    BY <1>1, <2>3 DEF Caller, Enter, WriteLock, WriteFailed, CallLock, CallAnswered,
       CallFailed, DisconnectShell, DisconnectHandle
  <2> QED BY <2>1, <2>2, <2>3
<1>2. CASE Closer BY <1>2 DEF Closer, CloserEof, CloserClose
<1>3. CASE wire' = wire BY <1>3
<1>4. CASE Release BY <1>3, <1>4 DEF Release
<1>5. CASE Teardown
  BY <1>3, <1>5 DEF Teardown, ByeAnswered, ByeRefused, ByeTimeout, EndBye, ByeLate,
     TeardownEnds
<1>6. CASE Links BY <1>3, <1>6 DEF Links, GoesSilent, Breaks, Detects, Orphaned
<1>7. CASE Server BY <1>3, <1>7 DEF Server, ServerSends, ServerCloses, ServerWidens
<1>8. CASE Pump
  BY <1>3, <1>8 DEF Pump, PumpData, PumpStatus, PumpSkip, PumpClose, PumpDead
<1>9. CASE UNCHANGED vars BY <1>3, <1>9 DEF vars
<1> QED BY <1>1, <1>2, <1>4, <1>5, <1>6, <1>7, <1>8, <1>9 DEF Next, Finished

\* The shell's last two frames are EOF and CLOSE, in this order, whatever
\* writes and resizes other threads had under way.
THEOREM ShellAlwaysEndsInOrder == Spec => ShellEndsInOrder
<1>1. Init => ShellProgress BY DEF Init, ShellProgress
<1>2. TypeOK /\ Locks /\ ShellProgress /\ [Next]_vars => ShellProgress'
  BY ShellStep
<1>3. TypeOK /\ Locks /\ ShellProgress /\ [Next]_vars => [EndsInOrder]_vars
  BY ShellOrderStep
<1> QED BY <1>1, <1>2, <1>3, LocksAlways, PTL DEF Spec, ShellEndsInOrder, EndsInOrder
-----------------------------------------------------------------------------
(***************************************************************************)
(* Session implements EventStream. The pump's cursor is not part of the    *)
(* promise: these facts say what it stands for.                            *)
(***************************************************************************)
\* Everything before the cursor has been reported or is not shown, nothing
\* behind it has, and a CHANNEL_CLOSE before it has ended the pump.
Cursor ==
  /\ \A n \in 1..Len(events) : events[n].of <= read
  /\ \A k \in 1..read :
       /\ sent[k] # "eof" => \E n \in 1..Len(events) : events[n].of = k
       /\ sent[k] = "close" => PumpOver

\* A pump that has stopped has nothing more to come.
Ended == PumpOver => ServerClosed \/ conn[Target] \in Down

LEMMA AppendFacts ==
  ASSUME NEW S, NEW s \in Seq(S), NEW e \in S
  PROVE  /\ Len(Append(s, e)) = Len(s) + 1
         /\ \A n \in 1..Len(s) : Append(s, e)[n] = s[n]
         /\ Append(s, e)[Len(s) + 1] = e
OBVIOUS

\* One event more: what it means for the sink's view.
LEMMA TellFacts ==
  ASSUME TypeOK, NEW k \in {"Data", "ExitStatus", "Closed", "Died"},
         NEW m \in Nat, Tell(k, m)
  PROVE  /\ Len(events') = Len(events) + 1
         /\ \A n \in 1..Len(events) : events'[n] = events[n]
         /\ events'[Len(events) + 1].kind = k
         /\ events'[Len(events) + 1].of = m
         /\ Len(events) \in Nat
<1>1. [kind |-> k, of |-> m] \in Event BY EventIsEvent
<1>2. events \in Seq(Event) BY DEF TypeOK
<1>3. events' = Append(events, [kind |-> k, of |-> m]) BY DEF Tell
<1> QED BY <1>1, <1>2, <1>3, AppendFacts

LEMMA CursorStep == TypeOK /\ Cursor /\ [Next]_vars => Cursor'
<1> SUFFICES ASSUME TypeOK, Cursor, [Next]_vars PROVE Cursor'
  OBVIOUS
<1> USE DEF callers, shell, chain, stream
<1>0. /\ sent \in Seq(Payload \cup {"close"}) /\ read \in 0..Len(sent)
      /\ Len(sent) \in Nat /\ Len(events) \in Nat
  BY DEF TypeOK
<1>of. \A n \in 1..Len(events) : events[n].of \in Nat
  <2>1. events \in Seq(Event) BY DEF TypeOK
  <2>2. \A n \in 1..Len(events) : events[n] \in Event BY <2>1
  <2> QED BY <2>2 DEF Event
<1>1. CASE UNCHANGED <<sent, read, events>>
  BY <1>1 DEF Cursor, PumpOver
<1>2. ASSUME NEW m \in Payload \cup {"close"}, sent' = Append(sent, m),
             UNCHANGED <<read, events>>
      PROVE  Cursor'
  <2>1. \A k \in 1..read : sent'[k] = sent[k]
    BY <1>0, <1>2, AppendFacts
  <2> QED BY <1>2, <2>1 DEF Cursor, PumpOver
<1>3. ASSUME NEW k \in {"Data", "ExitStatus", "Closed"}, Tell(k, read + 1),
             read < Len(sent), read' = read + 1, UNCHANGED sent,
             sent[read + 1] = "close" => k = "Closed"
      PROVE  Cursor'
  <2>1. /\ Len(events') = Len(events) + 1
        /\ \A n \in 1..Len(events) : events'[n] = events[n]
        /\ events'[Len(events) + 1].kind = k
        /\ events'[Len(events) + 1].of = read + 1
    BY <1>0, <1>3, TellFacts
  <2>2. ASSUME NEW n \in 1..Len(events') PROVE events'[n].of <= read'
    <3>1. CASE n = Len(events) + 1 BY <1>0, <1>3, <2>1, <3>1
    <3>2. CASE n \in 1..Len(events)
      <4>1. events'[n].of \in Nat /\ events'[n].of <= read
        BY <1>of, <2>1, <3>2 DEF Cursor
      <4> QED BY <1>0, <1>3, <4>1
    <3> QED BY <1>0, <2>1, <3>1, <3>2
  <2>3. PumpOver => PumpOver'
    BY <1>0, <2>1 DEF PumpOver
  <2>4. k = "Closed" => PumpOver'
    BY <1>0, <2>1 DEF PumpOver, Terminal
  <2>5. ASSUME NEW j \in 1..read'
        PROVE  /\ sent'[j] # "eof" => \E n \in 1..Len(events') : events'[n].of = j
               /\ sent'[j] = "close" => PumpOver'
    <3>1. CASE j = read + 1 BY <1>0, <1>3, <2>1, <2>4, <3>1
    <3>2. CASE j \in 1..read
      <4>1. /\ sent[j] # "eof" => \E n \in 1..Len(events) : events[n].of = j
            /\ sent[j] = "close" => PumpOver
        BY <3>2 DEF Cursor
      <4>2. \A n \in 1..Len(events) :
              n \in 1..Len(events') /\ events'[n].of = events[n].of
        BY <1>0, <2>1
      <4> QED BY <1>3, <2>3, <4>1, <4>2
    <3> QED BY <1>0, <1>3, <3>1, <3>2
  <2> QED BY <2>2, <2>5 DEF Cursor
<1>4. CASE PumpDead
  <2>1. /\ Len(events') = Len(events) + 1
        /\ \A n \in 1..Len(events) : events'[n] = events[n]
        /\ events'[Len(events) + 1].kind = "Died"
        /\ events'[Len(events) + 1].of = read
    BY <1>0, <1>4, TellFacts DEF PumpDead
  <2>2. PumpOver'
    BY <1>0, <2>1 DEF PumpOver, Terminal
  <2>3. UNCHANGED <<sent, read>> BY <1>4 DEF PumpDead
  <2>4. ASSUME NEW n \in 1..Len(events') PROVE events'[n].of <= read'
    BY <1>0, <2>1, <2>3 DEF Cursor
  <2>5. \A k \in 1..read :
          sent[k] # "eof" => \E n \in 1..Len(events') : events'[n].of = k
    BY <1>0, <2>1 DEF Cursor
  <2> QED BY <2>2, <2>3, <2>4, <2>5 DEF Cursor
<1>5. CASE PumpSkip
  <2>1. /\ sent[read + 1] = "eof" /\ read' = read + 1 /\ read < Len(sent)
        /\ UNCHANGED <<sent, events>>
    BY <1>5 DEF PumpSkip
  <2>2. \A n \in 1..Len(events) : events[n].of <= read + 1
    BY <1>0, <1>of DEF Cursor
  <2>3. PumpOver' = PumpOver
    BY <2>1 DEF PumpOver
  <2>4. \A k \in 1..(read + 1) : k \in 1..read \/ k = read + 1
    BY <1>0
  <2> QED BY <2>1, <2>2, <2>3, <2>4 DEF Cursor
<1>6. CASE Server
  BY <1>1, <1>2, <1>6 DEF Server, ServerSends, ServerCloses, ServerWidens
<1>7. CASE PumpData \/ PumpStatus \/ PumpClose
  BY <1>3, <1>7 DEF PumpData, PumpStatus, PumpClose
<1>8. CASE (\E t \in Threads : Caller(t)) \/ Release
  BY <1>1, <1>8 DEF Caller, Enter, WriteLock, WriteSent, WriteFailed, Resize, CallLock,
     CallAnswered, CallFailed, DisconnectShell, DisconnectHandle, Release
<1>9. CASE Closer \/ Teardown \/ Links \/ UNCHANGED vars
  BY <1>1, <1>9 DEF Closer, CloserEof, CloserClose, Teardown, ByeAnswered, ByeRefused,
     ByeTimeout, EndBye, ByeLate, TeardownEnds, Links, GoesSilent, Breaks, Detects,
     Orphaned, vars
<1> QED BY <1>4, <1>5, <1>6, <1>7, <1>8, <1>9 DEF Next, Pump, Finished

LEMMA EndedStep == TypeOK /\ Ended /\ [Next]_vars => Ended'
<1> SUFFICES ASSUME TypeOK, Ended, [Next]_vars PROVE Ended'
  OBVIOUS
<1> USE TargetIsConn DEF callers, shell, chain, stream
<1>0. conn \in [Conns -> Up \cup Down] /\ Len(sent) \in Nat /\ sent \in Seq(Payload \cup {"close"})
  BY DEF TypeOK
<1>1. ASSUME UNCHANGED <<sent, events>>, conn[Target] \in Down => conn'[Target] \in Down
      PROVE  Ended'
  BY <1>1 DEF Ended, PumpOver, ServerClosed
<1>2. ASSUME NEW m \in Payload \cup {"close"}, sent' = Append(sent, m), ~ServerClosed,
             Reachable(Target), UNCHANGED events
      PROVE  Ended'
  <2>1. Target \in 1..Target
    BY SessionAssumption DEF Target
  <2>2. conn[Target] \notin Down
    BY <1>2, <2>1 DEF Reachable, Down
  <2>3. ~PumpOver BY <1>2, <2>2 DEF Ended
  <2> QED BY <1>2, <2>3 DEF Ended, PumpOver
<1>3. CASE PumpData \/ PumpStatus
  <2>1. PICK k \in {"Data", "ExitStatus"} : Tell(k, read + 1)
    BY <1>3 DEF PumpData, PumpStatus
  <2>2. read + 1 \in Nat BY DEF TypeOK
  <2>3. /\ Len(events') = Len(events) + 1
        /\ \A n \in 1..Len(events) : events'[n] = events[n]
        /\ events'[Len(events) + 1].kind = k
        /\ Len(events) \in Nat
    BY <2>1, <2>2, TellFacts
  <2>4. ~PumpOver BY <1>3 DEF PumpData, PumpStatus
  <2>5. ASSUME NEW n \in 1..Len(events') PROVE events'[n].kind \notin Terminal
    BY <2>3, <2>4 DEF PumpOver, Terminal
  <2> QED BY <2>5 DEF Ended, PumpOver
<1>4. CASE PumpClose
  <2>1. read + 1 \in 1..Len(sent) /\ sent[read + 1] = "close" /\ sent' = sent
    BY <1>4 DEF PumpClose, TypeOK
  <2> QED BY <2>1 DEF Ended, ServerClosed
<1>5. CASE PumpDead BY <1>5 DEF PumpDead, Ended
<1>6. CASE PumpSkip BY <1>1, <1>6 DEF PumpSkip
<1>7. CASE Server
  BY <1>1, <1>2, <1>7 DEF Server, ServerSends, ServerCloses, ServerWidens
<1>8. CASE (\E t \in Threads : Caller(t)) \/ Closer \/ UNCHANGED vars
  BY <1>1, <1>8 DEF Caller, Enter, WriteLock, WriteSent, WriteFailed, Resize, CallLock,
     CallAnswered, CallFailed, DisconnectShell, DisconnectHandle, Closer, CloserEof,
     CloserClose, vars
<1>9. CASE Release BY <1>0, <1>1, <1>9 DEF Release, Up, Down
<1>10. CASE Teardown
  BY <1>0, <1>1, <1>10 DEF Teardown, ByeAnswered, ByeRefused, ByeTimeout, EndBye, ByeLate,
     TeardownEnds, Reachable, Up, Down
<1>11. CASE Links
  BY <1>0, <1>1, <1>11 DEF Links, GoesSilent, Breaks, Detects, Orphaned, Up, Down
<1> QED BY <1>3, <1>4, <1>5, <1>6, <1>7, <1>8, <1>9, <1>10, <1>11 DEF Next, Pump, Finished

LEMMA StreamAlways == Spec => [](TypeOK /\ Cursor /\ Ended)
<1>1. Init => TypeOK /\ Cursor /\ Ended
  BY TypeInit DEF Init, Cursor, Ended, PumpOver
<1>2. TypeOK /\ Cursor /\ Ended /\ [Next]_vars => (TypeOK /\ Cursor /\ Ended)'
  BY TypeStep, CursorStep, EndedStep
<1> QED BY <1>1, <1>2, PTL DEF Spec

\* Every step of the session is a step of the promise, or none of it.
LEMMA PromiseStep ==
  TypeOK /\ Cursor /\ Ended /\ [Next]_vars => [Promise!Next]_(Promise!vars)
<1> SUFFICES ASSUME TypeOK, Cursor, Ended, [Next]_vars
             PROVE  [Promise!Next]_(Promise!vars)
  OBVIOUS
<1> USE DEF callers, shell, chain, stream
<1>0. /\ sent \in Seq(Payload \cup {"close"}) /\ read \in 0..Len(sent)
      /\ Len(sent) \in Nat /\ Len(events) \in Nat
      /\ \A k \in 1..Len(sent) : sent[k] \in {"data", "stderr", "status", "eof", "close"}
  BY DEF TypeOK, Payload
<1>over. PumpOver <=> Promise!Over
  BY DEF PumpOver, Promise!Over, Terminal, Promise!Terminal
<1>done. ServerClosed <=> Promise!ServerDone
  BY DEF ServerClosed, Promise!ServerDone
<1>1. CASE UNCHANGED <<sent, events>>
  BY <1>1 DEF Promise!vars
<1>2. ASSUME NEW m \in Payload \cup {"close"}, sent' = Append(sent, m), ~ServerClosed,
             Reachable(Target), UNCHANGED events
      PROVE  Promise!Next
  <2>1. Target \in 1..Target
    BY SessionAssumption DEF Target
  <2>2. conn[Target] \notin Down
    BY <1>2, <2>1 DEF Reachable, Down
  <2>3. ~Promise!Over /\ ~Promise!ServerDone
    BY <1>2, <1>over, <1>done, <2>2 DEF Ended
  <2>4. Promise!Send(m)
    BY <1>2, <2>3 DEF Promise!Send
  <2>5. m \in Promise!Message
    BY DEF Payload, Promise!Message, Promise!Payload
  <2> QED BY <2>4, <2>5 DEF Promise!Next
<1>due. ASSUME NEW k \in 1..read PROVE k \notin Promise!Due
  BY DEF Cursor, Promise!Due, Promise!Shown, Promise!Reported
<1>3. CASE PumpData \/ PumpStatus \/ PumpClose
  <2> DEFINE n == read + 1
  <2>1. /\ ~PumpOver /\ read < Len(sent) /\ sent[n] # "eof" /\ UNCHANGED sent
        /\ events' = Append(events, [kind |-> Promise!Meaning[sent[n]], of |-> n])
    BY <1>3 DEF PumpData, PumpStatus, PumpClose, Tell, Promise!Meaning
  <2>2. n \in 1..Len(sent) BY <1>0, <2>1
  <2>3. n \notin Promise!Reported
    BY <1>0 DEF Cursor, Promise!Reported
  <2>4. n \in Promise!Due
    BY <2>1, <2>2, <2>3 DEF Promise!Due, Promise!Shown
  <2>5. ASSUME NEW k \in Promise!Due PROVE n <= k
    <3>1. k \in 1..Len(sent) BY DEF Promise!Due
    <3> QED BY <1>0, <1>due, <3>1
  <2>6. Promise!Report
    BY <1>over, <2>1, <2>4, <2>5 DEF Promise!Report
  <2> QED BY <2>6 DEF Promise!Next
<1>4. CASE PumpDead
  <2>1. /\ ~PumpOver /\ read = Len(sent) /\ UNCHANGED sent
        /\ events' = Append(events, [kind |-> "Died", of |-> read])
    BY <1>4 DEF PumpDead, Tell
  <2>2. ~ServerClosed
    BY <2>1 DEF ServerClosed, Cursor
  <2>3. Promise!Due = {}
    BY <1>due, <2>1 DEF Promise!Due
  <2>4. Promise!Die
    BY <1>0, <1>over, <1>done, <2>1, <2>2, <2>3 DEF Promise!Die
  <2> QED BY <2>4 DEF Promise!Next
<1>5. CASE PumpSkip BY <1>1, <1>5 DEF PumpSkip
<1>6. CASE Server
  BY <1>1, <1>2, <1>6 DEF Server, ServerSends, ServerCloses, ServerWidens
<1>7. CASE (\E t \in Threads : Caller(t)) \/ Release
  BY <1>1, <1>7 DEF Caller, Enter, WriteLock, WriteSent, WriteFailed, Resize, CallLock,
     CallAnswered, CallFailed, DisconnectShell, DisconnectHandle, Release
<1>8. CASE Closer \/ Teardown \/ Links \/ UNCHANGED vars
  BY <1>1, <1>8 DEF Closer, CloserEof, CloserClose, Teardown, ByeAnswered, ByeRefused,
     ByeTimeout, EndBye, ByeLate, TeardownEnds, Links, GoesSilent, Breaks, Detects,
     Orphaned, vars
<1> QED BY <1>3, <1>4, <1>5, <1>6, <1>7, <1>8 DEF Next, Pump, Finished

\* The sink of every session is told what EventStream promises: each message
\* once and in order, then at most one end, Closed only for the server's
\* CHANNEL_CLOSE, Died only after all that came.
THEOREM SessionKeepsItsPromise == Spec => Promised
<1>1. Init => Promise!Init
  BY DEF Init, Promise!Init
<1>2. TypeOK /\ Cursor /\ Ended /\ [Next]_vars => [Promise!Next]_(Promise!vars)
  BY PromiseStep
<1> QED BY <1>1, <1>2, StreamAlways, PTL DEF Spec, Promised, Promise!Spec

\* The sink's contract over this session's messages and events, and what it
\* delivers: Contract!Shell.
Contract == INSTANCE PromiseProofs WITH msgs <- sent, events <- events

\* A session hands its shell's output and exit status to the sink in order,
\* and the terminal event comes behind all that was received and before
\* nothing, however callers, tasks and links interleave.
THEOREM SessionDelivers == Spec => Contract!Shell!Spec
<1>1. Promise!Init => Contract!Sink!Init
  BY DEF Promise!Init, Contract!Sink!Init
<1>2. [Promise!Next]_(Promise!vars) => [Contract!Sink!Next]_(Contract!Sink!vars)
  <2> SUFFICES ASSUME [Promise!Next]_(Promise!vars)
               PROVE  [Contract!Sink!Next]_(Contract!Sink!vars)
    OBVIOUS
  <2> USE DEF Promise!Over, Contract!Sink!Over, Promise!Terminal, Contract!Sink!Terminal,
              Promise!ServerDone, Contract!Sink!ServerDone, Promise!Due, Contract!Sink!Due,
              Promise!Shown, Contract!Sink!Shown, Promise!Reported, Contract!Sink!Reported,
              Promise!Meaning, Contract!Sink!Meaning
  <2>1. ASSUME NEW m \in Promise!Message, Promise!Send(m)
        PROVE  m \in Contract!Sink!Message /\ Contract!Sink!Send(m)
    BY <2>1 DEF Promise!Send, Contract!Sink!Send, Promise!Message, Contract!Sink!Message,
       Promise!Payload, Contract!Sink!Payload
  <2>2. CASE Promise!Report BY <2>2 DEF Promise!Report, Contract!Sink!Report, Contract!Sink!Next
  <2>3. CASE Promise!Die BY <2>3 DEF Promise!Die, Contract!Sink!Die, Contract!Sink!Next
  <2>4. CASE UNCHANGED Promise!vars BY <2>4 DEF Promise!vars, Contract!Sink!vars
  <2> QED BY <2>1, <2>2, <2>3, <2>4 DEF Promise!Next, Contract!Sink!Next
<1>3. Promise!Spec => Contract!Sink!Spec
  BY <1>1, <1>2, PTL DEF Promise!Spec, Contract!Sink!Spec
<1>4. Contract!Sink!Spec => Contract!Shell!Spec
  BY Contract!SinkDelivers
<1> QED BY <1>3, <1>4, SessionKeepsItsPromise, PTL DEF Promised
-----------------------------------------------------------------------------
(***************************************************************************)
(* What ended which connection, and what is left of the chain.             *)
(***************************************************************************)
\* A connection that is down stays so, and for the reason it went down.
DownIsFinal == \A i \in Conns : conn[i] \in Down => conn'[i] = conn[i]

LEMMA DownStep == TypeOK /\ [Next]_vars => DownIsFinal
<1> SUFFICES ASSUME TypeOK, [Next]_vars PROVE DownIsFinal
  OBVIOUS
<1> USE TargetIsConn DEF DownIsFinal, callers, shell, chain, stream
<1>0. conn \in [Conns -> Up \cup Down]
  BY DEF TypeOK
<1>1. CASE conn' = conn BY <1>1
<1>2. CASE (\E t \in Threads : Caller(t)) \/ Closer \/ Server \/ Pump \/ UNCHANGED vars
  BY <1>1, <1>2 DEF Caller, Enter, WriteLock, WriteSent, WriteFailed, Resize, CallLock,
     CallAnswered, CallFailed, DisconnectShell, DisconnectHandle, Closer, CloserEof,
     CloserClose, Server, ServerSends, ServerCloses, ServerWidens, Pump, PumpData,
     PumpStatus, PumpSkip, PumpClose, PumpDead, vars
<1>3. CASE Release BY <1>0, <1>3 DEF Release, Up, Down
<1>4. CASE Teardown
  <2>1. CASE ByeLate
    <3>1. Target \in 1..Target BY SessionAssumption DEF Target
    <3>2. conn[Target] \notin Down BY <2>1, <3>1 DEF ByeLate, Reachable, Down
    <3> QED BY <1>0, <2>1, <3>2 DEF ByeLate
  <2>2. CASE TeardownEnds BY <1>0, <2>2 DEF TeardownEnds, Up, Down
  <2>3. ASSUME NEW i \in Conns, ByeAnswered(i) \/ ByeRefused(i) \/ ByeTimeout(i)
        PROVE  DownIsFinal
    BY <1>0, <2>3 DEF ByeAnswered, ByeRefused, ByeTimeout, EndBye, Up, Down
  <2> QED BY <1>4, <2>1, <2>2, <2>3 DEF Teardown
<1>5. CASE Links
  BY <1>0, <1>5 DEF Links, GoesSilent, Breaks, Detects, Orphaned, Up, Down
<1> QED BY <1>2, <1>3, <1>4, <1>5 DEF Next, Finished

\* How far the teardown is: a parent whose turn is over is down, the target
\* when the task has ended, and all of them when the object went without one.
TeardownProgress ==
  /\ handle \in {"taken", "closed"} =>
       \A i \in Conns \ {Target} : i \notin pending => conn[i] \in Down
  /\ handle = "closed" => pending = {} /\ conn[Target] \in Down
  /\ handle = "released" => \A i \in Conns : conn[i] \in Down

LEMMA TeardownStep ==
  TypeOK /\ Locks /\ TeardownProgress /\ [Next]_vars => TeardownProgress'
<1> SUFFICES ASSUME TypeOK, Locks, TeardownProgress, [Next]_vars
             PROVE  TeardownProgress'
  OBVIOUS
<1> USE TargetIsConn DEF callers, shell, chain, stream
<1>0. conn \in [Conns -> Up \cup Down] /\ DownIsFinal
  BY DownStep DEF TypeOK
<1>1. ASSUME UNCHANGED <<handle, pending>> PROVE TeardownProgress'
  BY <1>0, <1>1 DEF TeardownProgress, DownIsFinal
<1>2. ASSUME NEW t \in Threads, DisconnectHandle(t) PROVE TeardownProgress'
  BY <1>2 DEF DisconnectHandle, TeardownProgress, Locks, OpenWhole
<1>3. CASE Release
  BY <1>0, <1>3 DEF Release, TeardownProgress, Up, Down
<1>4. ASSUME NEW i \in Conns, ByeAnswered(i) \/ ByeRefused(i) \/ ByeTimeout(i)
      PROVE  TeardownProgress'
  <2>1. /\ handle = "taken" /\ handle' = handle /\ pending' = pending \ {i}
        /\ i # Target => conn'[i] \in Down
    BY <1>0, <1>4 DEF ByeAnswered, ByeRefused, ByeTimeout, EndBye, Up, Down
  <2> QED BY <1>0, <2>1 DEF TeardownProgress, DownIsFinal
<1>5. CASE TeardownEnds
  <2>1. /\ handle = "taken" /\ handle' = "closed" /\ pending = {} /\ pending' = {}
        /\ conn'[Target] \in Down
    BY <1>0, <1>5 DEF TeardownEnds, Up, Down
  <2> QED BY <1>0, <2>1 DEF TeardownProgress, DownIsFinal
<1>6. ASSUME NEW t \in Threads, Caller(t), ~DisconnectHandle(t)
      PROVE  UNCHANGED <<handle, pending>>
  BY <1>6 DEF Caller, Enter, WriteLock, WriteSent, WriteFailed, Resize, CallLock,
     CallAnswered, CallFailed, DisconnectShell
<1>7. CASE ByeLate \/ Links \/ Closer
  BY <1>1, <1>7 DEF ByeLate, Links, GoesSilent, Breaks, Detects, Orphaned, Closer,
     CloserEof, CloserClose
<1>8. CASE Server \/ Pump \/ UNCHANGED vars
  BY <1>1, <1>8 DEF Server, ServerSends, ServerCloses, ServerWidens, Pump, PumpData,
     PumpStatus, PumpSkip, PumpClose, PumpDead, vars
<1> QED
  BY <1>1, <1>2, <1>3, <1>4, <1>5, <1>6, <1>7, <1>8 DEF Next, Teardown, Finished

\* For a chain of any length and however its byes end, a session that is closed
\* or gone has no connection left open.
THEOREM NothingIsLeftOpen == Spec => []ClosedLeavesNothing
<1>1. Init => TeardownProgress
  BY DEF Init, TeardownProgress
<1>2. TypeOK /\ Locks /\ TeardownProgress /\ [Next]_vars => TeardownProgress'
  BY TeardownStep
<1>3. TeardownProgress => ClosedLeavesNothing
  BY DEF TeardownProgress, ClosedLeavesNothing
<1> QED BY <1>1, <1>2, <1>3, LocksAlways, PTL DEF Spec

\* While nobody has taken the handle, whatever is down is down because a link
\* was lost; a sink that heard Died has its target down.
DeathsHaveCause ==
  /\ handle = "open" /\ (\E i \in Conns : conn[i] \in Down) =>
       \E i \in Conns : conn[i] = "lost"
  /\ (\E n \in 1..Len(events) : events[n].kind = "Died") => conn[Target] \in Down

LEMMA CauseStep ==
  TypeOK /\ DeathsHaveCause /\ [Next]_vars => DeathsHaveCause'
<1> SUFFICES ASSUME TypeOK, DeathsHaveCause, [Next]_vars PROVE DeathsHaveCause'
  OBVIOUS
<1> USE TargetIsConn DEF callers, shell, chain, stream
<1>0. conn \in [Conns -> Up \cup Down] /\ DownIsFinal
  BY DownStep DEF TypeOK
\* Each half by itself: what a step leaves alone stays explained.
<1>1. ASSUME UNCHANGED events
      PROVE  (\E n \in 1..Len(events') : events'[n].kind = "Died") => conn'[Target] \in Down
  BY <1>0, <1>1 DEF DeathsHaveCause, DownIsFinal
<1>2. ASSUME handle' = "open" => handle = "open" /\ conn' = conn
      PROVE  handle' = "open" /\ (\E i \in Conns : conn'[i] \in Down) =>
               \E i \in Conns : conn'[i] = "lost"
  BY <1>2 DEF DeathsHaveCause
<1>3. CASE Links
  <2>1. handle' = handle /\ events' = events
    BY <1>3 DEF Links, GoesSilent, Breaks, Detects, Orphaned
  <2>2. ASSUME handle = "open", NEW j \in Conns, conn[j] = "lost"
        PROVE  conn'[j] = "lost"
    BY <1>0, <2>2 DEF DownIsFinal, Down
  <2>3. PICK i \in Conns : GoesSilent(i) \/ Breaks(i) \/ Detects(i) \/ Orphaned(i)
    BY <1>3 DEF Links
  <2>4. CASE GoesSilent(i)
    <3>1. \A j \in Conns : conn'[j] \in Down => conn[j] \in Down
      BY <1>0, <2>4 DEF GoesSilent, Down
    <3> QED BY <1>1, <2>1, <2>2, <3>1 DEF DeathsHaveCause
  <2>5. CASE Breaks(i) \/ Detects(i)
    <3>1. conn'[i] = "lost" BY <1>0, <2>5 DEF Breaks, Detects
    <3> QED BY <1>1, <2>1, <3>1 DEF DeathsHaveCause
  <2>6. CASE Orphaned(i)
    <3>1. i - 1 \in Conns /\ conn[i - 1] \in Down
      BY <2>6, SessionAssumption DEF Orphaned, Conns
    <3> QED BY <1>1, <2>1, <2>2, <3>1 DEF DeathsHaveCause
  <2> QED BY <2>3, <2>4, <2>5, <2>6
<1>4. CASE PumpDead
  <2>1. conn[Target] \in Down /\ UNCHANGED <<handle, conn>>
    BY <1>4 DEF PumpDead
  <2> QED BY <1>2, <2>1 DEF DeathsHaveCause
<1>5. CASE PumpData \/ PumpStatus \/ PumpClose
  <2>1. PICK k \in {"Data", "ExitStatus", "Closed"} : Tell(k, read + 1)
    BY <1>5 DEF PumpData, PumpStatus, PumpClose
  <2>2. read + 1 \in Nat /\ UNCHANGED <<handle, conn>>
    BY <1>5 DEF TypeOK, PumpData, PumpStatus, PumpClose
  <2>3. /\ Len(events') = Len(events) + 1
        /\ \A n \in 1..Len(events) : events'[n] = events[n]
        /\ events'[Len(events) + 1].kind = k
        /\ Len(events) \in Nat
    BY <2>1, <2>2, TellFacts
  <2>4. \A n \in 1..Len(events') :
          events'[n].kind = "Died" => n \in 1..Len(events) /\ events[n].kind = "Died"
    BY <2>3
  <2> QED BY <1>2, <2>2, <2>4 DEF DeathsHaveCause
<1>6. CASE (\E t \in Threads : Caller(t)) \/ Closer \/ Server \/ PumpSkip \/ UNCHANGED vars
  <2>1. UNCHANGED <<conn, events>> /\ (handle' = "open" => handle = "open")
    BY <1>6 DEF Caller, Enter, WriteLock, WriteSent, WriteFailed, Resize, CallLock,
       CallAnswered, CallFailed, DisconnectShell, DisconnectHandle, Closer, CloserEof,
       CloserClose, Server, ServerSends, ServerCloses, ServerWidens, PumpSkip, vars
  <2> QED BY <1>1, <1>2, <2>1 DEF DeathsHaveCause
<1>7. CASE Release \/ Teardown
  <2>1. handle' # "open" /\ events' = events
    BY <1>7 DEF Release, Teardown, ByeAnswered, ByeRefused, ByeTimeout, EndBye, ByeLate,
       TeardownEnds
  <2> QED BY <1>1, <1>2, <2>1 DEF DeathsHaveCause
<1> QED BY <1>3, <1>4, <1>5, <1>6, <1>7 DEF Next, Pump, Finished

\* A session nobody has begun to close is told Died for a lost link only.
THEOREM DiedAlwaysExplained == Spec => []DiedIsExplained
<1>1. Init => DeathsHaveCause
  BY DEF Init, DeathsHaveCause, Down
<1>2. TypeOK /\ DeathsHaveCause /\ [Next]_vars => DeathsHaveCause'
  BY CauseStep
<1>3. DeathsHaveCause => DiedIsExplained
  BY TargetIsConn DEF DeathsHaveCause, DiedIsExplained
<1> QED BY <1>1, <1>2, <1>3, LocksAlways, PTL DEF Spec
=============================================================================
