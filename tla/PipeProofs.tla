----------------------------- MODULE PipeProofs -----------------------------
(***************************************************************************)
(* Pipe's safety for any number of writing threads and any traffic: types, *)
(* the order of the frames sent, and the reads.                            *)
(***************************************************************************)
EXTENDS Pipe, TLAPS

\* What Append does to a sequence.
LEMMA AppendFacts ==
  ASSUME NEW S, NEW s \in Seq(S), NEW e \in S
  PROVE  /\ Append(s, e) \in Seq(S)
         /\ Len(s) \in Nat
         /\ Len(Append(s, e)) = Len(s) + 1
         /\ \A n \in 1..Len(s) : Append(s, e)[n] = s[n]
         /\ Append(s, e)[Len(s) + 1] = e
OBVIOUS

\* TypeOK is inductive.
LEMMA TypeStep == TypeOK /\ [Next]_vars => TypeOK'
<1> SUFFICES ASSUME TypeOK, [Next]_vars PROVE TypeOK'
  OBVIOUS
<1> USE DEF TypeOK, upward, downward
<1>1. ASSUME NEW f \in Frames, Put(f) PROVE up' \in Seq(Frames)
  BY <1>1, AppendFacts DEF Put
<1>2. "data" \in Frames /\ "eof" \in Frames /\ "close" \in Frames
  BY DEF Frames
<1>3. Window \in Nat BY PipeAssumption
<1>4. ASSUME NEW t \in Threads, Write(t) PROVE TypeOK'
  <2>1. CASE Enter(t) BY <2>1 DEF Enter, Goto
  <2>2. CASE WriteLock(t) BY <2>2 DEF WriteLock, Goto
  <2>3. CASE WriteSent(t)
    <3>1. up' \in Seq(Frames) BY <1>1, <1>2, <2>3 DEF WriteSent
    <3>2. window' \in 0..Window BY <1>3, <2>3 DEF WriteSent
    <3> QED BY <2>3, <3>1, <3>2 DEF WriteSent, Goto
  <2>4. CASE WriteFailed(t) BY <2>4 DEF WriteFailed, Goto
  <2>5. CASE Eof(t)
    <3>1. up' \in Seq(Frames) BY <1>1, <1>2, <2>5 DEF Eof
    <3> QED BY <2>5, <3>1 DEF Eof, Goto
  <2>6. CASE Disconnect(t) BY <2>6 DEF Disconnect, Goto
  <2> QED BY <1>4, <2>1, <2>2, <2>3, <2>4, <2>5, <2>6 DEF Write
<1>5. CASE CloserEof \/ CloserClose
  <2>1. up' \in Seq(Frames) BY <1>1, <1>2, <1>5 DEF CloserEof, CloserClose
  <2> QED BY <1>5, <2>1 DEF CloserEof, CloserClose
<1>6. CASE Read BY <1>6 DEF Read
<1>7. CASE Reader
  <2>1. got' \in Seq(Nat)
    <3>1. taken + 1 \in Nat OBVIOUS
    <3>2. \/ got' = got
          \/ \E what \in Nat : got' = Append(got, what)
      BY <1>7, <3>1 DEF Reader, ReadData, ReadEnd, ReadSkip, ReadNone, Return
    <3>3. ASSUME NEW what \in Nat PROVE Append(got, what) \in Seq(Nat)
      <4>1. got \in Seq(Nat) OBVIOUS
      <4> HIDE DEF TypeOK
      <4> QED BY <4>1, AppendFacts
    <3> QED BY <3>2, <3>3
  <2>2. taken' \in 0..Len(down) /\ down' = down
    BY <1>7 DEF Reader, ReadData, ReadEnd, ReadSkip, ReadNone
  <2>3. /\ UNCHANGED <<pc, writeHalf, up, window, link>>
        /\ reading' \in BOOLEAN
    BY <1>7 DEF Reader, ReadData, ReadEnd, ReadSkip, ReadNone, Return
  <2> QED BY <2>1, <2>2, <2>3
<1>8. CASE \E m \in {"data", "stderr", "other", "eof"} : RemoteSends(m)
  <2>1. PICK m \in Messages : down' = Append(down, m)
    BY <1>8 DEF RemoteSends, Messages
  <2>2. down' \in Seq(Messages) /\ Len(down') = Len(down) + 1 BY <2>1, AppendFacts
  <2> QED BY <1>8, <2>2 DEF RemoteSends
<1>9. CASE RemoteCloses
  <2>1. "close" \in Messages BY DEF Messages
  <2>2. down' \in Seq(Messages) /\ Len(down') = Len(down) + 1
    BY <1>9, <2>1, AppendFacts DEF RemoteCloses
  <2> QED BY <1>9, <2>2 DEF RemoteCloses
<1>10. CASE RemoteWidens
  <2>1. window' \in 0..Window BY <1>3, <1>10 DEF RemoteWidens
  <2> QED BY <1>10, <2>1 DEF RemoteWidens
<1>11. CASE LinkBreaks BY <1>11 DEF LinkBreaks
<1>12. CASE UNCHANGED vars BY <1>12 DEF vars
<1> HIDE DEF TypeOK, upward, downward
<1> QED BY <1>4, <1>5, <1>6, <1>7, <1>8, <1>9, <1>10, <1>11, <1>12 DEF Next, Remote

\* A fresh pipe is well typed.
LEMMA TypeInit == Init => TypeOK
<1> SUFFICES ASSUME Init PROVE TypeOK
  OBVIOUS
<1>1. window \in 0..Window BY PipeAssumption DEF Init
<1>2. /\ up \in Seq(Frames) /\ down \in Seq(Messages) /\ got \in Seq(Nat)
      /\ taken \in 0..Len(down)
  BY DEF Init
<1> QED BY <1>1, <1>2 DEF Init, TypeOK

\* Every variable of a pipe keeps to its type.
THEOREM PipeTypeCorrect == Spec => []TypeOK
BY TypeInit, TypeStep, PTL DEF Spec
-----------------------------------------------------------------------------
(***************************************************************************)
(* The write side. Where the write half is says what may be on the         *)
(* channel: no CLOSE before the closer is done, and its EOF right before.  *)
(***************************************************************************)
NoClose == \A n \in 1..Len(up) : up[n] # "close"
EofLast == Len(up) > 0 /\ up[Len(up)] = "eof"

WriteSide ==
  /\ \A t \in Threads : pc[t] = "sending" => writeHalf = "held"
  /\ writeHalf # "gone" => NoClose
  /\ writeHalf = "close" /\ Alive => EofLast

UpInv == TypeOK /\ WriteSide /\ UpEndsInOrder

\* Before the CLOSE, data and EOFs go out in any order.
LEMMA PutOpen ==
  ASSUME TypeOK, NoClose, NEW f \in {"data", "eof"}, Put(f)
  PROVE  /\ NoClose' /\ UpEndsInOrder'
         /\ f = "eof" /\ Alive => EofLast'
<1>1. up \in Seq(Frames) /\ f \in Frames BY DEF TypeOK, Frames
<1>2. NoClose' BY <1>1, AppendFacts DEF Put, NoClose
<1>3. f = "eof" /\ Alive => EofLast' BY <1>1, AppendFacts DEF Put, EofLast
<1> QED BY <1>2, <1>3 DEF NoClose, UpEndsInOrder

\* A CLOSE goes out right behind the closer's EOF.
LEMMA PutClose ==
  ASSUME TypeOK, NoClose, UpEndsInOrder, Alive => EofLast, Put("close")
  PROVE  UpEndsInOrder'
<1>1. up \in Seq(Frames) /\ "close" \in Frames BY DEF TypeOK, Frames
<1>2. CASE Alive
  <2>1. /\ Len(up) \in Nat /\ Len(up') = Len(up) + 1
        /\ \A n \in 1..Len(up) : up'[n] = up[n]
    BY <1>1, <1>2, AppendFacts DEF Put
  <2>2. Len(up) > 0 /\ up'[Len(up)] = "eof" BY <1>2, <2>1 DEF EofLast
  <2> QED BY <2>1, <2>2 DEF UpEndsInOrder, NoClose
<1>3. CASE ~Alive BY <1>3 DEF Put, UpEndsInOrder
<1> QED BY <1>2, <1>3

\* A channel that is dead stays dead.
LEMMA DeadForEver == TypeOK /\ [Next]_vars /\ Alive' => Alive
<1> SUFFICES ASSUME TypeOK, [Next]_vars, Alive' PROVE Alive
  OBVIOUS
<1>1. CASE UNCHANGED <<down, link>> BY <1>1 DEF Alive, RemoteClosed, Has
<1>2. CASE Remote
  <2>1. CASE (\E m \in {"data", "stderr", "other", "eof"} : RemoteSends(m)) \/ RemoteCloses
    BY <2>1 DEF RemoteSends, RemoteCloses
  <2>2. CASE RemoteWidens BY <1>1, <2>2 DEF RemoteWidens
  <2>3. CASE LinkBreaks BY <2>3 DEF LinkBreaks, Alive
  <2> QED BY <1>2, <2>1, <2>2, <2>3 DEF Remote
<1>3. CASE ~Remote
  <2>1. UNCHANGED <<down, link>>
    BY <1>3 DEF Next, Write, Enter, WriteLock, WriteSent, WriteFailed, Eof, Disconnect,
       CloserEof, CloserClose, Read, Reader, ReadData, ReadEnd, ReadSkip, ReadNone, vars
  <2> QED BY <1>1, <2>1
<1> QED BY <1>2, <1>3

\* Every step keeps the write side in order.
LEMMA UpStep == UpInv /\ [Next]_vars => UpInv'
<1> SUFFICES ASSUME UpInv, [Next]_vars PROVE UpInv'
  OBVIOUS
<1> USE DEF UpInv
<1>1. TypeOK' /\ (Alive' => Alive) BY TypeStep, DeadForEver
<1>2. ASSUME up' = up
      PROVE  UpEndsInOrder' /\ (NoClose' <=> NoClose) /\ (EofLast' <=> EofLast)
  BY <1>2 DEF UpEndsInOrder, NoClose, EofLast
<1>3. ASSUME NEW t \in Threads, Write(t) PROVE WriteSide' /\ UpEndsInOrder'
  <2>1. pc \in [Threads -> {"idle", "write", "sending", "eof", "disconnect"}]
    BY DEF TypeOK
  <2>2. CASE Enter(t)
    <3>1. up' = up /\ writeHalf' = writeHalf
      BY <2>2 DEF Enter
    <3>2. \A s \in Threads : pc'[s] = "sending" => pc[s] = "sending"
      BY <2>1, <2>2 DEF Enter, Goto
    <3> QED BY <1>1, <1>2, <3>1, <3>2 DEF WriteSide
  <2>3. CASE WriteLock(t) \/ WriteFailed(t)
    <3>1. up' = up /\ writeHalf' = writeHalf
      BY <2>3 DEF WriteLock, WriteFailed
    <3>2. \A s \in Threads : pc'[s] = "sending" => pc[s] = "sending" \/ writeHalf = "held"
      BY <2>1, <2>3 DEF WriteLock, WriteFailed, Goto
    <3> QED BY <1>1, <1>2, <3>1, <3>2 DEF WriteSide
  <2>4. CASE WriteSent(t)
    <3>1. writeHalf = "held" /\ writeHalf' = "held" /\ NoClose
      BY <2>4 DEF WriteSent, WriteSide
    <3>2. UpEndsInOrder' /\ NoClose'
      BY <2>4, <3>1, PutOpen DEF WriteSent
    <3> QED BY <3>1, <3>2 DEF WriteSide
  <2>5. CASE Eof(t)
    <3>1. /\ writeHalf' = writeHalf
          /\ \A s \in Threads : pc'[s] = "sending" => pc[s] = "sending"
      BY <2>1, <2>5 DEF Eof, Goto
    <3>2. CASE writeHalf = "held"
      <4>1. UpEndsInOrder' /\ NoClose'
        BY <2>5, <3>2, PutOpen DEF Eof, WriteSide
      <4> QED BY <3>1, <3>2, <4>1 DEF WriteSide
    <3>3. CASE writeHalf # "held"
      <4>1. up' = up BY <2>5, <3>3 DEF Eof
      <4> QED BY <1>1, <1>2, <3>1, <3>3, <4>1 DEF WriteSide
    <3> QED BY <3>2, <3>3
  <2>6. CASE Disconnect(t)
    <3>1. \A s \in Threads : pc'[s] # "sending"
      BY <2>1, <2>6 DEF Disconnect, Goto, WriteLockFree
    <3>2. /\ up' = up
          /\ writeHalf = "gone" => writeHalf' = "gone"
          /\ writeHalf' = "close" => writeHalf = "close"
      BY <2>6 DEF Disconnect
    <3> QED BY <1>1, <1>2, <3>1, <3>2 DEF WriteSide
  <2> QED BY <1>3, <2>2, <2>3, <2>4, <2>5, <2>6 DEF Write
<1>4. CASE CloserEof
  <2>1. NoClose /\ Put("eof") /\ writeHalf' = "close" /\ pc' = pc
        /\ \A t \in Threads : pc[t] # "sending"
    BY <1>4 DEF CloserEof, WriteSide
  <2>2. UpEndsInOrder' /\ NoClose' /\ (Alive => EofLast') BY <2>1, PutOpen
  <2> QED BY <1>1, <2>1, <2>2 DEF WriteSide
<1>5. CASE CloserClose
  <2>1. Put("close") /\ writeHalf' = "gone" /\ pc' = pc
        /\ \A t \in Threads : pc[t] # "sending"
    BY <1>5 DEF CloserClose, WriteSide
  <2>2. UpEndsInOrder' BY <1>5, <2>1, PutClose DEF CloserClose, WriteSide
  <2> QED BY <1>1, <2>1, <2>2 DEF WriteSide
<1>6. CASE Read \/ Reader \/ Remote \/ UNCHANGED vars
  <2>1. UNCHANGED <<pc, writeHalf, up>>
    BY <1>6 DEF Read, Reader, ReadData, ReadEnd, ReadSkip, ReadNone, Remote, RemoteSends,
                RemoteCloses, RemoteWidens, LinkBreaks, vars, upward
  <2> QED BY <1>1, <1>2, <2>1 DEF WriteSide
<1> QED BY <1>1, <1>3, <1>4, <1>5, <1>6 DEF Next

\* Whoever writes or half-closes beside it, a disconnect is the end of what
\* the remote side sees: the CLOSE comes right behind the closer's EOF, and
\* nothing behind the CLOSE.
THEOREM UpAlwaysEndsInOrder == Spec => []UpEndsInOrder
<1>1. Init => UpInv
  BY TypeInit DEF Init, UpInv, WriteSide, UpEndsInOrder, NoClose
<1>2. UpInv => UpEndsInOrder BY DEF UpInv
<1> QED BY <1>1, <1>2, UpStep, PTL DEF Spec
-----------------------------------------------------------------------------
(***************************************************************************)
(* The read side. What the remote side sends ends in order, and an empty   *)
(* read has either passed that end or found a dead channel drained.        *)
(***************************************************************************)
DownInOrder ==
  \A m, n \in 1..Len(down) : m < n =>
    /\ down[m] # "close"
    /\ down[m] = "eof" => ~Shown(n)

EndPassed ==
  \/ \E n \in 1..taken : down[n] \in {"eof", "close"}
  \/ ~Alive /\ taken = Len(down)

EndSeen == (\E k \in 1..Len(got) : got[k] = 0) => EndPassed

DownInv == TypeOK /\ DownInOrder /\ EndSeen /\ ReadsLoseNothing

\* Past the end there is nothing to show.
LEMMA NothingBehind ==
  ASSUME TypeOK, DownInOrder, EndPassed
  PROVE  \A n \in (taken + 1)..Len(down) : ~Shown(n)
<1>1. Len(down) \in Nat /\ taken \in 0..Len(down) BY DEF TypeOK
<1>2. CASE taken = Len(down) BY <1>1, <1>2
<1>3. CASE \E m \in 1..taken : down[m] \in {"eof", "close"}
  <2>1. PICK m \in 1..taken : down[m] \in {"eof", "close"} BY <1>3
  <2>2. ASSUME NEW n \in (taken + 1)..Len(down) PROVE ~Shown(n)
    <3>1. m \in 1..Len(down) /\ n \in 1..Len(down) /\ m < n BY <1>1
    <3> QED BY <2>1, <3>1 DEF DownInOrder
  <2> QED BY <2>2
<1> QED BY <1>2, <1>3 DEF EndPassed

\* The remote side adds a message.
LEMMA Arrives ==
  ASSUME DownInv, NEW m \in Messages, Alive, down' = Append(down, m),
         m \in {"data", "stderr"} => ~Has("eof"),
         UNCHANGED <<taken, got>>
  PROVE  DownInOrder' /\ EndSeen' /\ ReadsLoseNothing'
<1> USE DEF DownInv
<1>1. /\ Len(down) \in Nat /\ Len(down') = Len(down) + 1
      /\ \A n \in 1..Len(down) : down'[n] = down[n]
      /\ down'[Len(down) + 1] = m
      /\ taken \in 0..Len(down)
  <2>1. down \in Seq(Messages) /\ taken \in 0..Len(down) BY DEF TypeOK
  <2> HIDE DEF DownInv
  <2> QED BY <2>1, AppendFacts
<1>2. \A n \in 1..Len(down) : Shown(n)' <=> Shown(n) BY <1>1 DEF Shown
<1>3. \A n \in 1..Len(down) : down[n] # "close" BY DEF Alive, RemoteClosed, Has
<1>4. DownInOrder'
  <2>1. ASSUME NEW i \in 1..Len(down'), NEW n \in 1..Len(down'), i < n
        PROVE  down'[i] # "close" /\ (down'[i] = "eof" => ~Shown(n)')
    <3>1. i \in 1..Len(down) /\ down'[i] = down[i] BY <1>1, <2>1
    <3>2. CASE n \in 1..Len(down) BY <1>2, <2>1, <3>1, <3>2 DEF DownInOrder
    <3>3. CASE n = Len(down) + 1
      BY <1>1, <1>3, <3>1, <3>3 DEF Shown, Has
    <3> QED BY <1>1, <3>2, <3>3
  <2> QED BY <2>1 DEF DownInOrder
<1>5. EndSeen'
  <2>1. CASE \E n \in 1..taken : down[n] \in {"eof", "close"}
    <3>1. PICK n \in 1..taken : down[n] \in {"eof", "close"} BY <2>1
    <3>2. n \in 1..taken' /\ down'[n] = down[n] BY <1>1, <3>1
    <3> QED BY <3>1, <3>2 DEF EndSeen, EndPassed
  <2>2. CASE ~\E k \in 1..Len(got) : got[k] = 0 BY <2>2 DEF EndSeen
  <2> QED BY <2>1, <2>2 DEF EndSeen, EndPassed
<1>6. ReadsLoseNothing'
  <2>1. 1..taken \subseteq 1..Len(down) BY <1>1
  <2> QED BY <1>2, <2>1 DEF ReadsLoseNothing
<1> QED BY <1>4, <1>5, <1>6

\* A read takes a message that is not shown, or none: empty or no return.
LEMMA PassesOver ==
  ASSUME DownInv, UNCHANGED down, taken' \in {taken, taken + 1}, taken' <= Len(down),
         taken' = taken + 1 => ~Shown(taken + 1),
         got' = got \/ got' = Append(got, 0)
  PROVE  ReadsLoseNothing'
<1> USE DEF DownInv
<1>0. taken \in Nat /\ got \in Seq(Nat) /\ Len(got) \in Nat
  BY DEF TypeOK
<1>1. /\ taken \in Nat /\ got \in Seq(Nat) /\ Len(got) \in Nat
      /\ \A n \in 1..taken' : n \in 1..taken \/ (n = taken + 1 /\ taken' = taken + 1)
      /\ \A n \in 1..taken : n \in 1..taken'
  BY <1>0
<1>2. \A n \in 1..taken' : Shown(n)' => n \in 1..taken /\ Shown(n)
  BY <1>1 DEF Shown
<1>3. CASE got' = got
  BY <1>1, <1>2, <1>3 DEF ReadsLoseNothing, Shown
<1>4. CASE got' = Append(got, 0)
  <2>1. /\ Len(got') = Len(got) + 1 /\ got'[Len(got) + 1] = 0
        /\ \A k \in 1..Len(got) : got'[k] = got[k]
    BY <1>1, <1>4, AppendFacts
  <2>2. \A n \in 1..taken' : Shown(n)' => \E k \in 1..Len(got') : got'[k] = n
    BY <1>1, <1>2, <2>1 DEF ReadsLoseNothing
  <2>3. \A k \in 1..Len(got') : got'[k] # 0 =>
          /\ k \in 1..Len(got) /\ got'[k] = got[k]
          /\ got'[k] \in 1..taken' /\ Shown(got'[k])
    BY <1>1, <2>1 DEF ReadsLoseNothing, Shown
  <2>4. \A j, k \in 1..Len(got') : j < k /\ got'[k] # 0 => got'[j] # 0 /\ got'[j] < got'[k]
    <3>1. \A j, k \in 1..Len(got') : j < k /\ k \in 1..Len(got) =>
            j \in 1..Len(got) /\ got'[j] = got[j]
      BY <1>1, <2>1
    <3> QED BY <2>3, <3>1 DEF ReadsLoseNothing
  <2>5. \A k \in 1..Len(got') : got'[k] # 0 => got'[k] \in 1..taken' /\ Shown(got[k])'
    BY <2>3 DEF Shown
  <2> QED BY <2>2, <2>4, <2>5 DEF ReadsLoseNothing
<1> QED BY <1>3, <1>4

\* A read takes a message and returns it.
LEMMA Returns ==
  ASSUME DownInv, ReadData
  PROVE  EndSeen' /\ ReadsLoseNothing'
<1> USE DEF DownInv
<1>1. /\ taken \in Nat /\ got \in Seq(Nat) /\ Len(got) \in Nat /\ Len(down) \in Nat
      /\ taken' = taken + 1 /\ taken < Len(down) /\ down' = down
      /\ got' = Append(got, taken + 1) /\ Shown(taken + 1)
  BY DEF TypeOK, ReadData, Return, Next1, Shown
<1>2. /\ Len(got') = Len(got) + 1 /\ got'[Len(got) + 1] = taken + 1
      /\ \A k \in 1..Len(got) : got'[k] = got[k]
  <2>1. taken + 1 \in Nat BY <1>1
  <2> QED BY <1>1, <2>1, AppendFacts
<1>3. \A k \in 1..Len(got) : got[k] # 0
  <2>1. ~EndPassed
    <3>1. taken + 1 \in (taken + 1)..Len(down) BY <1>1
    <3> QED BY <1>1, <3>1, NothingBehind
  <2> QED BY <2>1 DEF EndSeen
<1>4. \A k \in 1..Len(got) : got[k] \in 1..taken /\ Shown(got[k])
  BY <1>3 DEF ReadsLoseNothing
<1>5. \A k \in 1..Len(got') : (k \in 1..Len(got) /\ got'[k] = got[k]) \/ k = Len(got) + 1
  BY <1>1, <1>2
<1>6. EndSeen' BY <1>1, <1>2, <1>3, <1>5 DEF EndSeen
<1>7. \A n \in 1..taken' : Shown(n)' => \E k \in 1..Len(got') : got'[k] = n
  <2>1. \A n \in 1..taken' : n \in 1..taken \/ n = taken + 1 BY <1>1
  <2>2. Len(got) + 1 \in 1..Len(got') /\ 1..Len(got) \subseteq 1..Len(got') BY <1>1, <1>2
  <2>3. \A n \in 1..taken : Shown(n)' => \E k \in 1..Len(got) : got'[k] = n
    BY <1>1, <1>2 DEF ReadsLoseNothing, Shown
  <2> QED BY <1>2, <2>1, <2>2, <2>3
<1>8. \A k \in 1..Len(got') : got'[k] \in 1..taken' /\ Shown(got'[k])
  BY <1>1, <1>2, <1>4, <1>5 DEF Shown
<1>9. \A j, k \in 1..Len(got') : j < k => got'[j] # 0 /\ got'[j] < got'[k]
  <2>1. ASSUME NEW j \in 1..Len(got'), NEW k \in 1..Len(got'), j < k
        PROVE  got'[j] # 0 /\ got'[j] < got'[k]
    <3>1. j \in 1..Len(got) /\ got'[j] = got[j] BY <1>1, <1>2, <2>1
    <3>2. CASE k = Len(got) + 1 BY <1>1, <1>2, <1>4, <3>1, <3>2
    <3>3. CASE k \in 1..Len(got)
      BY <1>2, <1>3, <2>1, <3>1, <3>3 DEF ReadsLoseNothing
    <3> QED BY <1>5, <3>2, <3>3
  <2> QED BY <2>1
<1> QED BY <1>1, <1>6, <1>7, <1>8, <1>9 DEF ReadsLoseNothing, Shown

\* Every step keeps the read side in order.
LEMMA DownStep == DownInv /\ [Next]_vars => DownInv'
<1> SUFFICES ASSUME DownInv, [Next]_vars PROVE DownInv'
  OBVIOUS
<1>1. TypeOK' /\ TypeOK BY TypeStep DEF DownInv
<1>2. ASSUME down' = down PROVE DownInOrder'
  BY <1>2 DEF DownInv, DownInOrder, Shown
<1>3. CASE ReadData
  BY <1>1, <1>2, <1>3, Returns DEF DownInv, ReadData
<1>4. CASE ReadEnd
  <2>1. /\ taken' = taken + 1 /\ taken < Len(down) /\ down' = down
        /\ got' = Append(got, 0) /\ ~Shown(taken + 1)
        /\ taken \in Nat /\ Len(down) \in Nat
        /\ down[taken + 1] \in {"eof", "close"}
    BY <1>1, <1>4 DEF ReadEnd, Return, Next1, Shown, TypeOK
  <2>2. ReadsLoseNothing' BY <2>1, PassesOver
  <2>3. EndPassed'
    <3>1. taken + 1 \in 1..taken' BY <2>1
    <3> QED BY <2>1, <3>1 DEF EndPassed
  <2> QED BY <1>1, <1>2, <2>1, <2>2, <2>3 DEF DownInv, EndSeen
<1>5. CASE ReadSkip
  <2>1. /\ taken' = taken + 1 /\ taken < Len(down) /\ down' = down
        /\ got' = got /\ ~Shown(taken + 1)
        /\ taken \in Nat /\ Len(down) \in Nat
    BY <1>1, <1>5 DEF ReadSkip, Next1, Shown, TypeOK
  <2>2. ReadsLoseNothing' BY <2>1, PassesOver
  <2>3. EndPassed => EndPassed' BY <2>1 DEF EndPassed
  <2> QED BY <1>1, <1>2, <2>1, <2>2, <2>3 DEF DownInv, EndSeen
<1>6. CASE ReadNone
  <2>1. /\ taken' = taken /\ taken = Len(down) /\ down' = down /\ link' = link
        /\ got' = Append(got, 0) /\ ~Alive
        /\ taken \in Nat
    BY <1>1, <1>6 DEF ReadNone, Return, TypeOK
  <2>2. ReadsLoseNothing' BY <2>1, PassesOver
  <2>3. EndPassed' BY <2>1 DEF EndPassed, Alive, RemoteClosed, Has
  <2> QED BY <1>1, <1>2, <2>1, <2>2, <2>3 DEF DownInv, EndSeen
<1>7. CASE (\E m \in {"data", "stderr", "other", "eof"} : RemoteSends(m)) \/ RemoteCloses
  <2>1. PICK m \in Messages : /\ Alive /\ down' = Append(down, m)
                              /\ m \in {"data", "stderr"} => ~Has("eof")
                              /\ UNCHANGED <<taken, got>>
    BY <1>7 DEF RemoteSends, RemoteCloses, Messages, downward
  <2> QED BY <1>1, <2>1, Arrives DEF DownInv
<1>8. CASE UNCHANGED <<down, taken, got>> /\ (link' = link \/ LinkBreaks)
  <2>1. EndPassed => EndPassed'
    BY <1>8 DEF EndPassed, Alive, RemoteClosed, Has, LinkBreaks
  <2>2. ReadsLoseNothing' BY <1>8 DEF DownInv, ReadsLoseNothing, Shown
  <2> QED BY <1>1, <1>2, <1>8, <2>1, <2>2 DEF DownInv, EndSeen
<1>9. ASSUME NEW t \in Threads, Write(t)
      PROVE  UNCHANGED <<down, taken, got, link>>
  BY <1>9 DEF Write, Enter, WriteLock, WriteSent, WriteFailed, Eof, Disconnect, downward
<1>10. CASE CloserEof \/ CloserClose \/ Read \/ RemoteWidens \/ UNCHANGED vars
  <2>1. UNCHANGED <<down, taken, got, link>>
    BY <1>10 DEF CloserEof, CloserClose, Read, RemoteWidens, vars, downward
  <2> QED BY <1>8, <2>1
<1>11. CASE LinkBreaks BY <1>8, <1>11 DEF LinkBreaks, downward
<1> QED BY <1>3, <1>4, <1>5, <1>6, <1>7, <1>8, <1>9, <1>10, <1>11 DEF Next, Reader, Remote

\* Reads return all of what was received, in order, and an empty read only
\* after the last of it.
THEOREM ReadsNeverLose == Spec => []ReadsLoseNothing
<1>1. Init => DownInv
  BY TypeInit DEF Init, DownInv, DownInOrder, EndSeen, ReadsLoseNothing
<1>2. DownInv => ReadsLoseNothing BY DEF DownInv
<1> QED BY <1>1, <1>2, DownStep, PTL DEF Spec
-----------------------------------------------------------------------------
(***************************************************************************)
(* Pipe's reads implement Delivery: the remote side's bytes are what       *)
(* arrives, what reads return is handed over, the first empty read is the  *)
(* end.                                                                    *)
(***************************************************************************)
Arrived == {n \in 1..Len(down) : Shown(n)}
Given   == {got[k] : k \in 1..Len(got)} \ {0}
Told    == \E k \in 1..Len(got) : got[k] = 0

\* The reads are as far as the cursor.
GivenToCursor == Given = {n \in 1..taken : Shown(n)}

LEMMA GivenFacts == DownInv => GivenToCursor
<1> SUFFICES ASSUME DownInv PROVE GivenToCursor
  OBVIOUS
<1> USE DEF DownInv
<1>1. taken \in Nat BY DEF TypeOK
<1>2. \A n \in Given : n \in 1..taken /\ Shown(n)
  BY DEF Given, ReadsLoseNothing
<1>3. ASSUME NEW n \in 1..taken, Shown(n) PROVE n \in Given
  <2>1. PICK k \in 1..Len(got) : got[k] = n BY <1>3 DEF ReadsLoseNothing
  <2> QED BY <1>1, <2>1 DEF Given
<1> QED BY <1>2, <1>3 DEF GivenToCursor

\* One more result in got: what it does to the mapping.
LEMMA GotAppended ==
  ASSUME TypeOK, NEW what \in Nat, got' = Append(got, what)
  PROVE  /\ Given' = Given \cup ({what} \ {0})
         /\ Told' <=> Told \/ what = 0
<1>1. got \in Seq(Nat) /\ Len(got) \in Nat BY DEF TypeOK
<1>2. /\ Len(got') = Len(got) + 1 /\ got'[Len(got) + 1] = what
      /\ \A k \in 1..Len(got) : got'[k] = got[k]
  BY <1>1, AppendFacts
<1>3. 1..Len(got') = (1..Len(got)) \cup {Len(got) + 1}
  BY <1>1, <1>2
<1>4. {got'[k] : k \in 1..Len(got')} = {got[k] : k \in 1..Len(got)} \cup {what}
  BY <1>2, <1>3
<1>5. Given' = Given \cup ({what} \ {0}) BY <1>4 DEF Given
<1>6. Told' <=> Told \/ what = 0
  BY <1>2, <1>3 DEF Told
<1> QED BY <1>5, <1>6

LEMMA StreamStep ==
  DownInv /\ DownInv' /\ [Next]_vars => [Stream!Next]_(Stream!vars)
<1> SUFFICES ASSUME DownInv, DownInv', [Next]_vars
             PROVE  [Stream!Next]_(Stream!vars)
  OBVIOUS
<1>0. /\ TypeOK /\ Len(down) \in Nat /\ taken \in 0..Len(down)
      /\ Given = {n \in 1..taken : Shown(n)}
  BY GivenFacts DEF DownInv, TypeOK, GivenToCursor
<1>end. Told => EndPassed BY DEF DownInv, EndSeen, Told
<1>stutter. ASSUME Arrived' = Arrived, Given' = Given, Told' = Told
            PROVE  UNCHANGED Stream!vars
  BY <1>stutter DEF Arrived, Given, Told, Stream!vars
<1>same. ASSUME UNCHANGED <<down, got>> PROVE UNCHANGED Stream!vars
  BY <1>same, <1>stutter DEF Arrived, Given, Told, Shown
<1>1. ASSUME NEW m \in Messages, Alive, down' = Append(down, m), UNCHANGED got,
             m \in {"data", "stderr"} => ~Has("eof")
      PROVE  [Stream!Next]_(Stream!vars)
  <2>1. /\ Len(down') = Len(down) + 1 /\ down'[Len(down) + 1] = m
        /\ \A n \in 1..Len(down) : down'[n] = down[n]
    <3>1. down \in Seq(Messages) BY <1>0 DEF TypeOK
    <3> QED BY <1>1, <3>1, AppendFacts
  <2>2. Given' = Given /\ Told' = Told BY <1>1 DEF Given, Told
  <2>3. Arrived' = Arrived \cup (IF m \in {"data", "stderr"} THEN {Len(down) + 1} ELSE {})
    BY <1>0, <2>1 DEF Arrived, Shown
  <2>4. CASE m \notin {"data", "stderr"} BY <1>stutter, <2>2, <2>3, <2>4
  <2>5. CASE m \in {"data", "stderr"}
    <3>1. ~Told
      BY <1>0, <1>1, <1>end, <2>5 DEF EndPassed, Alive, RemoteClosed, Has
    <3>2. Arrived \subseteq 1..Len(down) /\ Arrived' \ Arrived \subseteq {Len(down) + 1}
      BY <2>3 DEF Arrived
    <3>3. \A n \in Arrived, k \in Arrived' \ Arrived : n < k
      BY <1>0, <3>2
    <3>4. Arrived \subseteq Arrived' /\ Arrived' \subseteq Nat
      <4>1. Arrived' = Arrived \cup {Len(down) + 1}
        BY <2>3, <2>5
      <4>2. Len(down) + 1 \in Nat /\ 1..Len(down) \subseteq Nat
        BY <1>0
      <4> QED BY <3>2, <4>1, <4>2
    <3>5. Stream!Arrive
      BY <2>2, <3>1, <3>3, <3>4 DEF Stream!Arrive, Arrived, Given, Told
    <3> QED BY <3>5 DEF Stream!Next
  <2> QED BY <2>4, <2>5
<1>2. CASE ReadData
  <2>1. /\ taken' = taken + 1 /\ taken < Len(down) /\ down' = down
        /\ got' = Append(got, taken + 1) /\ Shown(taken + 1) /\ taken \in Nat
    BY <1>0, <1>2 DEF ReadData, Return, Next1, Shown
  <2>2. ~Told
    <3>1. taken + 1 \in (taken + 1)..Len(down) BY <1>0, <2>1
    <3> QED BY <1>0, <1>end, <2>1, <3>1, NothingBehind DEF DownInv
  <2>3. Given' = Given \cup {taken + 1} /\ ~Told'
    BY <1>0, <2>1, <2>2, GotAppended
  <2>4. Given' = {n \in 1..(taken + 1) : Shown(n)}
    BY <1>0, <2>1, <2>3
  <2>5. Given \subseteq Given' /\ Given' \subseteq Arrived /\ Arrived' = Arrived
    BY <1>0, <2>1, <2>3, <2>4 DEF Arrived, Shown
  <2>6. \A n \in Given', k \in Arrived \ Given' : n < k
    BY <1>0, <2>1, <2>4 DEF Arrived
  <2>7. Stream!HandOver
    BY <2>2, <2>3, <2>5, <2>6 DEF Stream!HandOver, Arrived, Given, Told
  <2> QED BY <2>7 DEF Stream!Next
<1>3. CASE ReadEnd \/ ReadNone
  <2>1. got' = Append(got, 0) /\ down' = down
    BY <1>3 DEF ReadEnd, ReadNone, Return
  <2>2. Given' = Given /\ Told' /\ Arrived' = Arrived
    <3>1. Given' = Given \cup ({0} \ {0}) /\ Told' BY <1>0, <2>1, GotAppended
    <3> QED BY <2>1, <3>1 DEF Arrived, Shown
  <2>3. \A n \in (taken + 1)..Len(down) : ~Shown(n)
    <3>1. CASE ReadEnd
      <4>1. /\ taken + 1 \in 1..Len(down) /\ down[taken + 1] \in {"eof", "close"}
        BY <1>0, <3>1 DEF ReadEnd, Next1
      <4>2. \A n \in (taken + 2)..Len(down) :
              n \in 1..Len(down) /\ taken + 1 < n
        BY <1>0
      <4>3. \A n \in (taken + 2)..Len(down) : ~Shown(n)
        BY <4>1, <4>2 DEF DownInv, DownInOrder
      <4> QED BY <1>0, <4>1, <4>3 DEF Shown
    <3>2. CASE ReadNone BY <1>0, <3>2 DEF ReadNone
    <3> QED BY <1>3, <3>1, <3>2
  <2>4. Given = Arrived
    BY <1>0, <2>3 DEF Arrived
  <2>5. CASE Told BY <1>stutter, <2>2, <2>5
  <2>6. CASE ~Told
    <3>1. Stream!End
      BY <2>2, <2>4, <2>6 DEF Stream!End, Arrived, Given, Told
    <3> QED BY <3>1 DEF Stream!Next
  <2> QED BY <2>5, <2>6
<1>4. CASE ReadSkip BY <1>same, <1>4 DEF ReadSkip
<1>5. CASE (\E m \in {"data", "stderr", "other", "eof"} : RemoteSends(m)) \/ RemoteCloses
  BY <1>1, <1>5 DEF RemoteSends, RemoteCloses, Messages, downward
<1>6. ASSUME NEW t \in Threads, Write(t) PROVE UNCHANGED Stream!vars
  BY <1>same, <1>6 DEF Write, Enter, WriteLock, WriteSent, WriteFailed, Eof, Disconnect,
     downward
<1>7. CASE CloserEof \/ CloserClose \/ Read \/ RemoteWidens \/ LinkBreaks
             \/ UNCHANGED vars
  BY <1>same, <1>7 DEF CloserEof, CloserClose, Read, RemoteWidens, LinkBreaks,
     vars, downward
<1> QED BY <1>2, <1>3, <1>4, <1>5, <1>6, <1>7 DEF Next, Reader, Remote

\* The end of a pipe is told behind all of the remote side's bytes and before
\* none, whether an EOF, a CLOSE or a dead link brought it.
THEOREM ReadsAlwaysDelivered == Spec => Delivered
<1>1. Init => DownInv
  BY TypeInit DEF Init, DownInv, DownInOrder, EndSeen, ReadsLoseNothing
<1>2. Init => Stream!Init
  BY DEF Init, Stream!Init
<1>3. DownInv /\ DownInv' /\ [Next]_vars => [Stream!Next]_(Stream!vars)
  BY StreamStep
<1> QED BY <1>1, <1>2, <1>3, DownStep, PTL DEF Spec, Delivered, Stream!Spec
=============================================================================
