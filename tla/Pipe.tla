-------------------------------- MODULE Pipe --------------------------------
(***************************************************************************)
(* SshSpikeChannel (ssh-transport/src/lib.rs): one byte pipe, opened by    *)
(* open_direct_tcpip or handed over for a remote forward. A bridge pumps   *)
(* it from several threads: one reads, others write, half-close and        *)
(* disconnect, any of them at any moment and as often as they like.        *)
(*                                                                         *)
(* The write half is behind a mutex that a write keeps while it waits for  *)
(* the channel's window. It is held exactly while some pc is "sending".    *)
(* Reads are serialized by the caller's contract, so one reader stands for *)
(* all of them. A message taken is told by its position.                   *)
(***************************************************************************)
EXTENDS Integers, Sequences, FiniteSets

CONSTANTS
  Threads,  \* the bridge's threads on the write side
  Window,   \* bound: writes the channel window admits at once
  MaxUp,    \* bound: no write is begun once so many data frames are out
  MaxEofs,  \* bound: no half-close is begun once so many EOFs are out
  MaxDown,  \* bound: messages of the remote side before its CHANNEL_CLOSE
  MaxEnds   \* bound: reads the bridge makes after the first empty one

ASSUME PipeAssumption ==
  /\ Threads # {}
  /\ Window \in Nat \ {0}
  /\ MaxUp \in Nat /\ MaxEofs \in Nat /\ MaxDown \in Nat /\ MaxEnds \in Nat

VARIABLES
  pc,         \* what each writing thread is doing
  writeHalf,  \* in the object, with the closer (on its EOF, on its CLOSE), gone
  up,         \* the frames the client put on the channel
  window,     \* data frames the window still admits
  reading,    \* a read is under way
  down,       \* the remote side's messages the client received
  taken,      \* how many of them the reads have taken
  got,        \* what the reads returned: a message's position, 0 for empty
  link        \* the connection the channel is on

upward   == <<pc, writeHalf, up, window>>
downward == <<reading, taken, got>>
vars     == <<pc, writeHalf, up, window, reading, down, taken, got, link>>

Frames   == {"data", "eof", "close"}
Messages == {"data", "stderr", "other", "eof", "close"}

Has(m)        == \E n \in 1..Len(down) : down[n] = m
RemoteClosed  == Has("close")
Alive         == link = "up" /\ ~RemoteClosed
WriteLockFree == \A t \in Threads : pc[t] # "sending"
Sent(f)       == Cardinality({n \in 1..Len(up) : up[n] = f})
Empties       == Cardinality({n \in 1..Len(got) : got[n] = 0})

TypeOK ==
  /\ pc \in [Threads -> {"idle", "write", "sending", "eof", "disconnect"}]
  /\ writeHalf \in {"held", "eof", "close", "gone"}
  /\ up \in Seq(Frames)
  /\ window \in 0..Window
  /\ reading \in BOOLEAN
  /\ down \in Seq(Messages)
  /\ taken \in 0..Len(down)
  /\ got \in Seq(Nat)
  /\ link \in {"up", "down"}

Init ==
  /\ pc = [t \in Threads |-> "idle"]
  /\ writeHalf = "held" /\ up = <<>> /\ window = Window
  /\ reading = FALSE /\ down = <<>> /\ taken = 0 /\ got = <<>>
  /\ link = "up"

Goto(t, where) == pc' = [pc EXCEPT ![t] = where]
Put(frame)     == up' = IF Alive THEN Append(up, frame) ELSE up
-----------------------------------------------------------------------------
(***************************************************************************)
(* The write side. Nothing in the object tells that eof was called: the    *)
(* half stays where it is, for the next write as for the next eof.         *)
(***************************************************************************)
\* The bridge calls what it likes; a second disconnect finds nothing to take.
Enter(t) ==
  /\ pc[t] = "idle"
  /\ \/ Sent("data") < MaxUp /\ Goto(t, "write")
     \/ Sent("eof") < MaxEofs /\ Goto(t, "eof")
     \/ Goto(t, "disconnect")
  /\ UNCHANGED <<writeHalf, up, window, downward, down, link>>

\* write: without the half it is an error.
WriteLock(t) ==
  /\ pc[t] = "write" /\ WriteLockFree
  /\ Goto(t, IF writeHalf = "held" THEN "sending" ELSE "idle")
  /\ UNCHANGED <<writeHalf, up, window, downward, down, link>>

\* A write that does not wait for the window.
WriteSentBlind(t) ==
  /\ pc[t] = "sending" /\ Alive
  /\ window' = window - 1
  /\ Put("data")
  /\ Goto(t, "idle")
  /\ UNCHANGED <<writeHalf, downward, down, link>>

WriteSent(t) ==
  /\ pc[t] = "sending" /\ window > 0 /\ Alive
  /\ window' = window - 1
  /\ Put("data")
  /\ Goto(t, "idle")
  /\ UNCHANGED <<writeHalf, downward, down, link>>

WriteFailed(t) ==
  /\ pc[t] = "sending" /\ ~Alive
  /\ Goto(t, "idle")
  /\ UNCHANGED <<writeHalf, up, window, downward, down, link>>

\* eof needs no window; once disconnected it is an error.
Eof(t) ==
  /\ pc[t] = "eof" /\ WriteLockFree
  /\ IF writeHalf = "held" THEN Put("eof") ELSE UNCHANGED up
  /\ Goto(t, "idle")
  /\ UNCHANGED <<writeHalf, window, downward, down, link>>

\* A disconnect that does not wait for the lock.
DisconnectUnlocked(t) ==
  /\ pc[t] = "disconnect"
  /\ writeHalf' = IF writeHalf = "held" THEN "eof" ELSE writeHalf
  /\ Goto(t, "idle")
  /\ UNCHANGED <<up, window, downward, down, link>>

\* disconnect: whoever finds the half spawns the closer.
Disconnect(t) ==
  /\ pc[t] = "disconnect" /\ WriteLockFree
  /\ writeHalf' = IF writeHalf = "held" THEN "eof" ELSE writeHalf
  /\ Goto(t, "idle")
  /\ UNCHANGED <<up, window, downward, down, link>>

CloserEof ==
  /\ writeHalf = "eof" /\ writeHalf' = "close"
  /\ Put("eof")
  /\ UNCHANGED <<pc, window, downward, down, link>>

CloserClose ==
  /\ writeHalf = "close" /\ writeHalf' = "gone"
  /\ Put("close")
  /\ UNCHANGED <<pc, window, downward, down, link>>
-----------------------------------------------------------------------------
(***************************************************************************)
(* The read side: read loops over wait() until it has something to return. *)
(***************************************************************************)
Read ==
  /\ ~reading /\ Empties <= MaxEnds
  /\ reading' = TRUE
  /\ UNCHANGED <<upward, down, taken, got, link>>

Next1 == down[taken + 1]

Return(what) == reading' = FALSE /\ got' = Append(got, what)

ReadData ==
  /\ reading /\ taken < Len(down) /\ Next1 \in {"data", "stderr"}
  /\ taken' = taken + 1
  /\ Return(taken + 1)
  /\ UNCHANGED <<upward, down, link>>

\* The end looked for in the channel's state, ahead of what is still queued.
EndAhead ==
  /\ reading /\ (Has("eof") \/ RemoteClosed)
  /\ taken' = Len(down)
  /\ Return(0)
  /\ UNCHANGED <<upward, down, link>>

ReadEnd ==
  /\ reading /\ taken < Len(down) /\ Next1 \in {"eof", "close"}
  /\ taken' = taken + 1
  /\ Return(0)
  /\ UNCHANGED <<upward, down, link>>

\* A half-close passed over, as the shell's pump does.
SkipEof ==
  /\ reading /\ taken < Len(down) /\ Next1 \in {"other", "eof"}
  /\ taken' = taken + 1
  /\ UNCHANGED <<upward, down, reading, got, link>>

ReadSkip ==
  /\ reading /\ taken < Len(down) /\ Next1 = "other"
  /\ taken' = taken + 1
  /\ UNCHANGED <<upward, down, reading, got, link>>

\* wait() gives None: the queue is empty, the channel or the link is gone.
ReadNone ==
  /\ reading /\ taken = Len(down) /\ ~Alive
  /\ Return(0)
  /\ UNCHANGED <<upward, down, taken, link>>
-----------------------------------------------------------------------------
(***************************************************************************)
(* The remote side and the link.                                           *)
(***************************************************************************)
RemoteSends(m) ==
  /\ Alive /\ Len(down) < MaxDown
  /\ m \in {"data", "stderr"} => ~Has("eof")
  /\ m = "eof" => ~Has("eof")
  /\ down' = Append(down, m)
  /\ UNCHANGED <<upward, downward, link>>

RemoteCloses ==
  /\ Alive
  /\ down' = Append(down, "close")
  /\ UNCHANGED <<upward, downward, link>>

RemoteWidens ==
  /\ Alive /\ window < Window
  /\ window' = window + 1
  /\ UNCHANGED <<pc, writeHalf, up, downward, down, link>>

LinkBreaks ==
  /\ link = "up" /\ link' = "down"
  /\ UNCHANGED <<upward, downward, down>>
-----------------------------------------------------------------------------
Write(t) ==
  \/ Enter(t) \/ WriteLock(t) \/ WriteSent(t) \/ WriteFailed(t)
  \/ Eof(t) \/ Disconnect(t)

Reader == ReadData \/ ReadEnd \/ ReadSkip \/ ReadNone

Remote ==
  \/ \E m \in {"data", "stderr", "other", "eof"} : RemoteSends(m)
  \/ RemoteCloses \/ RemoteWidens \/ LinkBreaks

Next ==
  \/ \E t \in Threads : Write(t)
  \/ CloserEof \/ CloserClose \/ Read \/ Reader \/ Remote

Spec == Init /\ [][Next]_vars

\* A thread inside read runs, and so does the closer. Nothing is assumed of
\* the remote side, nor of the writing threads.
FairSpec == Spec /\ WF_vars(Reader) /\ WF_vars(CloserEof) /\ WF_vars(CloserClose)
-----------------------------------------------------------------------------
(***************************************************************************)
(* Properties.                                                             *)
(***************************************************************************)
\* However writes, half-closes and disconnects race, a disconnect is the end
\* of what the remote side sees: the CLOSE comes right behind an EOF, and
\* nothing comes behind it, neither from a write that was waiting nor from a
\* second disconnect.
UpEndsInOrder ==
  \A n \in 1..Len(up) : up[n] = "close" =>
    n = Len(up) /\ n > 1 /\ up[n - 1] = "eof"

Shown(n) == down[n] \in {"data", "stderr"}

\* The bytes the reads returned are the remote side's, in order and without
\* a gap, and an empty read comes after the last of them: nothing that was
\* received is behind an end.
ReadsLoseNothing ==
  /\ \A n \in 1..taken : Shown(n) => \E k \in 1..Len(got) : got[k] = n
  /\ \A k \in 1..Len(got) : got[k] # 0 => got[k] \in 1..taken /\ Shown(got[k])
  /\ \A j, k \in 1..Len(got) : j < k /\ got[k] # 0 => got[j] # 0 /\ got[j] < got[k]

\* The first empty read comes behind all the bytes of the remote side, and
\* none arrives after it (Delivery).
Stream == INSTANCE Delivery WITH
            sent <- {n \in 1..Len(down) : Shown(n)},
            out  <- {got[k] : k \in 1..Len(got)} \ {0},
            over <- \E k \in 1..Len(got) : got[k] = 0
Delivered == Stream!Spec

\* A remote half-close, a close and a dead link each bring a read that is
\* waiting back, also while the channel stays open the other way: the
\* bridge can propagate the FIN.
FinReachesReader ==
  reading /\ (~Alive \/ \E n \in (taken + 1)..Len(down) : down[n] = "eof")
    ~> ~reading
=============================================================================
