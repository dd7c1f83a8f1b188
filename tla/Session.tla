------------------------------ MODULE Session ------------------------------
(***************************************************************************)
(* SshSpikeSession (ssh-transport/src/lib.rs): the session object several  *)
(* caller threads share, the runtime tasks it spawns, and the chain of SSH *)
(* connections it owns.                                                    *)
(*                                                                         *)
(* Two mutexes guard it. write_half holds the shell channel's write half,  *)
(* handle the target connection; both turn None when disconnect takes      *)
(* them, and a caller keeps the lock for as long as it awaits. A lock is   *)
(* held exactly while some thread's pc says so, so no variable repeats it. *)
(*                                                                         *)
(* Connections are numbered outermost first: 1 is the socket, each further *)
(* one rides a direct-tcpip channel of the one before, and Target carries  *)
(* the shell. The pump task reads the shell channel into the event sink.   *)
(***************************************************************************)
EXTENDS Integers, Sequences, FiniteSets

CONSTANTS
  Threads,      \* caller threads sharing the session object
  Hops,         \* connections in the chain, the target included
  KeepAlive,    \* keep_alive_seconds # 0
  Window,       \* bound: writes the server's channel window admits
  MaxMessages   \* bound: messages the server sends before its CHANNEL_CLOSE

ASSUME SessionAssumption ==
  /\ Threads # {}
  /\ Hops \in Nat \ {0}
  /\ KeepAlive \in BOOLEAN
  /\ Window \in Nat \ {0}
  /\ MaxMessages \in Nat

VARIABLES
  pc,         \* what each caller thread is doing
  writeHalf,  \* the shell write half: in the session, with the closer, gone
  handle,     \* the target handle: in the session, with the teardown task, ...
  pending,    \* connections whose bye the teardown has still to say
  conn,       \* how each connection is, and what ended it
  wire,       \* the last frame the client put on the shell channel
  window,     \* writes the channel window still admits
  sent,       \* the server's messages the client received on the shell channel
  read,       \* how many of them the pump has taken
  events      \* what the sink was told

callers == <<pc>>
shell   == <<writeHalf, wire, window>>
chain   == <<handle, pending, conn>>
stream  == <<sent, read, events>>
vars    == <<pc, writeHalf, wire, window, handle, pending, conn, sent, read, events>>

Conns  == 1..Hops
Target == Hops

Up   == {"up", "silent"}    \* silent: the link swallows everything, unnoticed
Down == {"bye",             \* ended by its own graceful disconnect
         "dropped",         \* ended because its handle was dropped
         "lost",            \* ended by link loss, keepalive or a killed peer
         "orphaned"}        \* ended because the connection it rides ended

Payload  == {"data", "stderr", "status", "eof"}
Terminal == {"Closed", "Died"}
Event    == [kind : {"Data", "ExitStatus"} \cup Terminal, of : Nat]

\* Bytes reach connection i only through every connection it rides.
Reachable(i) == \A j \in 1..i : conn[j] = "up"

ServerClosed == \E n \in 1..Len(sent) : sent[n] = "close"
PumpOver     == \E n \in 1..Len(events) : events[n].kind \in Terminal

WriteLockFree  == \A t \in Threads : pc[t] # "sending"
HandleLockFree == \A t \in Threads : pc[t] # "calling"

TypeOK ==
  /\ pc \in [Threads -> {"idle", "write", "sending", "resize", "call", "calling",
                         "disconnect", "closeHandle"}]
  /\ writeHalf \in {"held", "eof", "close", "gone"}
  /\ handle \in {"open", "taken", "closed", "released"}
  /\ pending \subseteq Conns
  /\ conn \in [Conns -> Up \cup Down]
  /\ wire \in {"none", "data", "winch", "eof", "close"}
  /\ window \in 0..Window
  /\ sent \in Seq(Payload \cup {"close"})
  /\ read \in 0..Len(sent)
  /\ events \in Seq(Event)

\* connect_inner hands the session over: everything is up, the pump runs.
Init ==
  /\ pc = [t \in Threads |-> "idle"]
  /\ writeHalf = "held" /\ wire = "none" /\ window = Window
  /\ handle = "open" /\ pending = Conns /\ conn = [i \in Conns |-> "up"]
  /\ sent = <<>> /\ read = 0 /\ events = <<>>

Goto(t, where) == pc' = [pc EXCEPT ![t] = where]
-----------------------------------------------------------------------------
(***************************************************************************)
(* Caller threads.                                                         *)
(***************************************************************************)
\* A caller that still has the session object enters one of its methods.
Enter(t) ==
  /\ pc[t] = "idle" /\ handle # "released"
  /\ \E op \in {"write", "resize", "call", "disconnect"} : Goto(t, op)
  /\ UNCHANGED <<shell, chain, stream>>

\* write: None is an error; otherwise the lock is kept while the data waits
\* for window.
WriteLock(t) ==
  /\ pc[t] = "write" /\ WriteLockFree
  /\ Goto(t, IF writeHalf = "held" THEN "sending" ELSE "idle")
  /\ UNCHANGED <<shell, chain, stream>>

\* A write that does not wait for the window.
WriteSentBlind(t) ==
  /\ pc[t] = "sending" /\ conn[Target] \in Up
  /\ window' = window - 1
  /\ wire' = "data"
  /\ Goto(t, "idle")
  /\ UNCHANGED <<writeHalf, chain, stream>>

WriteSent(t) ==
  /\ pc[t] = "sending" /\ window > 0 /\ conn[Target] \in Up
  /\ window' = window - 1
  /\ wire' = "data"
  /\ Goto(t, "idle")
  /\ UNCHANGED <<writeHalf, chain, stream>>

\* The transport is gone, or the server has closed the channel.
WriteFailed(t) ==
  /\ pc[t] = "sending" /\ (conn[Target] \in Down \/ ServerClosed)
  /\ Goto(t, "idle")
  /\ UNCHANGED <<shell, chain, stream>>

\* A resize that looks at the half without taking the lock's word for it.
ResizeUnguarded(t) ==
  /\ pc[t] = "resize" /\ WriteLockFree
  /\ wire' = IF conn[Target] \in Up THEN "winch" ELSE wire
  /\ Goto(t, "idle")
  /\ UNCHANGED <<writeHalf, window, chain, stream>>

\* resize: window_change needs no window, so the lock is back at once.
Resize(t) ==
  /\ pc[t] = "resize" /\ WriteLockFree
  /\ wire' = IF writeHalf = "held" /\ conn[Target] \in Up THEN "winch" ELSE wire
  /\ Goto(t, "idle")
  /\ UNCHANGED <<writeHalf, window, chain, stream>>

\* exec, sftp, sftp_read, direct_tcpip_banner, open_direct_tcpip and the two
\* remote-forward requests: the handle lock is kept across every await.
CallLock(t) ==
  /\ pc[t] = "call" /\ HandleLockFree
  /\ Goto(t, IF handle = "open" THEN "calling" ELSE "idle")
  /\ UNCHANGED <<shell, chain, stream>>

CallAnswered(t) ==
  /\ pc[t] = "calling" /\ Reachable(Target)
  /\ Goto(t, "idle")
  /\ UNCHANGED <<shell, chain, stream>>

CallFailed(t) ==
  /\ pc[t] = "calling" /\ conn[Target] \in Down
  /\ Goto(t, "idle")
  /\ UNCHANGED <<shell, chain, stream>>

\* disconnect, first half: whoever finds the write half spawns the closer.
DisconnectShell(t) ==
  /\ pc[t] = "disconnect" /\ WriteLockFree
  /\ writeHalf' = IF writeHalf = "held" THEN "eof" ELSE writeHalf
  /\ Goto(t, "closeHandle")
  /\ UNCHANGED <<wire, window, chain, stream>>

\* A disconnect that only tries the handle lock, and gives up on a busy one.
DisconnectHandleTry(t) ==
  /\ pc[t] = "closeHandle"
  /\ handle' = IF handle = "open" /\ HandleLockFree THEN "taken" ELSE handle
  /\ Goto(t, "idle")
  /\ UNCHANGED <<pending, conn, shell, stream>>

\* A disconnect that does not wait for the handle lock.
DisconnectHandleUnlocked(t) ==
  /\ pc[t] = "closeHandle"
  /\ handle' = IF handle = "open" THEN "taken" ELSE handle
  /\ Goto(t, "idle")
  /\ UNCHANGED <<pending, conn, shell, stream>>

\* disconnect, second half: whoever finds the handle takes it together with
\* the parents and spawns the teardown.
DisconnectHandle(t) ==
  /\ pc[t] = "closeHandle" /\ HandleLockFree
  /\ handle' = IF handle = "open" THEN "taken" ELSE handle
  /\ Goto(t, "idle")
  /\ UNCHANGED <<pending, conn, shell, stream>>

\* The last reference goes without a disconnect: dropping the fields drops
\* every handle.
Release ==
  /\ \A t \in Threads : pc[t] = "idle"
  /\ handle = "open"
  /\ handle' = "released"
  /\ writeHalf' = "gone"
  /\ conn' = [i \in Conns |-> IF conn[i] \in Up THEN "dropped" ELSE conn[i]]
  /\ UNCHANGED <<callers, wire, window, pending, stream>>
-----------------------------------------------------------------------------
(***************************************************************************)
(* The tasks disconnect spawns. They run on the shared runtime, beside     *)
(* each other and beside the pump.                                         *)
(***************************************************************************)
CloserEof ==
  /\ writeHalf = "eof"
  /\ writeHalf' = "close"
  /\ wire' = IF conn[Target] \in Up THEN "eof" ELSE wire
  /\ UNCHANGED <<callers, window, chain, stream>>

CloserClose ==
  /\ writeHalf = "close"
  /\ writeHalf' = "gone"
  /\ wire' = IF conn[Target] \in Up THEN "close" ELSE wire
  /\ UNCHANGED <<callers, window, chain, stream>>

\* The teardown walking the parents in the order they are stored.
OutermostFirst(i) ==
  /\ i \in pending
  /\ \/ i = Target
     \/ Target \notin pending /\ \A j \in pending : i <= j

\* The target's bye comes first, then the parents in reverse.
ByeTurn(i) == i \in pending /\ \A j \in pending : j <= i

\* A parent's handle goes at the end of its turn; the target's is kept by
\* the task until it ends.
EndBye(i, how) ==
  /\ pending' = pending \ {i}
  /\ conn' = [conn EXCEPT ![i] = IF @ \in Up THEN how ELSE @]
  /\ UNCHANGED <<handle, callers, shell, stream>>

\* The server confirms within the five seconds.
ByeAnswered(i) ==
  /\ handle = "taken" /\ ByeTurn(i) /\ Reachable(i)
  /\ EndBye(i, "bye")

\* The connection had ended already: disconnect returns its error at once.
ByeRefused(i) ==
  /\ handle = "taken" /\ ByeTurn(i) /\ conn[i] \in Down
  /\ EndBye(i, "bye")

\* A bye without its bound: only the answer ends it.
ByeUnbounded(i) ==
  /\ handle = "taken" /\ ByeTurn(i) /\ Reachable(i)
  /\ EndBye(i, "bye")

\* A parent's handle kept past its turn, as the target's is.
ByeTimeoutKept(i) ==
  /\ handle = "taken" /\ ByeTurn(i) /\ conn[i] \in Up
  /\ EndBye(i, conn[i])

\* The five seconds pass first.
ByeTimeout(i) ==
  /\ handle = "taken" /\ ByeTurn(i) /\ conn[i] \in Up
  /\ EndBye(i, IF i = Target THEN conn[i] ELSE "dropped")

\* The target's bye was on its way when the timeout gave up on it.
ByeLate ==
  /\ handle = "taken" /\ Target \notin pending /\ Reachable(Target)
  /\ conn' = [conn EXCEPT ![Target] = "bye"]
  /\ UNCHANGED <<handle, pending, callers, shell, stream>>

\* The teardown's last drop is the target handle it captured.
TeardownEnds ==
  /\ handle = "taken" /\ pending = {}
  /\ handle' = "closed"
  /\ conn' = [conn EXCEPT ![Target] = IF @ \in Up THEN "dropped" ELSE @]
  /\ UNCHANGED <<pending, callers, shell, stream>>
-----------------------------------------------------------------------------
(***************************************************************************)
(* Connections: russh's session tasks and the links under them.            *)
(***************************************************************************)
\* A black hole: packets vanish and neither end is told.
GoesSilent(i) ==
  /\ conn[i] = "up"
  /\ conn' = [conn EXCEPT ![i] = "silent"]
  /\ UNCHANGED <<handle, pending, callers, shell, stream>>

\* A reset, a killed sshd, a retransmission limit: the error surfaces.
Breaks(i) ==
  /\ conn[i] \in Up
  /\ conn' = [conn EXCEPT ![i] = "lost"]
  /\ UNCHANGED <<handle, pending, callers, shell, stream>>

\* Keepalives on the connection that has the socket, and on no other.
DetectsSocketOnly(i) ==
  /\ KeepAlive /\ i = 1 /\ conn[i] \in Up /\ ~Reachable(i)
  /\ conn' = [conn EXCEPT ![i] = "lost"]
  /\ UNCHANGED <<handle, pending, callers, shell, stream>>

\* Unanswered keepalives: every hop carries its own.
Detects(i) ==
  /\ KeepAlive /\ conn[i] \in Up /\ ~Reachable(i)
  /\ conn' = [conn EXCEPT ![i] = "lost"]
  /\ UNCHANGED <<handle, pending, callers, shell, stream>>

\* The channel a connection rides ends with the connection below it.
Orphaned(i) ==
  /\ i > 1 /\ conn[i] \in Up /\ conn[i - 1] \in Down
  /\ conn' = [conn EXCEPT ![i] = "orphaned"]
  /\ UNCHANGED <<handle, pending, callers, shell, stream>>
-----------------------------------------------------------------------------
(***************************************************************************)
(* The shell channel: the server's side, and the pump.                     *)
(***************************************************************************)
ServerSends(m) ==
  /\ Reachable(Target) /\ ~ServerClosed /\ Len(sent) < MaxMessages
  /\ m \in {"data", "stderr"} => \A n \in 1..Len(sent) : sent[n] # "eof"
  /\ sent' = Append(sent, m)
  /\ UNCHANGED <<read, events, callers, shell, chain>>

\* The user's exit, a detached tmux, or the answer to the closer's CLOSE.
ServerCloses ==
  /\ Reachable(Target) /\ ~ServerClosed
  /\ sent' = Append(sent, "close")
  /\ UNCHANGED <<read, events, callers, shell, chain>>

ServerWidens ==
  /\ Reachable(Target) /\ window < Window
  /\ window' = window + 1
  /\ UNCHANGED <<writeHalf, wire, callers, chain, stream>>

Tell(kind, n) == events' = Append(events, [kind |-> kind, of |-> n])

\* The arms of the pump's match. A half-close and every other message are
\* passed over.
PumpData ==
  /\ ~PumpOver /\ read < Len(sent) /\ sent[read + 1] \in {"data", "stderr"}
  /\ read' = read + 1
  /\ Tell("Data", read + 1)
  /\ UNCHANGED <<sent, callers, shell, chain>>

PumpStatus ==
  /\ ~PumpOver /\ read < Len(sent) /\ sent[read + 1] = "status"
  /\ read' = read + 1
  /\ Tell("ExitStatus", read + 1)
  /\ UNCHANGED <<sent, callers, shell, chain>>

PumpSkip ==
  /\ ~PumpOver /\ read < Len(sent) /\ sent[read + 1] = "eof"
  /\ read' = read + 1
  /\ UNCHANGED <<sent, events, callers, shell, chain>>

PumpClose ==
  /\ ~PumpOver /\ read < Len(sent) /\ sent[read + 1] = "close"
  /\ read' = read + 1
  /\ Tell("Closed", read + 1)
  /\ UNCHANGED <<sent, callers, shell, chain>>

\* None read as the end while messages of the dead transport are queued.
PumpDeadAtOnce ==
  /\ ~PumpOver /\ conn[Target] \in Down
  /\ Tell("Died", read)
  /\ UNCHANGED <<sent, read, callers, shell, chain>>

\* A pump with a timeout of its own: silence read as the end.
PumpImpatient ==
  /\ ~PumpOver /\ read = Len(sent) /\ ~Reachable(Target)
  /\ Tell("Died", read)
  /\ UNCHANGED <<sent, read, callers, shell, chain>>

\* wait() gives None once the queue is empty and the transport is gone.
PumpDead ==
  /\ ~PumpOver /\ read = Len(sent) /\ conn[Target] \in Down
  /\ Tell("Died", read)
  /\ UNCHANGED <<sent, read, callers, shell, chain>>

Pump == PumpData \/ PumpStatus \/ PumpSkip \/ PumpClose \/ PumpDead
-----------------------------------------------------------------------------
Caller(t) ==
  \/ Enter(t) \/ WriteLock(t) \/ WriteSent(t) \/ WriteFailed(t) \/ Resize(t)
  \/ CallLock(t) \/ CallAnswered(t) \/ CallFailed(t)
  \/ DisconnectShell(t) \/ DisconnectHandle(t)

Closer == CloserEof \/ CloserClose

Teardown ==
  \/ \E i \in Conns : ByeAnswered(i) \/ ByeRefused(i) \/ ByeTimeout(i)
  \/ ByeLate \/ TeardownEnds

Links ==
  \E i \in Conns : GoesSilent(i) \/ Breaks(i) \/ Detects(i) \/ Orphaned(i)

Server == (\E m \in Payload : ServerSends(m)) \/ ServerCloses \/ ServerWidens

\* Nothing is left to run: the object is gone and its stream has ended.
Finished ==
  /\ handle = "released" /\ PumpOver
  /\ UNCHANGED vars

Next ==
  \/ \E t \in Threads : Caller(t)
  \/ Release \/ Closer \/ Teardown \/ Links \/ Server \/ Pump \/ Finished

Spec == Init /\ [][Next]_vars

\* The runtime runs its tasks and timers; a sink's on_event returns. Nothing
\* is assumed of the server, the links or the callers.
TaskFairness ==
  /\ WF_vars(CloserEof) /\ WF_vars(CloserClose)
  /\ \A i \in Conns : /\ WF_vars(ByeRefused(i)) /\ WF_vars(ByeTimeout(i))
                      /\ WF_vars(Orphaned(i))
  /\ WF_vars(TeardownEnds)
  /\ WF_vars(Pump)

FairSpec == Spec /\ TaskFairness
-----------------------------------------------------------------------------
(***************************************************************************)
(* Safety.                                                                 *)
(***************************************************************************)
\* A call that is awaiting an answer still has the handle it started with:
\* no disconnect, teardown or drop takes a connection from under it, and the
\* same holds of a write and the shell's write half.
CallsOwnTheirHandle ==
  \A t \in Threads :
    /\ pc[t] = "calling" => handle = "open" /\ pending = Conns
    /\ pc[t] = "sending" => writeHalf = "held"

\* However disconnects race, a session whose shell has been closed is never
\* left with its connections open and nobody on the way to close them.
NoHalfClosed ==
  writeHalf # "held" /\ handle = "open" =>
    \E t \in Threads : pc[t] = "closeHandle"

\* A teardown ends no connection from under another: when a connection went
\* down with the one it rides, and that one was ended by us, the upper one
\* had been given its own bye before.
NoSilentKill ==
  \A i \in Conns \ {1} :
    conn[i] = "orphaned" /\ conn[i - 1] \in {"bye", "dropped"} =>
      handle = "released" \/ i \notin pending

\* When the teardown is through, or the object gone without one, none of the
\* chain's connections is left open, silent links and late byes included.
ClosedLeavesNothing ==
  handle \in {"closed", "released"} => \A i \in Conns : conn[i] \in Down

\* While nobody has taken the handle, the sink hears Died only when a link of
\* the chain was lost: that a connection went down for another reason is
\* always the session's own doing.
DiedIsExplained ==
  handle = "open" /\ (\E n \in 1..Len(events) : events[n].kind = "Died") =>
    \E i \in Conns : conn[i] = "lost"

\* After the shell's EOF only its CLOSE goes out, and no CLOSE goes out
\* without the EOF before it, whatever writes and resizes were under way.
ShellEndsInOrder ==
  [][/\ wire \in {"eof", "close"} => wire' \in {wire, "close"}
     /\ wire' = "close" => wire \in {"eof", "close"}]_vars

\* The sink's contract (EventStream).
Promise == INSTANCE EventStream WITH sent <- sent, events <- events
Promised == Promise!Spec
-----------------------------------------------------------------------------
(***************************************************************************)
(* Liveness.                                                               *)
(***************************************************************************)
\* Once a disconnect has the handle, every connection of the chain goes down
\* and the sink hears the end, also when the links are silent and no
\* keepalive is on: each bye is bounded.
TornDown ==
  handle = "taken" ~>
    /\ handle = "closed"
    /\ \A i \in Conns : conn[i] \in Down
    /\ PumpOver

KeepAlivesFire == \A i \in Conns : WF_vars(Detects(i))

\* With keepalive on, a chain that stopped carrying bytes anywhere is
\* reported to the sink, also while nobody writes. TornDown does without the
\* keepalive's timers.
SilentLinkReported ==
  KeepAlivesFire => (KeepAlive /\ ~Reachable(Target) ~> PumpOver)
-----------------------------------------------------------------------------
(***************************************************************************)
(* What the source's comments say, and the code does not do.               *)
(***************************************************************************)
\* SshSpikeEvent::Died: "the transport itself died (link loss, keepalive
\* timeout, process kill)". The teardown of a deliberate disconnect can end
\* the transport before the server's CHANNEL_CLOSE is here, and the sink is
\* told Died with every link intact.
DiedMeansLinkLost ==
  \A n \in 1..Len(events) :
    events[n].kind = "Died" =>
      handle = "released" \/ \E i \in Conns : conn[i] = "lost"

\* The header's threading contract: disconnect is a "fire-and-forget send",
\* so the caller has it behind it at once. It waits for both locks, and a
\* call keeps its lock for as long as the server takes. The callers' own
\* steps are fair here, the locks as well.
CallerFairness ==
  \A t \in Threads :
    /\ SF_vars(WriteLock(t)) /\ SF_vars(CallLock(t)) /\ SF_vars(Resize(t))
    /\ SF_vars(DisconnectShell(t)) /\ SF_vars(DisconnectHandle(t))
    /\ WF_vars(WriteSent(t)) /\ WF_vars(WriteFailed(t)) /\ WF_vars(CallFailed(t))

FairCallersSpec == FairSpec /\ KeepAlivesFire /\ CallerFairness

DisconnectReturns ==
  \A t \in Threads : pc[t] = "disconnect" ~> pc[t] = "idle"
=============================================================================
