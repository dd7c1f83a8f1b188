-------------------------------- MODULE Exec --------------------------------
(***************************************************************************)
(* SshSpikeSession::exec: one command on a fresh session channel, read to  *)
(* the end of its output. The server sends the command's output in order,  *)
(* but the exit status as soon as the process ends, ahead of output still  *)
(* queued; some servers then never send CHANNEL_EOF or CHANNEL_CLOSE. So   *)
(* the loop goes on after the status for as long as messages come less     *)
(* than 300 ms apart.                                                      *)
(***************************************************************************)
EXTENDS Naturals, Sequences

CONSTANTS
  MaxOutput,  \* bound: chunks of stdout the command writes
  MaxOther,   \* bound: messages the loop passes over (stderr, EOF, replies)
  Cuts        \* lengths, in chunks, at which the output ends inside a character

ASSUME ExecAssumption ==
  /\ MaxOutput \in Nat
  /\ MaxOther \in Nat
  /\ Cuts \subseteq Nat \ {0}

VARIABLES
  output,      \* how many chunks the command writes to stdout
  written,     \* how many of them the server has sent
  others,      \* messages sent that the loop passes over
  status,      \* the server sent the exit status
  closed,      \* the server sent CHANNEL_CLOSE
  link,        \* the target connection: "up" or "down"
  queue,       \* messages received and not yet taken by channel.wait()
  phase,       \* exec itself: "open", "request", "read", "returned"
  statusSeen,  \* the loop's flag
  got,         \* the chunks collected
  ended,       \* what ended the loop: "close", "quiet", "none"; "error" before it
  result       \* what exec returned: "ok", "notUtf8", "channel"

server == <<output, written, others, status, closed, link>>
loop   == <<statusSeen, got>>
answer == <<ended, result>>
vars   == <<output, written, others, status, closed, link, queue, phase, statusSeen,
            got, ended, result>>

Message == [kind : {"data", "status", "other", "close"}, n : Nat]
Signal(k) == [kind |-> k, n |-> 0]

TypeOK ==
  /\ output \in 0..MaxOutput /\ written \in 0..output /\ others \in 0..MaxOther
  /\ status \in BOOLEAN /\ closed \in BOOLEAN /\ link \in {"up", "down"}
  /\ queue \in Seq(Message)
  /\ phase \in {"open", "request", "read", "returned"}
  /\ statusSeen \in BOOLEAN
  /\ got \in Seq(Nat)
  /\ ended \in {"notYet", "close", "quiet", "none", "error"}
  /\ result \in {"notYet", "ok", "notUtf8", "channel"}

Init ==
  /\ output \in 0..MaxOutput
  /\ written = 0 /\ others = 0 /\ status = FALSE /\ closed = FALSE /\ link = "up"
  /\ queue = <<>> /\ phase = "open" /\ statusSeen = FALSE /\ got = <<>>
  /\ ended = "notYet" /\ result = "notYet"
-----------------------------------------------------------------------------
(***************************************************************************)
(* The server and the link.                                                *)
(***************************************************************************)
Serving == phase = "read" /\ link = "up" /\ ~closed

ServerWrites ==
  /\ Serving /\ written < output
  /\ written' = written + 1
  /\ queue' = Append(queue, [kind |-> "data", n |-> written + 1])
  /\ UNCHANGED <<output, others, status, closed, link, phase, loop, answer>>

\* The process has ended; what it wrote may still be on its way.
ServerStatus ==
  /\ Serving /\ ~status
  /\ status' = TRUE
  /\ queue' = Append(queue, Signal("status"))
  /\ UNCHANGED <<output, written, others, closed, link, phase, loop, answer>>

ServerOther ==
  /\ Serving /\ others < MaxOther
  /\ others' = others + 1
  /\ queue' = Append(queue, Signal("other"))
  /\ UNCHANGED <<output, written, status, closed, link, phase, loop, answer>>

\* CHANNEL_CLOSE is the last message of the channel, after all the output. A
\* signal-killed command and a refused request have no status before it.
ServerCloses ==
  /\ Serving /\ written = output
  /\ closed' = TRUE
  /\ queue' = Append(queue, Signal("close"))
  /\ UNCHANGED <<output, written, others, status, link, phase, loop, answer>>

LinkBreaks ==
  /\ link = "up" /\ link' = "down"
  /\ UNCHANGED <<output, written, others, status, closed, queue, phase, loop, answer>>
-----------------------------------------------------------------------------
(***************************************************************************)
(* exec.                                                                   *)
(***************************************************************************)
\* The handle's channel_open_session waits for the server.
Opens ==
  /\ phase = "open" /\ link = "up"
  /\ phase' = "request"
  /\ UNCHANGED <<server, queue, loop, answer>>

\* The request is sent without asking for a reply.
Requests ==
  /\ phase = "request" /\ link = "up"
  /\ phase' = "read"
  /\ UNCHANGED <<server, queue, loop, answer>>

ChannelError ==
  /\ phase' = "returned" /\ ended' = "error" /\ result' = "channel"
  /\ UNCHANGED <<server, queue, loop>>

OpenRefused == phase = "open" /\ link = "up" /\ ChannelError

TransportGone == phase \in {"open", "request"} /\ link = "down" /\ ChannelError

\* The loop ends; what was collected must be UTF-8.
Break(how, collected) ==
  /\ phase' = "returned"
  /\ ended' = how
  /\ result' = IF Len(collected) \in Cuts THEN "notUtf8" ELSE "ok"

Take(kind) ==
  /\ phase = "read" /\ queue # <<>> /\ Head(queue).kind = kind
  /\ queue' = Tail(queue)

\* Data behind the status taken for somebody else's.
TakeDataBeforeStatus ==
  /\ Take("data")
  /\ got' = IF statusSeen THEN got ELSE Append(got, Head(queue).n)
  /\ UNCHANGED <<server, phase, statusSeen, answer>>

TakeData ==
  /\ Take("data")
  /\ got' = Append(got, Head(queue).n)
  /\ UNCHANGED <<server, phase, statusSeen, answer>>

\* The loop that stops at the exit status.
TakeStatusAndStop ==
  /\ Take("status")
  /\ statusSeen' = TRUE
  /\ Break("quiet", got)
  /\ UNCHANGED <<server, got>>

TakeStatus ==
  /\ Take("status")
  /\ statusSeen' = TRUE
  /\ UNCHANGED <<server, phase, got, answer>>

\* stderr is read and dropped as well.
TakeOther ==
  /\ Take("other")
  /\ UNCHANGED <<server, phase, loop, answer>>

TakeClose ==
  /\ Take("close")
  /\ Break("close", got)
  /\ UNCHANGED <<server, loop>>

\* wait() gives None: the queue is empty and the transport gone.
TakeNone ==
  /\ phase = "read" /\ queue = <<>> /\ link = "down"
  /\ Break("none", got)
  /\ UNCHANGED <<server, queue, loop>>

\* The timer's expiry handed to the caller as an error of its own.
QuietFails ==
  /\ phase = "read" /\ statusSeen /\ queue = <<>>
  /\ phase' = "returned" /\ ended' = "quiet" /\ result' = "elapsed"
  /\ UNCHANGED <<server, queue, loop>>

\* A wait for CHANNEL_CLOSE without the timer.
QuietNever ==
  /\ phase = "read" /\ statusSeen /\ closed /\ queue = <<>>
  /\ Break("quiet", got)
  /\ UNCHANGED <<server, queue, loop>>

\* The timeout around wait() polls the channel first, so it fires only on an
\* empty queue; it is started anew for every message.
Quiet ==
  /\ phase = "read" /\ statusSeen /\ queue = <<>>
  /\ Break("quiet", got)
  /\ UNCHANGED <<server, queue, loop>>

\* The caller has its answer.
Returned == phase = "returned" /\ UNCHANGED vars
-----------------------------------------------------------------------------
Server == ServerWrites \/ ServerStatus \/ ServerOther \/ ServerCloses \/ LinkBreaks
Begin  == Opens \/ Requests \/ OpenRefused \/ TransportGone
Drain  == TakeData \/ TakeStatus \/ TakeOther \/ TakeClose \/ TakeNone \/ Quiet

Next == Server \/ Begin \/ Drain \/ Returned

Spec == Init /\ [][Next]_vars

\* The calling thread runs, and so does the timer; no answer is owed.
FairSpec ==
  /\ Spec
  /\ WF_vars(Requests \/ TransportGone)
  /\ WF_vars(TakeData \/ TakeStatus \/ TakeOther \/ TakeClose \/ TakeNone)
  /\ WF_vars(Quiet)
-----------------------------------------------------------------------------
\* When the server closes the channel exec has all the output, in order and
\* without a gap, however status, stderr and timer fell between the chunks,
\* and fails only if that output is not text: a character that was cut
\* between two chunks is whole again.
CloseMeansComplete ==
  ended = "close" =>
    /\ got = [n \in 1..output |-> n]
    /\ result = "ok" <=> output \notin Cuts

\* What the client received of the output is collected in order, and exec
\* returns, however it ends, behind all of it (Delivery).
Output == INSTANCE Delivery WITH
            sent <- 1..written,
            out  <- {got[n] : n \in 1..Len(got)},
            over <- phase = "returned"
Delivered == Output!Spec

\* Once the status has been sent, the channel is closed or the link is gone,
\* exec comes back: a server that never closes costs 300 ms, not for ever.
ExecReturns == phase = "read" /\ (status \/ closed \/ link = "down") ~> phase = "returned"
-----------------------------------------------------------------------------
\* exec's own comment: it "blocks until the command's output completes". It
\* also returns Ok with part of the output: when the transport dies, and when
\* the next chunk is more than 300 ms behind the status.
OkIsComplete == result = "ok" => Len(got) = output
=============================================================================
