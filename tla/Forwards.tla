------------------------------ MODULE Forwards ------------------------------
(***************************************************************************)
(* Remote forwards (ssh-transport/src/lib.rs): request_remote_forward and  *)
(* cancel_remote_forward, the handler that accepts forwarded-tcpip         *)
(* channels, the ForwardRouter's queue, the task that hands them to the    *)
(* caller's sink, and the two workers of the one runtime that all of this, *)
(* and every other dial's host-key prompt, runs on.                        *)
(*                                                                         *)
(* The caller holds a lock of its own across its calls, and its sink may   *)
(* need that lock: on_connection returns only while no call is under way.  *)
(* The handle's mutex is held exactly while some pc is "asking".           *)
(*                                                                         *)
(* accepted tells of each channel accepted where it came from; the queue   *)
(* and the sink know it by its position there.                             *)
(***************************************************************************)
EXTENDS Integers, Sequences, FiniteSets

CONSTANTS
  Threads,     \* the caller's threads that request and cancel forwards
  Ports,       \* the forwards they ask for
  MaxAsks,     \* bound: requests and cancels made
  MaxConns,    \* bound: channels accepted
  MaxPrompts   \* bound: verifiers of other dials waiting for their user

ASSUME ForwardsAssumption ==
  /\ Threads # {} /\ "hop" \notin Ports /\ "reply" \notin Ports
  /\ MaxAsks \in Nat /\ MaxConns \in Nat /\ MaxPrompts \in Nat

VARIABLES
  pc,          \* what each thread is doing
  ask,         \* the request on its way to the server
  asks,        \* how many were made
  bound,       \* the ports the server listens on
  inbox,       \* what the server sent and the session task has not taken
  session,     \* the target's session task: not yet there, up, over
  router,      \* who holds a sender of the router's queue
  accepted,    \* where each accepted channel came from: a port, or a jump hop
  queue,       \* the router's queue
  dispatcher,  \* dispatch_loop: waiting, inside the sink, ended
  handed,      \* the channels the sink was given
  prompts      \* verifiers inside their callback

client  == <<pc, ask, asks>>
server  == <<bound, inbox>>
routing == <<accepted, queue, dispatcher, handed>>
vars    == <<pc, ask, asks, bound, inbox, session, router, accepted, queue,
             dispatcher, handed, prompts>>

NoAsk == [op |-> "none"]
Asks  == [op : {"request", "cancel"}, port : Ports]

Workers == 2

\* A callback keeps the worker it runs on until it returns.
Busy == prompts + (IF dispatcher = "calling" THEN 1 ELSE 0)
FreeWorker == Busy < Workers

HandleLockFree == \A t \in Threads : pc[t] # "asking"

TypeOK ==
  /\ pc \in [Threads -> {"idle", "call", "asking", "answered"}]
  /\ ask \in Asks \cup {NoAsk} /\ asks \in 0..MaxAsks
  /\ bound \subseteq Ports
  /\ inbox \in Seq(Ports \cup {"reply"})
  /\ session \in {"none", "up", "over"}
  /\ router \subseteq {"connect", "handler"}
  /\ accepted \in Seq(Ports \cup {"hop"})
  /\ queue \in Seq(Nat) /\ handed \in Seq(Nat)
  /\ dispatcher \in {"waiting", "calling", "ended"}
  /\ prompts \in Nat /\ Busy <= Workers

\* connect_inner has made the queue and spawned its dispatch_loop.
Init ==
  /\ pc = [t \in Threads |-> "idle"] /\ ask = NoAsk /\ asks = 0
  /\ bound = {} /\ inbox = <<>>
  /\ session = "none" /\ router = {"connect"}
  /\ accepted = <<>> /\ queue = <<>> /\ dispatcher = "waiting" /\ handed = <<>>
  /\ prompts = 0

Goto(t, where) == pc' = [pc EXCEPT ![t] = where]
-----------------------------------------------------------------------------
(***************************************************************************)
(* connect_inner and the session's end.                                    *)
(***************************************************************************)
\* The target's handler is made with a clone of the router.
DialTarget ==
  /\ session = "none" /\ "connect" \in router
  /\ session' = "up" /\ router' = router \cup {"handler"}
  /\ UNCHANGED <<client, server, routing, prompts>>

\* connect_inner returns, with a session or with an error: its own router goes.
ConnectReturns ==
  /\ "connect" \in router
  /\ router' = router \ {"connect"}
  /\ UNCHANGED <<client, server, session, routing, prompts>>

\* A session object that keeps a clone of the router when its task ends.
RouterKept ==
  /\ session = "up"
  /\ session' = "over" /\ UNCHANGED router
  /\ inbox' = <<>> /\ bound' = {} /\ ask' = NoAsk
  /\ UNCHANGED <<pc, asks, routing, prompts>>

\* A disconnect, a drop or a lost link: the session task ends, and with it the
\* handler and its router.
SessionEnds ==
  /\ session = "up"
  /\ session' = "over" /\ router' = router \ {"handler"}
  /\ inbox' = <<>> /\ bound' = {} /\ ask' = NoAsk
  /\ UNCHANGED <<pc, asks, routing, prompts>>
-----------------------------------------------------------------------------
(***************************************************************************)
(* request_remote_forward and cancel_remote_forward: the handle's lock is  *)
(* kept until the server's answer.                                         *)
(***************************************************************************)
Enter(t) ==
  /\ pc[t] = "idle" /\ asks < MaxAsks /\ "connect" \notin router /\ session # "none"
  /\ asks' = asks + 1
  /\ Goto(t, "call")
  /\ UNCHANGED <<ask, server, session, router, routing, prompts>>

Ask(t) ==
  /\ pc[t] = "call" /\ HandleLockFree /\ session = "up"
  /\ ask' \in Asks
  /\ Goto(t, "asking")
  /\ UNCHANGED <<asks, server, session, router, routing, prompts>>

\* A call that gives up on its answer by itself.
AskTimesOut(t) ==
  /\ pc[t] = "asking" \/ (pc[t] = "call" /\ HandleLockFree /\ session # "up")
  /\ Goto(t, "answered")
  /\ UNCHANGED <<ask, asks, server, session, router, routing, prompts>>

\* The session is closed, or its transport gone while the call waits.
AskFails(t) ==
  /\ session # "up"
  /\ pc[t] = "asking" \/ (pc[t] = "call" /\ HandleLockFree)
  /\ Goto(t, "answered")
  /\ UNCHANGED <<ask, asks, server, session, router, routing, prompts>>

Return(t) ==
  /\ pc[t] = "answered"
  /\ Goto(t, "idle")
  /\ UNCHANGED <<ask, asks, server, session, router, routing, prompts>>
-----------------------------------------------------------------------------
(***************************************************************************)
(* The session task: takes the server's messages in order, on a worker.    *)
(***************************************************************************)
TakeReply ==
  /\ session = "up" /\ FreeWorker /\ inbox # <<>> /\ Head(inbox) = "reply"
  /\ inbox' = Tail(inbox)
  /\ pc' = [t \in Threads |-> IF pc[t] = "asking" THEN "answered" ELSE pc[t]]
  /\ UNCHANGED <<ask, asks, bound, session, router, routing, prompts>>

Accept(from) == accepted' = Append(accepted, from)

\* A handler that calls the sink itself, whenever the sink is free.
TakeOpenInline ==
  /\ session = "up" /\ FreeWorker /\ inbox # <<>> /\ Head(inbox) \in Ports
  /\ dispatcher = "waiting"
  /\ inbox' = Tail(inbox)
  /\ Accept(Head(inbox))
  /\ dispatcher' = "calling"
  /\ handed' = Append(handed, Len(accepted) + 1)
  /\ UNCHANGED <<client, bound, session, router, queue, prompts>>

\* A queue of one, and a send that gives up when it is full.
TakeOpenTry ==
  /\ session = "up" /\ FreeWorker /\ inbox # <<>> /\ Head(inbox) \in Ports
  /\ inbox' = Tail(inbox)
  /\ Accept(Head(inbox))
  /\ queue' = IF queue = <<>> THEN Append(queue, Len(accepted) + 1) ELSE queue
  /\ UNCHANGED <<client, bound, session, router, dispatcher, handed, prompts>>

\* server_channel_open_forwarded_tcpip on the target: accept and queue.
TakeOpen ==
  /\ session = "up" /\ FreeWorker /\ inbox # <<>> /\ Head(inbox) \in Ports
  /\ inbox' = Tail(inbox)
  /\ Accept(Head(inbox))
  /\ queue' = Append(queue, Len(accepted) + 1)
  /\ UNCHANGED <<client, bound, session, router, dispatcher, handed, prompts>>

\* The same handler on a jump hop, which has no router: the channel is
\* accepted and dropped.
HopOpens ==
  /\ FreeWorker /\ session = "up" /\ Len(accepted) + Len(inbox) < MaxConns
  /\ Accept("hop")
  /\ UNCHANGED <<client, server, session, router, queue, dispatcher, handed, prompts>>
-----------------------------------------------------------------------------
(***************************************************************************)
(* dispatch_loop, and the caller's callbacks.                              *)
(***************************************************************************)
Dispatch ==
  /\ dispatcher = "waiting" /\ FreeWorker /\ queue # <<>>
  /\ dispatcher' = "calling"
  /\ queue' = Tail(queue)
  /\ handed' = Append(handed, Head(queue))
  /\ UNCHANGED <<client, server, session, router, accepted, prompts>>

\* A dispatcher that stops with the session, whatever is still queued.
DispatchStops ==
  /\ dispatcher = "waiting" /\ FreeWorker /\ router = {}
  /\ dispatcher' = "ended"
  /\ UNCHANGED <<client, server, session, router, accepted, queue, handed, prompts>>

\* recv() gives None when the queue is empty and the last sender is gone.
DispatchEnds ==
  /\ dispatcher = "waiting" /\ FreeWorker /\ router = {} /\ queue = <<>>
  /\ dispatcher' = "ended"
  /\ UNCHANGED <<client, server, session, router, accepted, queue, handed, prompts>>

SinkReturns ==
  /\ dispatcher = "calling" /\ \A t \in Threads : pc[t] = "idle"
  /\ dispatcher' = "waiting"
  /\ UNCHANGED <<client, server, session, router, accepted, queue, handed, prompts>>

\* A verifier's prompt that keeps no worker from anybody else's count.
VerifierAsksAnyway ==
  /\ prompts < MaxPrompts
  /\ prompts' = prompts + 1
  /\ UNCHANGED <<client, server, session, router, routing>>

\* Another dial's check_server_key calls its verifier, which asks the user.
VerifierAsks ==
  /\ prompts < MaxPrompts /\ FreeWorker
  /\ prompts' = prompts + 1
  /\ UNCHANGED <<client, server, session, router, routing>>

UserDecides ==
  /\ prompts > 0
  /\ prompts' = prompts - 1
  /\ UNCHANGED <<client, server, session, router, routing>>
-----------------------------------------------------------------------------
(***************************************************************************)
(* The server: answers requests, and opens a channel for each connection   *)
(* to a port it listens on. What it sent before a cancel arrives after it. *)
(***************************************************************************)
ServerAnswers ==
  /\ session = "up" /\ ask # NoAsk
  /\ IF ask.op = "request" THEN bound' \in {bound, bound \cup {ask.port}}
                           ELSE bound' = bound \ {ask.port}
  /\ inbox' = Append(inbox, "reply")
  /\ ask' = NoAsk
  /\ UNCHANGED <<pc, asks, session, router, routing, prompts>>

ServerOpens(p) ==
  /\ session = "up" /\ p \in bound /\ Len(accepted) + Len(inbox) < MaxConns
  /\ inbox' = Append(inbox, p)
  /\ UNCHANGED <<client, bound, session, router, routing, prompts>>

\* Nothing is left to run.
Finished ==
  /\ dispatcher = "ended" /\ \A t \in Threads : pc[t] = "idle"
  /\ UNCHANGED vars
-----------------------------------------------------------------------------
Caller(t) == Enter(t) \/ Ask(t) \/ AskFails(t) \/ Return(t)

Task == TakeReply \/ TakeOpen \/ HopOpens

Dispatcher == Dispatch \/ DispatchEnds \/ SinkReturns

Server == ServerAnswers \/ \E p \in Ports : ServerOpens(p)

Next ==
  \/ \E t \in Threads : Caller(t)
  \/ DialTarget \/ ConnectReturns \/ SessionEnds
  \/ Task \/ Dispatcher \/ VerifierAsks \/ UserDecides \/ Server \/ Finished

Spec == Init /\ [][Next]_vars

\* The runtime serves its tasks in turn when it has a worker for them, a
\* caller's thread runs, the server answers what it is asked, and a sink that
\* has what it waits for returns. Strong where a prompt, or another call, may
\* come in between.
ForwardFairness ==
  /\ SF_vars(TakeReply) /\ SF_vars(TakeOpen)
  /\ SF_vars(Dispatch) /\ SF_vars(DispatchEnds) /\ SF_vars(SinkReturns)
  /\ WF_vars(ConnectReturns) /\ WF_vars(ServerAnswers)
  /\ \A t \in Threads : SF_vars(Ask(t)) /\ SF_vars(AskFails(t)) /\ WF_vars(Return(t))

\* Every user answers, sooner or later.
FairSpec == Spec /\ ForwardFairness /\ WF_vars(UserDecides)
-----------------------------------------------------------------------------
(***************************************************************************)
(* Properties.                                                             *)
(***************************************************************************)
Held(k) ==
  \/ \E n \in 1..Len(handed) : handed[n] = k
  \/ \E n \in 1..Len(queue) : queue[n] = k

\* What the sink was given and what waits for it are exactly the channels the
\* target's handler accepted, each once and in the order they came: none is
\* lost when a forward is cancelled or the session ends under it, and none
\* comes from a jump hop.
HandedOnceInOrder ==
  /\ \A k \in 1..Len(accepted) : Held(k) <=> accepted[k] \in Ports
  /\ \A m, n \in 1..Len(handed) : m < n => handed[m] < handed[n]
  /\ \A m, n \in 1..Len(queue) : m < n => queue[m] < queue[n]
  /\ \A m \in 1..Len(handed), n \in 1..Len(queue) : handed[m] < queue[n]

\* The sink is given the target's channels in the order they were accepted;
\* the dispatcher ends when it has given them all, and no channel is accepted
\* after that, so that none is left to nobody (Delivery).
Connections == INSTANCE Delivery WITH
                 sent <- {k \in 1..Len(accepted) : accepted[k] \in Ports},
                 out  <- {handed[n] : n \in 1..Len(handed)},
                 over <- dispatcher = "ended"
Delivered == Connections!Spec

\* Forward requests are answered without a word on which. Since each call
\* keeps the handle's lock until it has its own, one answer is on its way for
\* the call that waits, and none for nobody: there is never a second one to
\* take for it, however the library would have paired the two.
OneAnswerPerCall ==
  session = "up" =>
    Cardinality({t \in Threads : pc[t] = "asking"}) =
      (IF ask = NoAsk THEN 0 ELSE 1)
        + Cardinality({n \in 1..Len(inbox) : inbox[n] = "reply"})

\* A channel that was accepted reaches the sink, also after its forward was
\* cancelled, and also when the session has ended since.
AcceptedReachesSink ==
  \A k \in 1..MaxConns :
    k \in 1..Len(accepted) /\ accepted[k] \in Ports
      ~> \E n \in 1..Len(handed) : handed[n] = k

\* A call returns although the sink waits for the caller that makes it: the
\* handler is never the one that waits.
CallReturns ==
  \A t \in Threads : pc[t] = "asking" ~> pc[t] = "idle"

\* The dispatcher does not outlive the session, or a dial that failed.
DispatcherEnds ==
  session # "up" /\ "connect" \notin router ~> dispatcher = "ended"
-----------------------------------------------------------------------------
\* ForwardRouter's doc gives the rule "never block a Handler callback". The
\* handler that checks a host key calls the verifier on its worker, and the
\* verifier asks a user, who owes no answer: two such prompts, or one beside
\* a sink, and a call on a session that has nothing to do with them stands.
PatientSpec == Spec /\ ForwardFairness

PromptBlocksNobody == CallReturns
=============================================================================
