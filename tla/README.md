# rust-core: a verification project for ssh-transport

The repository holds one crate, `ssh-transport`: an SSH client over russh that
several apps drive through a blocking, thread-shared object API. This project
models that crate in TLA+, model-checks the models with TLC, and proves the
main safety properties with TLAPS for every value of the constants.

Line numbers are those of `ssh-transport/src/lib.rs` unless another file is
named (`known_hosts.rs` is beside it). `PROJECT.json` maps every definition to its lines.

## 1. The system

| Part | Where | State | Operations |
|---|---|---|---|
| Session object | 378-388, 449-707 | `write_half`, `handle`, `parents`, each behind a mutex | `write`, `resize`, `exec`, `sftp`, `sftp_read`, `direct_tcpip_banner`, `open_direct_tcpip`, `request/cancel_remote_forward`, `disconnect`, drop |
| Tasks of `disconnect` | 528-556 | what they captured: the write half; the handle and the parents | closer: EOF, CLOSE; teardown: a bounded bye per connection, target first |
| Event pump | 402-434 | the shell channel's read half | one event to the sink per message; `Closed` or `Died` ends it |
| Dial | 709-827 | position in the dial list, parents, target | connect, key exchange, verifier, authentication, PTY and shell |
| Host-key check | 288-320 | the hop's endpoint | asks the caller's verifier |
| exec | 449-500 | collected bytes, the flag `status_seen` | the read loop |
| Byte pipes | 133-199, 559-619 | the two halves of a channel | `read`, `write`, `eof`, `disconnect` |
| Remote forwards | 119-131, 255-278, 322-345, 621-660 | the router's unbounded queue | accept, queue, dispatch to the sink |
| SFTP tree | 201-253, 892-1145 | one sftp session; per remote file a handle and a position | whole-file `read`/`write`, tree operations, streams at an offset |
| Runtime | 390-400 | two worker threads | runs every task and every callback |
| known_hosts codecs | `known_hosts.rs` 8-70 | none | plausibility, fingerprint, base64 |
| sshd matrix | `tools/sshd-matrix` | key files, containers | generate, start, wait, stop |

How they interact. A caller's thread enters a method, takes a mutex, and keeps
it while the runtime awaits the server (the locks are `std::sync::Mutex` held
across `await`). `connect` walks the dial list: hop *i* is a connection of its
own, carried by a direct-tcpip channel of hop *i - 1*; the last is the target
and gets the shell. The target owns its hops. The pump reads the shell channel
and calls the sink; it takes no lock. `disconnect` takes the write half and
spawns the closer, then takes the handle with the parents and spawns the
teardown. Dropping the last reference drops every handle. A connection to a
forwarded port is accepted by the target's handler, queued, and handed to the
caller's sink by a task of its own; handlers, tasks and callbacks share two
workers. The SFTP objects own a channel each and take no session lock after
they are open.

What is hard here:

- two mutexes taken one after the other by `disconnect`, against calls that
  hold one of them for as long as the server likes;
- four kinds of tasks (callers, closer, teardown, pump) that share one
  transport and are ordered by nothing but it;
- a chain of connections in which the end of one ends all above it;
- links that break, and links that swallow everything without a sign;
- time: the 5 s bound on a bye, keepalives, the 300 ms gap in `exec`;
- results that may be partial: a dial that fails at its third hop, output cut
  by a dead transport, an exit status ahead of the output, a write whose
  request was served and whose answer was lost;
- callbacks that take as long as a user does, on two workers for everything.

What makes each part correct: the sink hears everything once, in order, and
then exactly one end; a call never loses its handle; a closed shell means a
closed chain; hops end innermost first; credentials go to verified peers only;
an error names the hop at fault; `exec` returns a prefix of the output, and all
of it when the server closed the channel; every accepted connection reaches the
sink once; an upload resumed after anything is the source and nothing else; a
fingerprint says the key; what should end does end.

## 2. Modules

| Module | Models | Properties in |
|---|---|---|
| `EventStream` | what the event sink is promised: an abstract specification | - |
| `Delivery` | what every inbound path promises to whoever is at its end: an abstract specification | `PromiseProofs` |
| `Session` | session object, closer, teardown, pump, connections, the server's shell | `Session`, `SessionProofs` |
| `Dial` | `connect_inner`, `check_server_key`, `authenticate`, `map_connect_error` | `Dial`, `DialProofs` |
| `Exec` | `exec` with its server | `Exec`, `ExecProofs` |
| `Pipe` | `SshSpikeChannel` with its remote side | `Pipe`, `PipeProofs` |
| `Forwards` | `ForwardRouter`, the forwarded-tcpip handlers, request and cancel, the two workers | `Forwards`, `ForwardsProofs` |
| `Upload` | what an upload through a `.part` file promises: an abstract specification | - |
| `Sftp` | `SshSpikeSftp` and `SshSpikeRemoteFile` with the server's files | `Sftp`, `SftpProofs` |
| `KnownHosts` | `base64_encode`, `blob_fingerprint`, `is_plausible_blob` | `KnownHosts`, `KnownHostsProofs` |
| `MCSession`, `MCDial`, `MCExec`, `MCPipe`, `MCForwards`, `MCSftp`, `MCKnownHosts` | the instances TLC checks | |

Three abstract specifications say what the components promise, each
instantiated in the module that keeps it:

- `EventStream`: `Session!Promise`, with `sent` and `events` for themselves;
- `Upload`: `Sftp!Promise`, where `held` is the length of the source's beginning
  on the server and `published` is the file being there under its own name;
- `Delivery`: what arrived is handed over in order, and the end is told behind
  the last of it and before nothing. It is kept by each of the inbound paths:

| Instance | `sent`: what arrived | `out`: what was handed over | `over`: the end |
|---|---|---|---|
| `Exec!Output` | the output chunks the client received | what the loop collected | `exec` has returned |
| `Pipe!Stream` | the remote side's data messages | what the reads returned | a read returned the empty vector |
| `Forwards!Connections` | the channels the target's handler accepted | what the sink was given | the dispatcher has ended |
| `Sftp!File` | the file's units on the server | what the download read | the download has seen its empty read |
| `PromiseProofs!Shell` | the shell's output and exit status | the `Data` and `ExitStatus` events | `Closed` or `Died` was told |

The last is `EventStream` itself, for any messages and events; `Session` keeps
`Delivery` through it (`SessionDelivers`).

### Session

`pc[t]` is where caller thread `t` is. A mutex is held exactly while some `pc`
says so (`sending` for the write half, `calling` for the handle), so there are
no lock variables: `WriteLockFree` and `HandleLockFree` read them off. `write`
is split where the code blocks: `WriteLock`, then `WriteSent` (needs window) or
`WriteFailed`. A call on the handle is `CallLock`, then `CallAnswered` or
`CallFailed`; `resize` needs no window and is one step. `disconnect` is
`DisconnectShell` then `DisconnectHandle`, each a lock, a take and an unlock.
`writeHalf` and `handle` say where the two options' contents are: in the
session, with the task that took them, or gone. `pending` is what the teardown
has left of target and parents; `ByeTurn` is its order. `conn[i]` says how
connection *i* is and what ended it, which is what the properties about blame
need. `sent`, `read` and `events` are the shell channel as the client receives
it, the pump's position in it and what the sink heard. `wire` is the last frame
the client put on the shell channel.

### Dial

`at` and `stage` are the program counter of `connect_inner`; `inHand` (the
handle inside `connect`, then the local `conn`), `parents` and `target` are the
places a handle can be; `conn`, `key` and `secrets` are the world: which
connections stand, which host key each peer presented, where a credential was
put on the wire. `err` is what is returned (kind, and the hop its text names;
0 for none) and `cause` what really happened. `Trusted[i]` is the answer the
verifier gives for endpoint *i*. A handle moves and is never copied: `Opened`
puts it in hand, `AuthAccepted` moves it to the parents or makes it the
target's, and `Fail`, a `?` or a `return Err`, ends the scope of all three.
`Owned` says which connections still have a holder, and `Dropped` ends one that
has none, at whatever stage the dial is: a dial that kept a handle anywhere
would keep its connection, and one that lost a handle on the way would lose it
under the walk.

### Exec

`queue` is what `channel.wait()` has still to give; the server adds output in
order and status, other messages and CHANNEL_CLOSE where the protocol lets it;
each arm of the loop is an action. `Quiet` is the timer: tokio polls the channel
before the timer, so it fires on an empty queue only. `Cuts` are the output
lengths at which a character is cut and `String::from_utf8` fails.

### Pipe

As in `Session`, the write half's mutex is held exactly while some thread is
`sending`. `up` is what the client put on the channel, `down` what it received,
`taken` how far the reads are, and `got` what they returned (a message's
position, 0 for an empty vector). A `read` is `Read`, then one arm of its loop
after another until one returns. The bridge's threads write, half-close and
disconnect in any order and as often as they like (`Enter`): the object keeps
its write half through an `eof` and has no note that there was one, so writes
go on behind it and a second `eof` puts a second EOF on the wire, as does a
`disconnect` after an `eof`.

### Forwards

`pc` is again where each calling thread is, and `asking` is having the handle's
lock. `inbox` is what the server has sent and the session task has not taken:
answers and channel opens, in one order, so that a channel opened before a
cancel is behind it in the client. `router` is the set of those who hold a
sender of the queue (`connect_inner` itself, the target's handler), because the
dispatcher ends with the last of them. `accepted` is the history of channels
accepted, with their ports, or `hop` for one that came over a jump;
`queue` and `handed` hold positions in it. A step of a task needs
`FreeWorker`; a sink or a verifier inside its callback keeps its worker. The
caller keeps a lock of its own across its calls, and its sink may need that
lock: `SinkReturns` waits until no call is under way.

### Upload and Sftp

A file is a sequence of units: `k` for the source's k-th, `Stale` for a leftover,
`Hole` for what a write beyond the end leaves. `upload` is the program counter
of one uploading thread and its caller's `.part` contract (1089-1091): truncate
only for a new upload, go on where `metadata` says, rename at the end, and after
an error open again. `req` and `served` are its request on the wire and whether
the server has applied it, so that a link may break before, between and after.
`file`, `pos`, `src` and `left` are the remote file's handle, its position, the
caller's place in the source and what is left of the write under way.
`Pause` is a `disconnect` of the remote file from another thread. Beside it a
`save` writes a whole file over a longer one, and a `download` reads the result.

### KnownHosts

One behaviour is one call: an encoding with its chunks, then the trimming
character by character; or a blob measured, sliced and judged. Bytes are
numbers, a character is its place in the table, `Pad` is `=`. The slice is an
action of its own, with `panic` for an index beyond the blob. The properties
compare with definitions that share nothing with the code: a decoder, the
length in bits, and "is an ssh string that names a family". A name that is not
UTF-8 is one that is not printable ASCII.

### What stands for russh and the server

The crate under russh is not in the repository; it is modelled from how the
code uses it, and marked external in `PROJECT.json`:

- a connection ends when its handle is dropped, or when the one it rides ends;
- `wait()` gives messages in the order received, also after the transport died,
  and `None` after the last;
- a call or a blocked write on a dead transport returns an error;
- a server answers only what reaches it, and need not answer;
- keepalives, where configured, end a connection that no longer answers;
- SFTP packets of one write are acknowledged one after the other, a rename does
  not replace a file, and what an old connection had under way is over before
  the caller uses a new one;
- the caller of the SFTP streams keeps the `.part` contract and asks a read for
  one unit at least;
- a digest is any byte string: SHA-256 itself is a library's.

## 3. Runs

| Run | Instance | Checks |
|---|---|---|
| `session_race` | 2 threads, no jump, window 2, 2 messages | `TypeOK`, `CallsOwnTheirHandle`, `NoHalfClosed`, `ShellEndsInOrder`, `Promised` |
| `session_chain` | 1 thread, 2 jumps, keepalive | `NoSilentKill`, `ClosedLeavesNothing`, `DiedIsExplained`, `TornDown`, `SilentLinkReported` |
| `dial_chain` | 2 jumps, a trusted and a foreign key, both kinds of credential | `TypeOK`, `SecretsToTrustedPeers`, `HoldsItsChain`, `HopsInTurn`, `BlamesTheHopInHand`, `FailureLeavesNothing` |
| `exec` | 3 chunks, 2 other messages, a cut | `TypeOK`, `CloseMeansComplete`, `ExecReturns`, `Delivered` |
| `pipe` | 2 writing threads, window 1, writes begun up to 2 data frames and half-closes up to 1 EOF, 2 messages down and a CLOSE, 2 empty reads | `TypeOK`, `UpEndsInOrder`, `FinReachesReader`, `Delivered` |
| `forwards` | 2 threads, 1 port, 3 requests, 2 channels, 2 prompts | `TypeOK`, `OneAnswerPerCall`, `AcceptedReachesSink`, `CallReturns`, `DispatcherEnds`, `Delivered` |
| `sftp` | a source of 4 units, writes and reads of up to 2, a leftover of 5, 4 faults | `TypeOK`, `WriteKeepsItsHandle`, `SavedWhole`, `LoadedWhole`, `Promised`, `UploadEnds` |
| `known_hosts` | digests of 0 to 5 and of 32 bytes, blobs with true and false lengths | `TypeOK`, `EncodingDecodes`, `FingerprintUnpadded`, `PlausibleIsNamed` |
| `session_died` | 1 thread, no jump, 1 message | refutes `DiedMeansLinkLost` |
| `session_disconnect` | 2 threads, no jump, keepalive | refutes `DisconnectReturns` |
| `exec_partial` | as `exec`, one chunk | refutes `OkIsComplete` |
| `forwards_prompt` | 1 thread, no traffic, 2 prompts | refutes `PromptBlocksNobody` |

Bounds. Two threads are enough for every race over two mutexes in which each
thread does one thing at a time: a holder and a waiter, or two takers. Two
jumps make the middle hop both carrier and carried, which orders, blame and
keepalives need; one message
before the CLOSE is enough to have one queued when the link goes. A window of 2 has an exhausted and
a partly used state. Two messages before the CLOSE give every pair of kinds in
both orders, and on a pipe a chunk and a half-close behind it. On its write side
a bound on what is begun lets two threads that race go one beyond it: two EOFs
before the closer's, and three data frames.
Three chunks of output have a first, a middle and a last one. Two channels have
an order, three requests let one forward be requested, cancelled and requested
again, and two prompts fill the two workers. Four units in writes of two let a
write be cut in its middle and be resumed behind a whole one; a leftover of five
is longer than the source; four faults let one strike in each of open, write and
rename and once more in the retry. Digests of 0 to 5 bytes have every remainder
by three, twice, over the bytes at which a sextet changes; TLC's integers have
32 bits, so the top byte of a claimed length goes to 127 there (the proofs have
no such bound). No
symmetry is used: most runs check liveness, for which it is not sound.

`ReadsLoseNothing`, `HandedOnceInOrder` and the download's `Delivered` are proved
and in no run: the order, the gaps and the end are checked by `Delivered` (pipe,
forwards) and `LoadedWhole` (download); that nothing is handed over twice, which
`Delivery`, being about sets, does not see, rests on the proofs.

Every property of a passing run has a mutant in `PROJECT.json`: a plausible slip
in the mapped code (a `try_lock` for a `lock`, the parents walked forwards, a
dropped label, a loop that stops at the status) under which TLC refutes it.

### Where the code and its comments part

The four `violation` runs each refute a sentence of the repository:

- *"`write`/`resize`/`disconnect` are fire-and-forget sends"* (20-21).
  `disconnect` waits for both mutexes: a call keeps the handle's while the server
  thinks, and a write keeps the write half's while the channel has no window. In
  `session_disconnect` it waits for ever, with fair locks and fair callers,
  because a server owes neither an answer nor a window.
- *`Died`: "the transport itself died (link loss, keepalive timeout, process
  kill)"* (90-92). In `session_died` a deliberate `disconnect` ends in `Died`:
  closer and teardown are two tasks and the transport can end before the
  server's CHANNEL_CLOSE is back. What does hold is `DiedIsExplained`: until some
  thread takes the handle, `Died` is told only when a link was lost.
- *exec "blocks until the command's output completes"* (449-450). In
  `exec_partial` it returns `Ok` with less, after a dead transport or a gap of
  300 ms behind the status.
- *"never block a Handler callback"* (255-257). `check_server_key` is one, and
  calls the verifier on its worker (306). In `forwards_prompt` two prompts that
  wait for their users leave the answer to a call of another session in its
  inbox for ever; the `forwards` run shows that the rule, kept by the forwards'
  own handler, is enough there as long as users answer.

Four more places where code and words part are in the models without a run of
their own, each the plain reading of a line or two:

- a link lost while a hop authenticates is reported as that hop's
  authentication failure (871, 883, 795), under a comment about "WHICH hop
  rejected the credential" (789-790). `BlamesTheHopInHand` says what holds: the
  hop named is the one in hand, its key was accepted, and a rejected credential
  is one that hop was sent;
- `eof` "half-closes the local side" (175, and 136), but leaves the write half
  where it is: a write that waits for the mutex while an `eof` has it, or is
  called later, puts its data behind the EOF (167). `Pipe` has the behaviour.
  `UpEndsInOrder` says what holds whatever the bridge does: a `disconnect` is
  final;
- nothing bounds the handshake (762, 839), so a peer that never speaks keeps
  `connect` waiting, while its fixture says "the client must give up on its own"
  (`tools/sshd-matrix/entrypoint.sh` 209);
- a byte pipe whose link died reads like one that ended (158), under a doc that
  gives the empty vector two other meanings (134-135).

### Fairness

`Session!TaskFairness`: the spawned tasks, the timers and the pump are weakly
fair, because the runtime's workers run what is ready and the bounds of 5 s and
the keepalive interval pass by themselves; the pump's fairness assumes that the
sink's `on_event` returns, which its contract asks for (96-98). Nothing is
assumed of the server, of the links or of the callers. Keepalive timers are in
`KeepAlivesFire`, apart, so that `SilentLinkReported` assumes them and
`TornDown` does without. `CallerFairness`, used by
`session_disconnect` only, adds that threads run and that mutexes are fair
(strong fairness), so that the refutation is about the server's silence and
not about scheduling. `Dial!ClientFairness`: the client's own steps, no answers,
and that a connection ends once nobody holds its handle, which is russh's part.
`Exec!FairSpec`: the calling thread and the timer. `Pipe!FairSpec`: the
thread inside `read`, and the closer.

`Forwards!ForwardFairness`: a task that has a worker again and again runs (strong
fairness, because prompts come and go). That is an assumption about tokio: it
serves what is ready as long as one worker is free, although a task may have
been queued on a worker that a callback then blocks, and tokio promises no more
than that idle workers steal. `CallReturns` and the others say what holds where
it does. Further, a caller's thread runs, the server
answers a request, and a sink that has what it waits for returns. `FairSpec`
adds that users answer; `PatientSpec`, of the violation run, does not.
`Sftp!FairSpec`: threads run and try again, a server that is reached serves,
the caller dials again. The faults are bounded there, since an upload that fails
for ever never ends. `KnownHosts` has no liveness to state.

## 4. Proofs

All proofs are for arbitrary constants that satisfy the module's one assumption
(`SessionAssumption`, `DialAssumption`, `ExecAssumption`, `PipeAssumption`,
`ForwardsAssumption`, `SftpAssumption`, `KnownHostsAssumption`, all of them
typing).

`SessionProofs`. The invariants of the runs are not inductive. Added:
`OpenWhole` (while the handle is in the session, every bye is still to be said
and no connection was ended by us), `ByesInTurn` (whatever the teardown has
ended, the connection riding it has had its bye: `NoSilentKill` itself looks
only at what was orphaned, which is too late), `ShellProgress` (where the write
half is says what the wire can show: no EOF before the closer runs, and its EOF
before its CLOSE), `Cursor` (exactly the shown messages up to `read` have an
event) and `Ended` (a pump that has stopped has nothing more to come). From
these: `TypeCorrect`, `CallsKeepTheirHandle`, `NeverHalfClosed`,
`NeverKilledSilently`, `ShellAlwaysEndsInOrder`, and the refinement
`SessionKeepsItsPromise`: every step of `Session` is a step of `EventStream` or
leaves it alone, for any number of threads, hops and messages.
Two more theorems rest on `DownIsFinal`, a lemma about every step: a connection
that is down stays down, for the reason it went down. `TeardownProgress` says
that a parent whose turn is over is down, and all of them when the teardown has
ended or the object went without one; it is what makes `NothingIsLeftOpen`
inductive, since `ClosedLeavesNothing` speaks of the end of the teardown only.
`DeathsHaveCause` follows a loss up the chain: while the handle is in the
session, no connection is down unless one of the chain was lost, and a sink that
heard `Died` has its target down; that gives `DiedAlwaysExplained`.

`DialProofs`. `Progress` ties the stage to what has been done for the hop in
hand; `Walked` says that every hop before it was sent its credential and none
after it was touched. `ChainInOrder` is the part of `HoldsItsChain` that is
inductive; the other, that what stands is held, follows from the three
(`AllHeld`). They carry `DialTypeCorrect`,
`SecretsStayWithTrustedPeers`, `ChainAlwaysHeld`, `HopsAlwaysInTurn` and
`BlameIsTheHopInHand` to dial lists of any length.

`ExecProofs`. `NoneMissing`: what was collected and the data still queued
are together the chunks 1..`written`, in order. `CloseIsLast`: a CLOSE in the
queue is at its end and comes after all the output. With `AllTaken` and
`ReceivedTaken`, which say how far the loop was when it ended, they give
`GotAlwaysPrefix` and `ExecTypeCorrect`, and with `Judged` (the text is judged
as a whole) `CloseAlwaysComplete`, for any amount of output and any cuts. With `NothingYet` (before the request is out nothing was
written or collected) they give `OutputAlwaysDelivered`, the step-by-step
refinement of `Delivery`: a return, an error's included, comes when nothing that
arrived is left in the queue.

`PipeProofs`. `WriteSide` says what may be on the channel: no CLOSE before the
closer is done, and the closer's EOF last while its CLOSE is to come, unless the
channel is dead; with the lock (`sending` implies the half is held) and
`DeadForEver` it gives `UpAlwaysEndsInOrder`. `DownInOrder` and `EndSeen` (an empty read has passed the
remote side's end, or found a dead channel drained) give `ReadsNeverLose`.
`GivenToCursor`, that the reads returned exactly what lies up to the cursor,
follows from them and turns every read into a step of `Delivery`
(`ReadsAlwaysDelivered`).

`ForwardsProofs`. `HandedOnceInOrder` needs `Known` (queue and sink hold
positions of accepted channels only): then a new channel's position is behind
all others, and taking the queue's head keeps the two ordered.
`ForwardsTypeCorrect` includes that no interleaving of prompts and dispatches
holds more workers than there are. `Ending` (a session that is up has a sender
of the queue; an ended dispatcher has none and an empty queue) is what
`ConnectionsAlwaysDelivered` needs beside it: nothing is accepted behind the
dispatcher's end. `AlwaysOneAnswerPerCall` needs `Paired`: the lock's holder is
the one thread that asks, and while the session is up its request or the answer
to it is on its way, never both and never two.

`SftpProofs`. `Fresh` and `Begun` say what the `.part` file holds before and
after the upload's first open: leftovers, or a beginning of the source. `Asked`
says what a request on the wire will still find, which is the heart of it: an
unserved write is for the unit at the file's end, a rename for a whole file, and
an answer of `metadata` is still true. `Staged` ties the thread to its request.
From these, `UploadKeepsItsPromise`: every step of `Sftp` is a step of `Upload`
or leaves it alone; `Saving` and `Loading` carry `SavedAlwaysWhole` and
`LoadedAlwaysWhole`, and `Loading` makes the download a `Delivery` of the file
(`FileAlwaysDelivered`): the file under its own name does not change under it,
because it was published whole.

`PromiseProofs` ties two abstract specifications together: `SinkDelivers`
refines `Delivery` by `EventStream`. Its `SinkInv` adds that a CHANNEL_CLOSE is
the last message, which is why the terminal event comes behind all the output.
With `SessionKeepsItsPromise` it gives `SessionDelivers`, of the component.

`KnownHostsProofs`. The lemmas are about digits: the sextets of a word are the
bytes' bits (`Sextets`, `EncodedGroup`), and four bytes and a length determine
each other (`FourBytes`). `Covered` and `Padded` say how far the encoder is and
where its padding begins; `Measured` that whoever slices has measured (`BlobsNeverPanic`).

Only model-checked: the liveness properties (`TornDown`, `SilentLinkReported`,
`FailureLeavesNothing`, `ExecReturns`, `FinReachesReader`, `AcceptedReachesSink`,
`CallReturns`, `DispatcherEnds`, `UploadEnds`), because fairness and ENABLED are
out of the prover's reach, and everything the violation runs say.

## 5. Not modelled

- `direct_tcpip_banner`'s loop (559-590): a probe that collects four bytes of a
  stream. That it holds the handle's lock while it does is `Session`.
- SFTP calls of one request and one answer that touch nothing else: `read` of a
  whole file, `remove_file`, `remove_dir`, `create_dir`, `read_dir`, `read_link`,
  `canonicalize`. Two whole-file writes to one path at once interleave at the
  server as they like; nothing in the crate orders them, so there is nothing to
  state.
- Event sinks on the two workers: `Session` assumes that `on_event` returns.
  `Forwards` shows what callbacks that do not return do to everything else.
- A session that starts from a dial. `Dial` ends where `Session` begins: the
  connections it holds are the hops in order with the target last
  (`HoldsItsChain`), which is `Session`'s initial state.
- The test harness `tools/sshd-matrix`: shell scripts over files and containers.
  Its servers appear as what they do to the client (`Exec`'s server that never
  closes the channel).
- The texts of errors and log lines; the algorithms of SSH itself (key exchange,
  ciphers, authentication methods are one step each); the build, the CI file and
  the sshd configuration texts, which have no behaviour of their own. The tests'
  own helpers are not code under test.
