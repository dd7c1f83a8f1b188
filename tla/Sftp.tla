-------------------------------- MODULE Sftp --------------------------------
(***************************************************************************)
(* SshSpikeSftp and SshSpikeRemoteFile (ssh-transport/src/lib.rs) with the *)
(* server's files under them: a streamed upload into a `.part` file that   *)
(* is resumed after failures and renamed when it is whole, a streamed      *)
(* download of the result, and a whole-file write beside them, all over    *)
(* one connection that may break and be dialed again.                      *)
(*                                                                         *)
(* A file is the sequence of its units (<<>> when it is not there); unit k *)
(* of the source is the number k, Stale is a leftover of some other file   *)
(* and Hole what a write past the end leaves behind. A request is applied  *)
(* by the server in one step and answered in another; between the two, and *)
(* before the first, the connection may go.                                *)
(***************************************************************************)
EXTENDS Integers, Sequences

CONSTANTS
  Size,        \* the source's length
  MaxWrite,    \* bound: units in one call of write, each a packet
  MaxRead,     \* bound: units one read returns
  NoteSize,    \* units the whole-file write has to put down
  Leftover,    \* bound: units of an earlier file found in the way
  MaxFaults    \* bound: broken connections, refusals and pauses

ASSUME SftpAssumption ==
  /\ Size \in Nat \ {0} /\ MaxWrite \in Nat \ {0} /\ MaxRead \in Nat \ {0}
  /\ NoteSize \in Nat /\ Leftover \in Nat /\ MaxFaults \in Nat

VARIABLES
  link,       \* the connection all of them use
  faults,     \* how much has gone wrong
  part,       \* the `.part` file on the server
  target,     \* the file under its own name
  req,        \* the upload's request on the wire
  served,     \* the server has applied it
  upload,     \* where the uploading thread is
  begun,      \* an open_write of this upload has returned
  offset,     \* where its next open goes: the size metadata reported
  file,       \* the remote file's handle: none, held, taken by disconnect
  pos,        \* the handle's position
  src,        \* the source's next unit, less one
  left,       \* units the write under way has still to be acknowledged
  note,       \* the file the whole-file write is for
  save,       \* where that write is
  saved,      \* its units acknowledged
  download,   \* where the downloading thread is
  got         \* what it has

remote == <<part, target>>
wire   == <<req, served>>
stream == <<upload, begun, offset, file, pos, src, left>>
saving == <<note, save, saved>>
loading == <<download, got>>
vars == <<link, faults, part, target, req, served, upload, begun, offset, file,
          pos, src, left, note, save, saved, download, got>>

Hole  == 0
Stale == -1

Units(n)    == [k \in 1..n |-> k]
Stales(n)   == [k \in 1..n |-> Stale]

\* A write of one unit at an absolute position.
WriteAt(f, at, unit) ==
  [k \in 1..(IF at < Len(f) THEN Len(f) ELSE at + 1) |->
     IF k = at + 1 THEN unit ELSE IF k <= Len(f) THEN f[k] ELSE Hole]

NoReq    == [op |-> "none", at |-> 0, unit |-> 0]
Requests == [op : {"none", "stat", "create", "open", "write", "rename"},
             at : Nat, unit : Nat]

TypeOK ==
  /\ link \in {"up", "down"} /\ faults \in 0..MaxFaults
  /\ part \in Seq(Int) /\ target \in Seq(Int)
  /\ req \in Requests /\ served \in BOOLEAN
  /\ upload \in {"start", "stat", "sized", "open", "ready", "write", "rename", "done"}
  /\ begun \in BOOLEAN /\ offset \in Nat
  /\ file \in {"none", "held", "taken"}
  /\ pos \in 0..Size /\ src \in 0..Size /\ left \in 0..MaxWrite
  /\ note \in Seq(Int) /\ saved \in 0..NoteSize
  /\ save \in {"idle", "open", "write", "close", "ok", "failed"}
  /\ download \in {"start", "open", "read", "done"} /\ got \in Seq(Int)

\* The upload is a new one, over whatever is in the way, or goes on with what
\* an earlier run of the app left behind.
Init ==
  /\ link = "up" /\ faults = 0
  /\ \/ begun = FALSE /\ \E n \in 0..Leftover : part = Stales(n)
     \/ begun = TRUE /\ \E n \in 0..Size : part = Units(n)
  /\ target = <<>>
  /\ req = NoReq /\ served = FALSE
  /\ upload = "start" /\ offset = 0 /\ file = "none"
  /\ pos = 0 /\ src = 0 /\ left = 0
  /\ note = Stales(Leftover) /\ save = "idle" /\ saved = 0
  /\ download = "start" /\ got = <<>>

Send(op, at, unit) ==
  req' = [op |-> op, at |-> at, unit |-> unit] /\ served' = FALSE
-----------------------------------------------------------------------------
(***************************************************************************)
(* The upload. The caller's part of it is the `.part` contract: truncate   *)
(* only for a new upload, go on at the size the server reports, rename     *)
(* when all is written, and after an error open the file again.            *)
(***************************************************************************)
\* open_write: create-or-truncate, at 0.
Create ==
  /\ upload = "start" /\ ~begun /\ link = "up"
  /\ upload' = "open" /\ offset' = 0
  /\ Send("create", 0, 0)
  /\ UNCHANGED <<link, faults, remote, begun, file, pos, src, left, saving, loading>>

\* metadata, of the target and of the `.part` file.
Stat ==
  /\ upload = "start" /\ begun /\ link = "up"
  /\ upload' = "stat"
  /\ Send("stat", 0, 0)
  /\ UNCHANGED <<link, faults, remote, begun, offset, file, pos, src, left, saving, loading>>

\* A caller that never looks whether the file is there already.
StatPartOnly ==
  /\ upload = "stat" /\ served /\ link = "up"
  /\ offset' = req.at
  /\ upload' = "sized"
  /\ req' = NoReq
  /\ UNCHANGED <<link, faults, remote, served, begun, file, pos, src, left, saving, loading>>

\* The rename of an attempt before may have been done without an answer.
StatAnswered ==
  /\ upload = "stat" /\ served /\ link = "up"
  /\ offset' = req.at
  /\ upload' = IF req.unit = 1 THEN "done" ELSE "sized"
  /\ req' = NoReq
  /\ UNCHANGED <<link, faults, remote, served, begun, file, pos, src, left, saving, loading>>

\* A resume that truncates, as a new upload does.
OpenAtTruncating ==
  /\ upload = "sized" /\ link = "up"
  /\ upload' = "open"
  /\ Send("create", offset, 0)
  /\ UNCHANGED <<link, faults, remote, begun, offset, file, pos, src, left, saving, loading>>

\* open_write_at with the size reported: no truncation.
OpenAt ==
  /\ upload = "sized" /\ link = "up"
  /\ upload' = "open"
  /\ Send("open", offset, 0)
  /\ UNCHANGED <<link, faults, remote, begun, offset, file, pos, src, left, saving, loading>>

\* open_file: the handle, and the seek, which needs no round trip.
Opened ==
  /\ upload = "open" /\ served /\ link = "up"
  /\ upload' = "ready" /\ begun' = TRUE
  /\ file' = "held" /\ pos' = offset /\ src' = offset
  /\ req' = NoReq
  /\ UNCHANGED <<link, faults, remote, served, offset, left, saving, loading>>

\* write: the lock is taken and kept until write_all is through.
Write(n) ==
  /\ upload = "ready" /\ file = "held" /\ n \in 1..(Size - src) /\ link = "up"
  /\ upload' = "write" /\ left' = n
  /\ Send("write", pos, src + 1)
  /\ UNCHANGED <<link, faults, remote, begun, offset, file, pos, src, saving, loading>>

\* A position that moves by what is left of the call, not by the packet.
WriteMovesOn ==
  /\ upload = "write" /\ served /\ link = "up"
  /\ pos' = pos + left /\ src' = src + 1 /\ left' = left - 1
  /\ IF left > 1 THEN Send("write", pos + left, src + 2) /\ UNCHANGED upload
                 ELSE req' = NoReq /\ UNCHANGED served /\ upload' = "ready"
  /\ UNCHANGED <<link, faults, remote, begun, offset, file, saving, loading>>

\* write_all sends the next packet when the last was acknowledged.
WriteAcknowledged ==
  /\ upload = "write" /\ served /\ link = "up"
  /\ pos' = pos + 1 /\ src' = src + 1 /\ left' = left - 1
  /\ IF left > 1 THEN Send("write", pos + 1, src + 2) /\ UNCHANGED upload
                 ELSE req' = NoReq /\ UNCHANGED served /\ upload' = "ready"
  /\ UNCHANGED <<link, faults, remote, begun, offset, file, saving, loading>>

\* After a disconnect, write is an error.
WriteClosed ==
  /\ upload = "ready" /\ file = "taken" /\ src < Size
  /\ upload' = "start" /\ file' = "none"
  /\ UNCHANGED <<link, faults, remote, wire, begun, offset, pos, src, left, saving, loading>>

\* disconnect on another thread that does not wait for the file's lock: its
\* task closes the handle under the write.
PauseUnlocked ==
  /\ file = "held" /\ upload \in {"ready", "write"} /\ faults < MaxFaults
  /\ faults' = faults + 1
  /\ file' = "taken"
  /\ UNCHANGED <<link, remote, wire, upload, begun, offset, pos, src, left, saving, loading>>

\* disconnect on another thread: whoever finds the file spawns its close.
Pause ==
  /\ file = "held" /\ upload = "ready" /\ faults < MaxFaults
  /\ faults' = faults + 1
  /\ file' = "taken"
  /\ UNCHANGED <<link, remote, wire, upload, begun, offset, pos, src, left, saving, loading>>

\* All is written: the caller disconnects the file and renames it.
Rename ==
  /\ upload = "ready" /\ src = Size /\ link = "up"
  /\ upload' = "rename" /\ file' = "none"
  /\ Send("rename", 0, 0)
  /\ UNCHANGED <<link, faults, remote, begun, offset, pos, src, left, saving, loading>>

Renamed ==
  /\ upload = "rename" /\ served /\ link = "up"
  /\ upload' = "done"
  /\ req' = NoReq
  /\ UNCHANGED <<link, faults, remote, served, begun, offset, file, pos, src, left, saving, loading>>

\* Whatever was under way fails with the connection; the caller starts again.
Fails ==
  /\ link = "down" /\ upload \notin {"start", "done"}
  /\ upload' = "start" /\ file' = "none" /\ left' = 0
  /\ UNCHANGED <<link, faults, remote, wire, begun, offset, pos, src, saving, loading>>
-----------------------------------------------------------------------------
(***************************************************************************)
(* The server and the connection.                                          *)
(***************************************************************************)
Apply(op) == req.op = op /\ ~served /\ served' = TRUE

ServeStat ==
  /\ Apply("stat")
  /\ req' = [op |-> "stat", at |-> Len(part), unit |-> IF target # <<>> THEN 1 ELSE 0]
  /\ UNCHANGED <<link, faults, remote, stream, saving, loading>>

\* WRITE | CREATE | TRUNCATE.
ServeCreate ==
  /\ Apply("create")
  /\ part' = <<>>
  /\ UNCHANGED <<link, faults, target, req, stream, saving, loading>>

\* WRITE | CREATE.
ServeOpen ==
  /\ Apply("open")
  /\ UNCHANGED <<link, faults, remote, req, stream, saving, loading>>

\* On a handle that is still open.
ServeWrite ==
  /\ Apply("write") /\ file # "taken"
  /\ part' = WriteAt(part, req.at, req.unit)
  /\ UNCHANGED <<link, faults, target, req, stream, saving, loading>>

\* A rename does not replace a file.
ServeRename ==
  /\ Apply("rename") /\ target = <<>>
  /\ target' = part /\ part' = <<>>
  /\ UNCHANGED <<link, faults, req, stream, saving, loading>>

Serve ==
  ServeStat \/ ServeCreate \/ ServeOpen \/ ServeWrite \/ ServeRename

\* A full disk, a closed handle, a file in the way: the call is an error, and
\* the caller leaves the handle.
Refuse ==
  /\ link = "up" /\ req.op # "none" /\ ~served
  /\ \/ faults < MaxFaults /\ faults' = faults + 1
     \/ req.op = "write" /\ file = "taken" /\ UNCHANGED faults
     \/ req.op = "rename" /\ target # <<>> /\ UNCHANGED faults
  /\ req' = NoReq
  /\ upload' = "start" /\ file' = "none" /\ left' = 0
  /\ UNCHANGED <<link, remote, served, begun, offset, pos, src, saving, loading>>

LinkBreaks ==
  /\ link = "up" /\ faults < MaxFaults
  /\ link' = "down" /\ faults' = faults + 1
  /\ UNCHANGED <<remote, wire, stream, saving, loading>>

\* The caller dials again when every call on the old connection has failed.
\* What that connection still carried is over by then.
Redial ==
  /\ link = "down" /\ upload \in {"start", "done"}
  /\ save \in {"idle", "ok", "failed"} /\ download \in {"start", "done"}
  /\ link' = "up"
  /\ req' = NoReq
  /\ UNCHANGED <<faults, remote, served, stream, saving, loading>>
-----------------------------------------------------------------------------
(***************************************************************************)
(* write: open, write_all, close. Each step stands for a round trip whose  *)
(* request may have been applied when its answer is lost.                  *)
(***************************************************************************)
Save ==
  /\ save \in {"idle", "failed"} /\ link = "up"
  /\ save' = "open" /\ saved' = 0
  /\ UNCHANGED <<link, faults, remote, wire, stream, note, loading>>

\* An open with WRITE alone, which leaves the old file's tail.
SaveOpenedOver ==
  /\ save = "open"
  /\ save' = IF link = "up" THEN (IF NoteSize = 0 THEN "close" ELSE "write") ELSE "failed"
  /\ UNCHANGED <<note, link, faults, remote, wire, stream, saved, loading>>

\* CREATE | TRUNCATE | WRITE.
SaveOpened ==
  /\ save = "open"
  /\ note' = <<>>
  /\ save' = IF link = "up" THEN (IF NoteSize = 0 THEN "close" ELSE "write") ELSE "failed"
  /\ UNCHANGED <<link, faults, remote, wire, stream, saved, loading>>

SaveWritten ==
  /\ save = "write"
  /\ note' = WriteAt(note, saved, saved + 1)
  /\ saved' = saved + 1
  /\ save' = IF link = "down" THEN "failed"
             ELSE IF saved + 1 = NoteSize THEN "close" ELSE "write"
  /\ UNCHANGED <<link, faults, remote, wire, stream, loading>>

SaveClosed ==
  /\ save = "close"
  /\ save' = IF link = "up" THEN "ok" ELSE "failed"
  /\ UNCHANGED <<link, faults, remote, wire, stream, note, saved, loading>>

\* The request did not get there, or was refused.
SaveFails ==
  /\ save \in {"open", "write", "close"}
  /\ \/ link = "down" /\ UNCHANGED faults
     \/ link = "up" /\ faults < MaxFaults /\ faults' = faults + 1
  /\ save' = "failed"
  /\ UNCHANGED <<link, remote, wire, stream, note, saved, loading>>
-----------------------------------------------------------------------------
(***************************************************************************)
(* The download: open_read_at where the last attempt got to, then read     *)
(* until it returns nothing. A caller asks for one unit at least.          *)
(***************************************************************************)
Load ==
  /\ download = "start" /\ link = "up" /\ target # <<>>
  /\ download' = "read"
  /\ UNCHANGED <<link, faults, remote, wire, stream, saving, got>>

LoadSome(n) ==
  /\ download = "read" /\ link = "up" /\ n \in 1..(Len(target) - Len(got))
  /\ got' = got \o SubSeq(target, Len(got) + 1, Len(got) + n)
  /\ UNCHANGED <<link, faults, remote, wire, stream, saving, download>>

LoadEnds ==
  /\ download = "read" /\ link = "up" /\ Len(got) = Len(target)
  /\ download' = "done"
  /\ UNCHANGED <<link, faults, remote, wire, stream, saving, got>>

\* A read that takes a lost connection for the end, as a byte pipe's does.
LoadCutShort ==
  /\ download = "read" /\ link = "down"
  /\ download' = "done"
  /\ UNCHANGED <<link, faults, remote, wire, stream, saving, got>>

\* A lost connection is an error, and not the end of the file.
LoadFails ==
  /\ download = "read" /\ link = "down"
  /\ download' = "start"
  /\ UNCHANGED <<link, faults, remote, wire, stream, saving, got>>

\* Everything is there and nobody has anything left to do.
Finished ==
  /\ upload = "done" /\ save = "ok" /\ download = "done" /\ link = "up"
  /\ UNCHANGED vars
-----------------------------------------------------------------------------
Uploader ==
  \/ Create \/ Stat \/ StatAnswered \/ OpenAt \/ Opened
  \/ \E n \in 1..MaxWrite : Write(n)
  \/ WriteAcknowledged \/ WriteClosed \/ Rename \/ Renamed \/ Fails

Saver == Save \/ SaveOpened \/ SaveWritten \/ SaveClosed \/ SaveFails

Loader == Load \/ (\E n \in 1..MaxRead : LoadSome(n)) \/ LoadEnds \/ LoadFails

Next ==
  \/ Uploader \/ Pause \/ Serve \/ Refuse \/ LinkBreaks \/ Redial
  \/ Saver \/ Loader \/ Finished

Spec == Init /\ [][Next]_vars

\* The threads run and try again, the caller dials again, a server that is
\* reached serves. Faults are bounded.
FairSpec ==
  /\ Spec
  /\ WF_vars(Uploader) /\ WF_vars(Serve \/ Refuse) /\ WF_vars(Redial)
  /\ WF_vars(Save \/ SaveOpened \/ SaveWritten \/ SaveClosed)
  /\ WF_vars(Loader)
-----------------------------------------------------------------------------
(***************************************************************************)
(* Properties.                                                             *)
(***************************************************************************)
Source == Units(Size)

\* How much of the source a file holds: all of its units, in their places.
Prefix(f) == IF \A k \in 1..Len(f) : f[k] = k THEN Len(f) ELSE 0

Held == Prefix(IF target = <<>> THEN part ELSE target)

\* Whatever breaks, is refused, is paused and tried again, and whatever was
\* in the way: the server's share of the source only grows, and the file is
\* published once, when it is whole.
Promise  == INSTANCE Upload WITH Size <- Size, held <- Held, published <- target # <<>>
Promised == Promise!Spec

\* A disconnect on another thread never cuts a write in two: the handle is
\* closed between writes only.
WriteKeepsItsHandle == upload = "write" => file = "held"

\* A write that returned Ok left the file with the data and nothing else,
\* also over a longer one, and after attempts that failed halfway.
SavedWhole == save = "ok" => note = Units(NoteSize)

\* What a download has is always the file's beginning, and one that ended has
\* all of it, over any number of broken connections.
LoadedWhole ==
  /\ got = SubSeq(target, 1, Len(got))
  /\ download = "done" => got = Source

\* A download hands the file over from its beginning, and ends behind all of
\* it, over any number of broken connections (Delivery).
File == INSTANCE Delivery WITH
          sent <- 1..Len(target), out <- 1..Len(got), over <- download = "done"
Delivered == File!Spec

\* Every upload comes to its end, a rename whose answer was lost included.
UploadEnds == <>(upload = "done")
=============================================================================
