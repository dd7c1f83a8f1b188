----------------------------- MODULE SftpProofs -----------------------------
(***************************************************************************)
(* Sftp's safety for any size of file, of packet and of fault: types, the  *)
(* upload's refinement of Upload, the whole-file write and the download.   *)
(***************************************************************************)
EXTENDS Sftp, SequenceTheorems, TLAPS

\* A new upload has not yet changed anything but the file in the way.
Fresh ==
  ~begun =>
    /\ upload \in {"start", "open"} /\ req.op \in {"none", "create"}
    /\ target = <<>>
    /\ \A k \in 1..Len(part) : part[k] = Stale

\* From then on the `.part` file is a beginning of the source.
Begun == begun => part = Units(Len(part)) /\ Len(part) <= Size

Published == target # <<>> => target = Source /\ part = <<>>

\* What a request the server has not applied will find, and what the answer
\* of one it has applied still says.
Asked ==
  /\ req.op = "create" => ~begun /\ (served => part = <<>>)
  /\ req.op = "stat" /\ served => req.at = Len(part) /\ (req.unit = 1 <=> target # <<>>)
  /\ req.op = "write" /\ ~served =>
       target = <<>> /\ req.at = Len(part) /\ req.unit = req.at + 1 /\ req.at < Size
  /\ req.op = "rename" /\ ~served => target = <<>> /\ part = Source

\* The uploading thread and its request.
Staged ==
  /\ upload = "stat" => req.op = "stat"
  /\ upload = "sized" => req.op = "none" /\ target = <<>> /\ offset = Len(part)
  /\ upload = "open" =>
       /\ target = <<>>
       /\ \/ req.op = "create" /\ offset = 0
          \/ req.op = "open" /\ offset = Len(part)
  /\ upload = "ready" =>
       req.op = "none" /\ target = <<>> /\ pos = src /\ src = Len(part)
  /\ upload = "write" =>
       /\ file = "held" /\ target = <<>> /\ req.op = "write"
       /\ pos = src /\ left >= 1 /\ src + left <= Size
       /\ req.at = pos
       /\ served => Len(part) = src + 1
  /\ upload = "rename" => req.op = "rename"

Streamed == Fresh /\ Begun /\ Published /\ Asked /\ Staged

\* The whole-file write.
Saving ==
  /\ save = "open" => saved = 0
  /\ save = "write" => note = Units(saved) /\ saved < NoteSize
  /\ save \in {"close", "ok"} => note = Units(NoteSize)

\* The download has nothing before there is a file.
Loading ==
  /\ Len(got) <= Len(target)
  /\ \A k \in 1..Len(got) : got[k] = target[k]
  /\ download = "read" => target # <<>>
  /\ download = "done" => target # <<>> /\ Len(got) = Len(target)

Inv == TypeOK /\ Streamed /\ Saving /\ Loading
-----------------------------------------------------------------------------
LEMMA UnitsFacts ==
  ASSUME NEW n \in Nat
  PROVE  /\ Units(n) \in Seq(Int) /\ Len(Units(n)) = n
         /\ Units(n) = <<>> <=> n = 0
         /\ \A k \in 1..n : Units(n)[k] = k
BY DEF Units

LEMMA StalesFacts ==
  ASSUME NEW n \in Nat
  PROVE  /\ Stales(n) \in Seq(Int) /\ Len(Stales(n)) = n
         /\ \A k \in 1..n : Stales(n)[k] = Stale
BY DEF Stales, Stale

LEMMA PieceFacts ==
  ASSUME NEW s \in Seq(Int), NEW a \in Nat, NEW n \in Nat \ {0}, a + n <= Len(s)
  PROVE  /\ SubSeq(s, a + 1, a + n) \in Seq(Int)
         /\ Len(SubSeq(s, a + 1, a + n)) = n
         /\ \A k \in 1..n : SubSeq(s, a + 1, a + n)[k] = s[a + k]
<1> DEFINE first == a + 1
           last  == a + n
<1>1. first \in Int /\ last \in Int /\ first <= last /\ last - first + 1 = n
  OBVIOUS
<1>2. \A i \in first..last : s[i] \in Int
  OBVIOUS
<1>3. \A k \in 1..n : first + k - 1 = a + k
  OBVIOUS
<1> HIDE DEF first, last
<1>4. /\ SubSeq(s, first, last) \in Seq(Int)
      /\ Len(SubSeq(s, first, last)) = n
      /\ \A k \in 1..n : SubSeq(s, first, last)[k] = s[first + k - 1]
  BY <1>1, <1>2, SubSeqProperties
<1> QED BY <1>3, <1>4 DEF first, last

LEMMA WriteAtType ==
  ASSUME NEW f \in Seq(Int), NEW at \in Nat, NEW unit \in Int
  PROVE  WriteAt(f, at, unit) \in Seq(Int)
<1> DEFINE n == IF at < Len(f) THEN Len(f) ELSE at + 1
<1>1. n \in Nat OBVIOUS
<1>2. ASSUME NEW k \in 1..n
      PROVE  (IF k = at + 1 THEN unit ELSE IF k <= Len(f) THEN f[k] ELSE Hole) \in Int
  BY <1>2 DEF Hole
<1> QED BY <1>1, <1>2 DEF WriteAt

\* The next unit, written where the last one ended.
LEMMA WriteAtEnd ==
  ASSUME NEW n \in Nat
  PROVE  WriteAt(Units(n), n, n + 1) = Units(n + 1)
<1>1. Len(Units(n)) = n /\ \A k \in 1..n : Units(n)[k] = k
  BY UnitsFacts
<1>2. WriteAt(Units(n), n, n + 1)
        = [k \in 1..(n + 1) |-> IF k = n + 1 THEN n + 1
                                ELSE IF k <= n THEN Units(n)[k] ELSE Hole]
  BY <1>1 DEF WriteAt
<1>3. \A k \in 1..(n + 1) : (IF k = n + 1 THEN n + 1
                             ELSE IF k <= n THEN Units(n)[k] ELSE Hole) = k
  BY <1>1
<1> QED BY <1>2, <1>3 DEF Units
-----------------------------------------------------------------------------
\* The upload's share of TypeOK.
StreamTyped ==
  /\ req \in Requests /\ served \in BOOLEAN
  /\ upload \in {"start", "stat", "sized", "open", "ready", "write", "rename", "done"}
  /\ begun \in BOOLEAN /\ offset \in Nat
  /\ file \in {"none", "held", "taken"}
  /\ pos \in 0..Size /\ src \in 0..Size /\ left \in 0..MaxWrite

\* The server's answers, the upload's side of them.
LEMMA ServeKeeps ==
  ASSUME Inv, Serve
  PROVE  /\ req' \in Requests /\ served' = TRUE /\ req'.op = req.op
         /\ part' \in Seq(Int) /\ target' \in Seq(Int)
         /\ Streamed'
<1> USE DEF remote, stream, saving, loading, Apply
<1>0. /\ TypeOK /\ Fresh /\ Begun /\ Published /\ Asked /\ Staged
  BY DEF Inv, Streamed
<1>t. /\ req \in Requests /\ part \in Seq(Int) /\ target \in Seq(Int) /\ Size \in Nat \ {0}
      /\ Len(part) \in Nat /\ Len(target) \in Nat /\ src \in 0..Size
  BY <1>0, SftpAssumption DEF TypeOK
<1>1. CASE ServeStat
  <2>1. /\ req' = [op |-> "stat", at |-> Len(part), unit |-> IF target # <<>> THEN 1 ELSE 0]
        /\ req.op = "stat" /\ ~served /\ served' = TRUE
        /\ UNCHANGED <<part, target, begun, upload, offset, file, pos, src, left>>
    BY <1>1 DEF ServeStat
  <2>2. req' \in Requests /\ req'.op = "stat" /\ req'.at = Len(part)
        /\ (req'.unit = 1 <=> target # <<>>)
    BY <1>t, <2>1 DEF Requests
  <2> QED BY <1>0, <1>t, <2>1, <2>2
          DEF Streamed, Fresh, Begun, Published, Asked, Staged, Source
<1>2. CASE ServeCreate
  <2>1. /\ req.op = "create" /\ part' = <<>> /\ served' = TRUE
        /\ UNCHANGED <<req, target, begun, upload, offset, file, pos, src, left>>
    BY <1>2 DEF ServeCreate
  <2>2. ~begun /\ target = <<>> /\ upload \in {"start", "open"}
    BY <1>0, <2>1 DEF Asked, Fresh
  <2>3. Len(part') = 0 /\ part' \in Seq(Int)
    BY <2>1
  <2> QED BY <1>0, <1>t, <2>1, <2>2, <2>3
          DEF Streamed, Fresh, Begun, Published, Asked, Staged
<1>3. CASE ServeOpen
  <2>1. /\ req.op = "open" /\ served' = TRUE
        /\ UNCHANGED <<req, part, target, begun, upload, offset, file, pos, src, left>>
    BY <1>3 DEF ServeOpen
  <2> QED BY <1>0, <1>t, <2>1
          DEF Streamed, Fresh, Begun, Published, Asked, Staged, Source
<1>4. CASE ServeWrite
  <2>1. /\ req.op = "write" /\ ~served /\ part' = WriteAt(part, req.at, req.unit)
        /\ served' = TRUE
        /\ UNCHANGED <<req, target, begun, upload, offset, file, pos, src, left>>
    BY <1>4 DEF ServeWrite
  <2>2. /\ target = <<>> /\ req.at = Len(part) /\ req.unit = Len(part) + 1
        /\ Len(part) < Size /\ begun
    BY <1>0, <2>1 DEF Asked, Fresh
  <2>3. part = Units(Len(part))
    BY <1>0, <2>2 DEF Begun
  <2>4. part' = Units(Len(part) + 1)
    BY <1>t, <2>1, <2>2, <2>3, WriteAtEnd
  <2>5. part' \in Seq(Int) /\ Len(part') = Len(part) + 1
    BY <1>t, <2>4, UnitsFacts
  <2>6. upload \notin {"stat", "sized", "open", "ready", "rename"}
    BY <1>0, <2>1 DEF Staged
  <2> QED BY <1>0, <1>t, <2>1, <2>2, <2>4, <2>5, <2>6
          DEF Streamed, Fresh, Begun, Published, Asked, Staged
<1>5. CASE ServeRename
  <2>1. /\ req.op = "rename" /\ ~served /\ target' = part /\ part' = <<>>
        /\ served' = TRUE
        /\ UNCHANGED <<req, begun, upload, offset, file, pos, src, left>>
    BY <1>5 DEF ServeRename
  <2>2. part = Source /\ begun
    BY <1>0, <2>1 DEF Asked, Fresh
  <2>3. Len(part') = 0 /\ part' \in Seq(Int) /\ part' = Units(0)
    BY <2>1, UnitsFacts
  <2>4. upload \notin {"stat", "sized", "open", "ready", "write"}
    BY <1>0, <2>1 DEF Staged
  <2> QED BY <1>0, <1>t, <2>1, <2>2, <2>3, <2>4
          DEF Streamed, Fresh, Begun, Published, Asked, Staged
<1> QED BY <1>1, <1>2, <1>3, <1>4, <1>5, <1>t DEF Serve, ServeStat, ServeCreate,
        ServeOpen, ServeWrite, ServeRename

\* The uploading thread's steps leave the server's files alone.
LEMMA UploaderKeeps ==
  ASSUME Inv, Uploader
  PROVE  /\ StreamTyped' /\ Streamed'
         /\ UNCHANGED <<link, faults, part, target, saving, loading>>
<1> DEFINE Kept == /\ StreamTyped' /\ Streamed'
                   /\ UNCHANGED <<link, faults, part, target, saving, loading>>
<1> USE DEF remote, wire, StreamTyped
<1>0. /\ TypeOK /\ Fresh /\ Begun /\ Published /\ Asked /\ Staged
  BY DEF Inv, Streamed
<1>t. /\ req \in Requests /\ served \in BOOLEAN /\ part \in Seq(Int) /\ target \in Seq(Int)
      /\ Size \in Nat \ {0} /\ MaxWrite \in Nat \ {0}
      /\ Len(part) \in Nat /\ offset \in Nat
      /\ begun \in BOOLEAN /\ file \in {"none", "held", "taken"}
      /\ pos \in 0..Size /\ src \in 0..Size /\ left \in 0..MaxWrite
      /\ upload \in {"start", "stat", "sized", "open", "ready", "write", "rename", "done"}
  BY <1>0, SftpAssumption DEF TypeOK
<1>n. NoReq \in Requests /\ NoReq.op = "none"
  BY DEF NoReq, Requests
<1>s. ASSUME NEW op \in {"stat", "create", "open", "write", "rename"}, NEW at \in Nat,
             NEW unit \in Nat, Send(op, at, unit)
      PROVE  /\ req' \in Requests /\ served' = FALSE
             /\ req'.op = op /\ req'.at = at /\ req'.unit = unit
  BY <1>s DEF Send, Requests
<1>1. CASE Create
  <2>1. /\ req' \in Requests /\ served' = FALSE /\ req'.op = "create"
    BY <1>1, <1>s DEF Create
  <2> QED BY <1>0, <1>1, <1>t, <2>1
          DEF Create, Streamed, Fresh, Begun, Published, Asked, Staged
<1>2. CASE Stat
  <2>1. /\ req' \in Requests /\ served' = FALSE /\ req'.op = "stat"
    BY <1>2, <1>s DEF Stat
  <2> QED BY <1>0, <1>2, <1>t, <2>1
          DEF Stat, Streamed, Fresh, Begun, Published, Asked, Staged
<1>3. CASE StatAnswered
  <2>1. req.at = Len(part) /\ (req.unit = 1 <=> target # <<>>) /\ begun
    BY <1>0, <1>3 DEF StatAnswered, Asked, Staged, Fresh
  <2> QED BY <1>0, <1>3, <1>t, <1>n, <2>1
          DEF StatAnswered, Streamed, Fresh, Begun, Published, Asked, Staged
<1>4. CASE OpenAt
  <2>1. /\ req' \in Requests /\ served' = FALSE /\ req'.op = "open"
    BY <1>4, <1>s, <1>t DEF OpenAt
  <2>2. begun
    BY <1>0, <1>4 DEF OpenAt, Fresh
  <2> QED BY <1>0, <1>4, <1>t, <2>1, <2>2
          DEF OpenAt, Streamed, Fresh, Begun, Published, Asked, Staged
<1>5. CASE Opened
  <2>1. target = <<>> /\ offset = Len(part) /\ part = Units(Len(part)) /\ Len(part) <= Size
    <3>1. CASE req.op = "create"
      <4>1. part = <<>> /\ offset = 0 /\ target = <<>>
        BY <1>0, <1>5, <3>1 DEF Opened, Asked, Staged
      <4> QED BY <1>t, <4>1, UnitsFacts
    <3>2. CASE req.op = "open"
      BY <1>0, <1>5, <3>2 DEF Opened, Staged, Fresh, Begun
    <3> QED BY <1>0, <1>5, <3>1, <3>2 DEF Opened, Staged
  <2> QED BY <1>0, <1>5, <1>t, <1>n, <2>1
          DEF Opened, Streamed, Fresh, Begun, Published, Asked, Staged
<1>6. ASSUME NEW n \in 1..MaxWrite, Write(n) PROVE Kept
  <2>1. /\ upload = "ready" /\ begun /\ target = <<>> /\ pos = src /\ src = Len(part)
    BY <1>0, <1>6 DEF Write, Staged, Fresh
  <2>2. /\ req' \in Requests /\ served' = FALSE /\ req'.op = "write"
        /\ req'.at = pos /\ req'.unit = src + 1
    <3>1. Send("write", pos, src + 1) BY <1>6 DEF Write
    <3>2. pos \in Nat /\ src + 1 \in Nat BY <1>t
    <3> QED BY <1>s, <3>1, <3>2
  <2>3. /\ upload' = "write" /\ left' = n /\ file = "held" /\ n <= Size - src /\ n >= 1
        /\ n \in 0..MaxWrite
        /\ UNCHANGED <<link, faults, part, target, begun, offset, file, pos, src, saving,
                       loading>>
    BY <1>6, <1>t DEF Write
  <2>4. StreamTyped' BY <1>t, <2>2, <2>3
  <2>5. Fresh' /\ Begun' /\ Published'
    BY <1>0, <2>1, <2>3 DEF Fresh, Begun, Published
  <2>6. Asked' BY <1>t, <2>1, <2>2, <2>3 DEF Asked
  <2>7. Staged' BY <1>t, <2>1, <2>2, <2>3 DEF Staged
  <2> QED BY <2>3, <2>4, <2>5, <2>6, <2>7 DEF Streamed
<1>7. CASE WriteAcknowledged
  <2>1. /\ begun /\ target = <<>> /\ pos = src /\ file = "held" /\ left >= 1
        /\ src + left <= Size /\ Len(part) = src + 1
    BY <1>0, <1>7 DEF WriteAcknowledged, Staged, Fresh
  <2>2. /\ pos' = pos + 1 /\ src' = src + 1 /\ left' = left - 1
        /\ UNCHANGED <<link, faults, part, target, begun, offset, file, saving, loading>>
    BY <1>7 DEF WriteAcknowledged
  <2>3. CASE left > 1
    <3>1. Send("write", pos + 1, src + 2) /\ upload' = "write"
      BY <1>7, <2>3 DEF WriteAcknowledged
    <3>2. pos + 1 \in Nat /\ src + 2 \in Nat BY <1>t
    <3>3. /\ req' \in Requests /\ served' = FALSE /\ req'.op = "write"
          /\ req'.at = pos + 1 /\ req'.unit = src + 2
      BY <1>s, <3>1, <3>2
    <3>4. StreamTyped'
      <4>1. pos + 1 \in 0..Size /\ src + 1 \in 0..Size /\ left - 1 \in 0..MaxWrite
        BY <1>t, <2>1, <2>3
      <4> QED BY <1>t, <2>2, <3>1, <3>3, <4>1
    <3>5. Fresh' /\ Begun' /\ Published'
      BY <1>0, <2>1, <2>2, <3>1 DEF Fresh, Begun, Published
    <3>6. Asked' BY <1>t, <2>1, <2>2, <2>3, <3>3 DEF Asked
    <3>7. Staged' BY <1>t, <2>1, <2>2, <2>3, <3>1, <3>3 DEF Staged
    <3> QED BY <2>2, <3>4, <3>5, <3>6, <3>7 DEF Streamed
  <2>4. CASE ~(left > 1)
    <3>1. req' = NoReq /\ served' = served /\ upload' = "ready"
      BY <1>7, <2>4 DEF WriteAcknowledged
    <3> QED BY <1>0, <1>t, <1>n, <2>1, <2>2, <2>4, <3>1
            DEF Streamed, Fresh, Begun, Published, Asked, Staged
  <2> QED BY <2>3, <2>4
<1>8. CASE WriteClosed
  <2>1. begun BY <1>0, <1>8 DEF WriteClosed, Fresh
  <2> QED BY <1>0, <1>8, <1>t, <2>1
          DEF WriteClosed, Streamed, Fresh, Begun, Published, Asked, Staged
<1>9. CASE Rename
  <2>1. /\ req' \in Requests /\ served' = FALSE /\ req'.op = "rename"
    BY <1>9, <1>s DEF Rename
  <2>2. begun /\ target = <<>> /\ part = Source
    BY <1>0, <1>9 DEF Rename, Staged, Fresh, Begun, Source
  <2> QED BY <1>0, <1>9, <1>t, <2>1, <2>2
          DEF Rename, Streamed, Fresh, Begun, Published, Asked, Staged
<1>10. CASE Renamed
  <2>1. begun BY <1>0, <1>10 DEF Renamed, Fresh
  <2> QED BY <1>0, <1>10, <1>t, <1>n, <2>1
          DEF Renamed, Streamed, Fresh, Begun, Published, Asked, Staged
<1>11. CASE Fails
  BY <1>0, <1>11, <1>t DEF Fails, Streamed, Fresh, Begun, Published, Asked, Staged
<1> QED BY <1>1, <1>2, <1>3, <1>4, <1>5, <1>6, <1>7, <1>8, <1>9, <1>10, <1>11 DEF Uploader

\* A refusal, a pause, a broken connection, and the next one.
LEMMA FaultKeeps ==
  ASSUME Inv, Pause \/ Refuse \/ LinkBreaks \/ Redial
  PROVE  /\ StreamTyped' /\ Streamed'
         /\ link' \in {"up", "down"} /\ faults' \in 0..MaxFaults
         /\ UNCHANGED <<part, target, saving, loading>>
<1> USE DEF remote, wire, stream, StreamTyped
<1>0. /\ TypeOK /\ Fresh /\ Begun /\ Published /\ Asked /\ Staged
  BY DEF Inv, Streamed
<1>t. /\ StreamTyped /\ part \in Seq(Int) /\ target \in Seq(Int)
      /\ link \in {"up", "down"} /\ faults \in 0..MaxFaults /\ MaxFaults \in Nat
      /\ 0 \in 0..MaxWrite
  BY <1>0, SftpAssumption DEF TypeOK
<1>n. NoReq \in Requests /\ NoReq.op = "none"
  BY DEF NoReq, Requests
<1>1. CASE Pause
  <2>1. begun BY <1>0, <1>1 DEF Pause, Fresh
  <2> QED BY <1>0, <1>1, <1>t, <2>1
          DEF Pause, Streamed, Fresh, Begun, Published, Asked, Staged
<1>2. CASE Refuse
  BY <1>0, <1>2, <1>t, <1>n
     DEF Refuse, Streamed, Fresh, Begun, Published, Asked, Staged
<1>3. CASE LinkBreaks
  BY <1>0, <1>3, <1>t DEF LinkBreaks, Streamed, Fresh, Begun, Published, Asked, Staged
<1>4. CASE Redial
  BY <1>0, <1>4, <1>t, <1>n
     DEF Redial, Streamed, Fresh, Begun, Published, Asked, Staged
<1> QED BY <1>1, <1>2, <1>3, <1>4
-----------------------------------------------------------------------------
\* The save's and the download's shares of TypeOK.
SaveTyped ==
  /\ note \in Seq(Int) /\ saved \in 0..NoteSize
  /\ save \in {"idle", "open", "write", "close", "ok", "failed"}

LoadTyped == download \in {"start", "open", "read", "done"} /\ got \in Seq(Int)

LEMMA SaverKeeps ==
  ASSUME Inv, Saver
  PROVE  /\ SaveTyped' /\ Saving'
         /\ faults' \in 0..MaxFaults
         /\ UNCHANGED <<link, remote, wire, stream, loading>>
<1>t. /\ SaveTyped /\ Saving /\ faults \in 0..MaxFaults
      /\ MaxFaults \in Nat /\ NoteSize \in Nat
  BY SftpAssumption DEF Inv, TypeOK, SaveTyped
<1>n. Units(0) = <<>> /\ <<>> \in Seq(Int)
  BY UnitsFacts
<1> USE DEF SaveTyped, Saving
<1>1. CASE Save BY <1>1, <1>t DEF Save
<1>2. CASE SaveOpened
  <2>1. CASE NoteSize = 0 BY <1>2, <1>t, <1>n, <2>1 DEF SaveOpened
  <2>2. CASE NoteSize # 0
    <3>1. saved = 0 /\ 0 < NoteSize BY <1>2, <1>t, <2>2 DEF SaveOpened
    <3> QED BY <1>2, <1>t, <1>n, <2>2, <3>1 DEF SaveOpened
  <2> QED BY <2>1, <2>2
<1>3. CASE SaveWritten
  <2>1. note = Units(saved) /\ saved \in Nat /\ saved < NoteSize
    BY <1>3, <1>t DEF SaveWritten
  <2>2. note' = Units(saved + 1) /\ saved' = saved + 1
    BY <1>3, <2>1, WriteAtEnd DEF SaveWritten
  <2>3. note' \in Seq(Int) /\ saved' \in 0..NoteSize
    BY <1>t, <2>1, <2>2, UnitsFacts
  <2> QED BY <1>3, <1>t, <2>1, <2>2, <2>3 DEF SaveWritten
<1>4. CASE SaveClosed BY <1>4, <1>t DEF SaveClosed
<1>5. CASE SaveFails BY <1>5, <1>t DEF SaveFails
<1> QED BY <1>1, <1>2, <1>3, <1>4, <1>5 DEF Saver

LEMMA LoaderKeeps ==
  ASSUME Inv, Loader
  PROVE  /\ LoadTyped' /\ Loading'
         /\ UNCHANGED <<link, faults, remote, wire, stream, saving>>
<1>t. /\ LoadTyped /\ Loading /\ target \in Seq(Int)
      /\ Len(target) \in Nat /\ Len(got) \in Nat
  BY DEF Inv, TypeOK, LoadTyped
<1> USE DEF LoadTyped, Loading, remote
<1>1. CASE Load
  BY <1>1, <1>t DEF Load
<1>2. ASSUME NEW n \in 1..MaxRead, LoadSome(n)
      PROVE  /\ LoadTyped' /\ Loading'
             /\ UNCHANGED <<link, faults, remote, wire, stream, saving>>
  <2>1. /\ got' = got \o SubSeq(target, Len(got) + 1, Len(got) + n)
        /\ n \in 1..(Len(target) - Len(got))
        /\ download = "read" /\ download' = download
        /\ UNCHANGED <<link, faults, remote, wire, stream, saving>>
    BY <1>2 DEF LoadSome
  <2>2. /\ SubSeq(target, Len(got) + 1, Len(got) + n) \in Seq(Int)
        /\ Len(SubSeq(target, Len(got) + 1, Len(got) + n)) = n
        /\ \A k \in 1..n : SubSeq(target, Len(got) + 1, Len(got) + n)[k] = target[Len(got) + k]
    <3>1. Len(got) + n <= Len(target) /\ n \in Nat \ {0}
      BY <1>t, <2>1
    <3> HIDE DEF LoadTyped, Loading
    <3> QED BY <1>t, <3>1, PieceFacts
  <2>3. /\ got' \in Seq(Int) /\ Len(got') = Len(got) + n
        /\ \A k \in 1..Len(got) : got'[k] = got[k]
        /\ \A k \in 1..n : got'[Len(got) + k] = target[Len(got) + k]
    BY <1>t, <2>1, <2>2
  <2>4. ASSUME NEW k \in 1..Len(got') PROVE got'[k] = target[k]
    <3>1. CASE k <= Len(got) BY <1>t, <2>3, <3>1, SMTT(20)
    <3>2. CASE k > Len(got)
      <4>1. k - Len(got) \in 1..n /\ Len(got) + (k - Len(got)) = k
        BY <1>t, <2>1, <2>3, <3>2
      <4> QED BY <2>3, <4>1
    <3> QED BY <1>t, <2>3, <3>1, <3>2
  <2> QED BY <1>t, <2>1, <2>3, <2>4
<1>3. CASE LoadEnds
  BY <1>3, <1>t DEF LoadEnds
<1>4. CASE LoadFails
  BY <1>4, <1>t DEF LoadFails
<1> QED BY <1>1, <1>2, <1>3, <1>4 DEF Loader
-----------------------------------------------------------------------------
LEMMA InvInit == Init => Inv
<1> SUFFICES ASSUME Init PROVE Inv
  OBVIOUS
<1> USE SftpAssumption
<1>1. req = NoReq /\ NoReq \in Requests /\ NoReq.op = "none"
  BY DEF Init, NoReq, Requests
<1>2. /\ part \in Seq(Int)
      /\ begun = FALSE => \A k \in 1..Len(part) : part[k] = Stale
      /\ begun = TRUE => part = Units(Len(part)) /\ Len(part) <= Size
      /\ begun \in BOOLEAN
  <2>1. CASE begun = FALSE
    <3>1. PICK n \in 0..Leftover : part = Stales(n) BY <2>1 DEF Init
    <3>2. n \in Nat OBVIOUS
    <3> QED BY <2>1, <3>1, <3>2, StalesFacts
  <2>2. CASE begun = TRUE
    <3>1. PICK n \in 0..Size : part = Units(n) BY <2>2 DEF Init
    <3>2. n \in Nat /\ n <= Size OBVIOUS
    <3> QED BY <2>2, <3>1, <3>2, UnitsFacts
  <2> QED BY <2>1, <2>2 DEF Init
<1>3. note \in Seq(Int)
  BY StalesFacts DEF Init
<1>4. TypeOK
  <2>1. <<>> \in Seq(Int) /\ 0 \in 0..Size /\ 0 \in 0..MaxWrite /\ 0 \in 0..NoteSize
        /\ 0 \in 0..MaxFaults
    OBVIOUS
  <2> QED BY <1>1, <1>2, <1>3, <2>1 DEF Init, TypeOK
<1>5. Streamed
  BY <1>1, <1>2 DEF Init, Streamed, Fresh, Begun, Published, Asked, Staged
<1>6. Saving /\ Loading
  BY DEF Init, Saving, Loading
<1> QED BY <1>4, <1>5, <1>6 DEF Inv

\* The file under its own name, once it is there, stays as it is.
LEMMA ServeLeavesTarget ==
  ASSUME Inv, Serve
  PROVE  Loading'
<1>1. CASE target' = target
  BY <1>1 DEF Inv, Loading, Serve, ServeStat, ServeCreate, ServeOpen, ServeWrite,
     ServeRename, loading
<1>2. CASE target' # target
  <2>1. ServeRename
    BY <1>2 DEF Serve, ServeStat, ServeCreate, ServeOpen, ServeWrite, remote
  <2>2. target = <<>> /\ target' = part /\ part \in Seq(Int)
        /\ download' = download /\ got' = got
    BY <2>1 DEF ServeRename, Inv, TypeOK, loading
  <2>3. Len(got) = 0 /\ download \notin {"read", "done"}
    <3>1. Len(got) \in Nat /\ Len(got) <= 0 BY <2>2 DEF Inv, TypeOK, Loading
    <3> QED BY <2>2, <3>1 DEF Inv, Loading
  <2> QED BY <2>2, <2>3 DEF Loading
<1> QED BY <1>1, <1>2

LEMMA InvStep == Inv /\ [Next]_vars => Inv'
<1> SUFFICES ASSUME Inv, [Next]_vars PROVE Inv'
  OBVIOUS
<1>t. TypeOK /\ Streamed /\ Saving /\ Loading
  BY DEF Inv
<1>1. CASE Serve
  <2>1. UNCHANGED <<link, faults, stream, saving, loading>>
    BY <1>1 DEF Serve, ServeStat, ServeCreate, ServeOpen, ServeWrite, ServeRename
  <2>2. Streamed' /\ req' \in Requests /\ served' = TRUE
        /\ part' \in Seq(Int) /\ target' \in Seq(Int)
    BY <1>1, ServeKeeps
  <2>3. Loading' BY <1>1, ServeLeavesTarget
  <2>4. Saving' BY <1>t, <2>1 DEF Saving, saving
  <2>5. TypeOK' BY <1>t, <2>1, <2>2 DEF TypeOK, stream, saving, loading
  <2> QED BY <2>2, <2>3, <2>4, <2>5 DEF Inv
<1>2. CASE Uploader
  <2>1. /\ StreamTyped' /\ Streamed'
        /\ UNCHANGED <<link, faults, part, target, saving, loading>>
    BY <1>2, UploaderKeeps
  <2>2. Saving' /\ Loading' BY <1>t, <2>1 DEF Saving, Loading, saving, loading
  <2>3. TypeOK' BY <1>t, <2>1 DEF TypeOK, StreamTyped, saving, loading
  <2> QED BY <2>1, <2>2, <2>3 DEF Inv
<1>3. CASE Pause \/ Refuse \/ LinkBreaks \/ Redial
  <2>1. /\ StreamTyped' /\ Streamed' /\ link' \in {"up", "down"} /\ faults' \in 0..MaxFaults
        /\ UNCHANGED <<part, target, saving, loading>>
    BY <1>3, FaultKeeps
  <2>2. Saving' /\ Loading' BY <1>t, <2>1 DEF Saving, Loading, saving, loading
  <2>3. TypeOK' BY <1>t, <2>1 DEF TypeOK, StreamTyped, saving, loading
  <2> QED BY <2>1, <2>2, <2>3 DEF Inv
<1>4. CASE Saver
  <2>1. /\ SaveTyped' /\ Saving' /\ faults' \in 0..MaxFaults
        /\ UNCHANGED <<link, remote, wire, stream, loading>>
    BY <1>4, SaverKeeps
  <2>2. Loading' BY <1>t, <2>1 DEF Loading, remote, loading
  <2>3. Streamed'
    BY <1>t, <2>1 DEF Streamed, Fresh, Begun, Published, Asked, Staged, remote, wire, stream
  <2>4. TypeOK' BY <1>t, <2>1 DEF TypeOK, SaveTyped, remote, wire, stream, loading
  <2> QED BY <2>1, <2>2, <2>3, <2>4 DEF Inv
<1>5. CASE Loader
  <2>1. /\ LoadTyped' /\ Loading'
        /\ UNCHANGED <<link, faults, remote, wire, stream, saving>>
    BY <1>5, LoaderKeeps
  <2>2. Saving' BY <1>t, <2>1 DEF Saving, saving
  <2>3. Streamed'
    BY <1>t, <2>1 DEF Streamed, Fresh, Begun, Published, Asked, Staged, remote, wire, stream
  <2>4. TypeOK' BY <1>t, <2>1 DEF TypeOK, LoadTyped, remote, wire, stream, saving
  <2> QED BY <2>1, <2>2, <2>3, <2>4 DEF Inv
<1>6. CASE Finished \/ UNCHANGED vars
  <2>1. UNCHANGED vars BY <1>6 DEF Finished
  <2>2. TypeOK' BY <1>t, <2>1 DEF vars, TypeOK
  <2>3. Saving' /\ Loading' BY <1>t, <2>1 DEF vars, Saving, Loading
  <2>4. Streamed'
    BY <1>t, <2>1 DEF vars, Streamed, Fresh, Begun, Published, Asked, Staged
  <2> QED BY <2>2, <2>3, <2>4 DEF Inv
<1> QED BY <1>1, <1>2, <1>3, <1>4, <1>5, <1>6 DEF Next

LEMMA InvAlways == Spec => []Inv
BY InvInit, InvStep, PTL DEF Spec
-----------------------------------------------------------------------------
\* Every value in every reachable state is one the model means.
THEOREM SftpTypeCorrect == Spec => []TypeOK
<1>1. Inv => TypeOK BY DEF Inv
<1> QED BY <1>1, InvAlways, PTL

\* No disconnect on another thread closes a file under a write.
THEOREM WritesKeepTheirHandle == Spec => []WriteKeepsItsHandle
<1>1. Inv => WriteKeepsItsHandle BY DEF Inv, Streamed, Staged, WriteKeepsItsHandle
<1> QED BY <1>1, InvAlways, PTL

\* A whole-file write that returned Ok left exactly its data, for data of any
\* length over a file of any length.
THEOREM SavedAlwaysWhole == Spec => []SavedWhole
<1>1. Inv => SavedWhole BY DEF Inv, Saving, SavedWhole
<1> QED BY <1>1, InvAlways, PTL

\* Sequences that agree in length and in every place are equal.
LEMMA SameSequence ==
  ASSUME NEW s \in Seq(Int), NEW t \in Seq(Int), Len(s) = Len(t),
         \A k \in 1..Len(s) : s[k] = t[k]
  PROVE  s = t
OBVIOUS

\* A download has the file's beginning, and the source when it has ended.
THEOREM LoadedAlwaysWhole == Spec => []LoadedWhole
<1>1. Inv => LoadedWhole
  <2> SUFFICES ASSUME Inv PROVE LoadedWhole
    OBVIOUS
  <2>0. /\ got \in Seq(Int) /\ target \in Seq(Int) /\ Len(got) \in Nat
        /\ Size \in Nat /\ Loading /\ Published
    BY SftpAssumption DEF Inv, TypeOK, Streamed
  <2>1. got = SubSeq(target, 1, Len(got))
    <3>1. CASE Len(got) = 0
      <4>1. got = <<>> BY <2>0, <3>1
      <4>2. SubSeq(target, 1, 0) = <<>> BY SubSeqEmpty
      <4> QED BY <3>1, <4>1, <4>2
    <3>2. CASE Len(got) # 0
      <4>1. Len(got) \in Nat \ {0} /\ 0 + Len(got) <= Len(target) /\ 0 \in Nat
        BY <2>0, <3>2 DEF Loading
      <4>2. /\ SubSeq(target, 0 + 1, 0 + Len(got)) \in Seq(Int)
            /\ Len(SubSeq(target, 0 + 1, 0 + Len(got))) = Len(got)
            /\ \A k \in 1..Len(got) : SubSeq(target, 0 + 1, 0 + Len(got))[k] = target[0 + k]
        BY <2>0, <4>1, PieceFacts
      <4>3. 0 + 1 = 1 /\ 0 + Len(got) = Len(got) /\ \A k \in 1..Len(got) : 0 + k = k
        BY <2>0
      <4>4. /\ SubSeq(target, 1, Len(got)) \in Seq(Int)
            /\ Len(SubSeq(target, 1, Len(got))) = Len(got)
            /\ \A k \in 1..Len(got) : SubSeq(target, 1, Len(got))[k] = target[k]
        BY <4>2, <4>3
      <4>5. \A k \in 1..Len(got) : got[k] = SubSeq(target, 1, Len(got))[k]
        BY <2>0, <4>4 DEF Loading
      <4> HIDE DEF Loading
      <4> QED BY <2>0, <4>4, <4>5, SameSequence
    <3> QED BY <3>1, <3>2
  <2>2. ASSUME download = "done" PROVE got = Source
    <3>1. target = Source /\ Len(got) = Len(target)
      BY <2>0, <2>2 DEF Loading, Published
    <3>2. \A k \in 1..Len(got) : got[k] = target[k]
      BY <2>0 DEF Loading
    <3>3. got = target
      BY <2>0, <3>1, <3>2, SameSequence
    <3> QED BY <3>1, <3>3
  <2> QED BY <2>1, <2>2 DEF LoadedWhole
<1> QED BY <1>1, InvAlways, PTL
-----------------------------------------------------------------------------
\* What a file of the source's units, and what one of something else, holds.
LEMMA PrefixFacts ==
  /\ \A n \in Nat : Prefix(Units(n)) = n
  /\ \A f \in Seq(Int) : (\A k \in 1..Len(f) : f[k] = Stale) => Prefix(f) = 0
<1>1. ASSUME NEW n \in Nat PROVE Prefix(Units(n)) = n
  BY <1>1, UnitsFacts DEF Prefix
<1>2. ASSUME NEW f \in Seq(Int), \A k \in 1..Len(f) : f[k] = Stale PROVE Prefix(f) = 0
  <2>1. CASE Len(f) = 0 BY <1>2, <2>1 DEF Prefix
  <2>2. CASE Len(f) # 0
    <3>1. 1 \in 1..Len(f) BY <1>2, <2>2
    <3>2. f[1] # 1 BY <1>2, <3>1 DEF Stale
    <3> QED BY <3>1, <3>2 DEF Prefix
  <2> QED BY <2>1, <2>2
<1> QED BY <1>1, <1>2

\* Every step of the upload is one of Upload's, or leaves what it shows alone.
LEMMA PromiseStep == Inv /\ [Next]_vars => [Promise!Next]_(Promise!vars)
<1> SUFFICES ASSUME Inv, [Next]_vars, ~(UNCHANGED <<part, target>>)
             PROVE  [Promise!Next]_(Promise!vars)
  <2>1. UNCHANGED <<part, target>> => UNCHANGED Promise!vars
    BY DEF Promise!vars, Held
  <2> QED BY <2>1
<1>0. /\ TypeOK /\ Fresh /\ Begun /\ Published /\ Asked /\ Staged
  BY DEF Inv, Streamed
<1>t. part \in Seq(Int) /\ target \in Seq(Int) /\ Size \in Nat \ {0} /\ Len(part) \in Nat
  BY <1>0, SftpAssumption DEF TypeOK
<1>1. Serve
  <2>1. Uploader => UNCHANGED <<part, target>> BY UploaderKeeps
  <2>2. Pause \/ Refuse \/ LinkBreaks \/ Redial => UNCHANGED <<part, target>>
    BY FaultKeeps
  <2>3. Saver => UNCHANGED <<part, target>> BY SaverKeeps DEF remote
  <2>4. Loader => UNCHANGED <<part, target>> BY LoaderKeeps DEF remote
  <2>5. Finished \/ UNCHANGED vars => UNCHANGED <<part, target>> BY DEF Finished, vars
  <2> QED BY <2>1, <2>2, <2>3, <2>4, <2>5 DEF Next
<1>2. CASE ServeCreate
  <2>1. /\ part' = <<>> /\ target' = <<>> /\ target = <<>>
        /\ \A k \in 1..Len(part) : part[k] = Stale
    BY <1>0, <1>2 DEF ServeCreate, Apply, Asked, Fresh
  <2>2. Held = 0 BY <1>t, <2>1, PrefixFacts DEF Held
  <2>3. Held' = 0 BY <2>1, PrefixFacts, UnitsFacts DEF Held
  <2> QED BY <2>1, <2>2, <2>3 DEF Promise!vars
<1>3. CASE ServeWrite
  <2>1. /\ req.op = "write" /\ ~served /\ part' = WriteAt(part, req.at, req.unit)
        /\ target' = target
    BY <1>3 DEF ServeWrite, Apply
  <2>2. /\ target = <<>> /\ req.at = Len(part) /\ req.unit = Len(part) + 1
        /\ Len(part) < Size /\ part = Units(Len(part))
    BY <1>0, <2>1 DEF Asked, Fresh, Begun
  <2>3. part' = Units(Len(part) + 1)
    BY <1>t, <2>1, <2>2, WriteAtEnd
  <2>4. Held = Len(part)
    BY <1>t, <2>2, PrefixFacts DEF Held
  <2>5. Held' = Len(part) + 1
    BY <1>t, <2>1, <2>2, <2>3, PrefixFacts DEF Held
  <2>6. Promise!Grow
    BY <2>1, <2>2, <2>4, <2>5 DEF Promise!Grow
  <2> QED BY <2>6 DEF Promise!Next
<1>4. CASE ServeRename
  <2>1. target' = part /\ target = <<>> /\ part = Units(Size)
    BY <1>0, <1>4 DEF ServeRename, Apply, Asked, Source
  <2>2. part # <<>>
    BY <1>t, <2>1, UnitsFacts
  <2>3. Held = Size /\ Held' = Size
    BY <1>t, <2>1, <2>2, PrefixFacts DEF Held
  <2>4. Promise!Publish
    BY <2>1, <2>2, <2>3 DEF Promise!Publish
  <2> QED BY <2>4 DEF Promise!Next
<1>5. CASE ServeStat \/ ServeOpen
  BY <1>5 DEF ServeStat, ServeOpen, remote
<1> QED BY <1>1, <1>2, <1>3, <1>4, <1>5 DEF Serve

LEMMA PromiseInit == Init => Promise!Init
<1> SUFFICES ASSUME Init PROVE Promise!Init
  OBVIOUS
<1>1. target = <<>> /\ Held = Prefix(part) BY DEF Init, Held
<1>2. Prefix(part) \in 0..Size
  <2>1. CASE begun = FALSE
    <3>1. PICK n \in 0..Leftover : part = Stales(n) BY <2>1 DEF Init
    <3>2. part \in Seq(Int) /\ \A k \in 1..Len(part) : part[k] = Stale
      BY <3>1, StalesFacts
    <3>3. Prefix(part) = 0 BY <3>2, PrefixFacts
    <3> QED BY <3>3, SftpAssumption
  <2>2. CASE begun = TRUE
    <3>1. PICK n \in 0..Size : part = Units(n) BY <2>2 DEF Init
    <3>2. n \in Nat OBVIOUS
    <3> QED BY <3>1, <3>2, PrefixFacts
  <2> QED BY <2>1, <2>2 DEF Init
<1> QED BY <1>1, <1>2 DEF Promise!Init

\* The upload implements Upload: for a source of any length, over any faults,
\* what the server holds of it only grows, and it is published once and whole.
THEOREM UploadKeepsItsPromise == Spec => Promised
<1>1. Spec => []Inv BY InvAlways
<1> QED BY <1>1, PromiseInit, PromiseStep, PTL DEF Spec, Promised, Promise!Spec
-----------------------------------------------------------------------------
\* Every step of a download is one of Delivery's: the file arrives whole, with
\* its rename, and is handed over piece by piece.
LEMMA FileStep == Inv /\ [Next]_vars => [File!Next]_(File!vars)
<1> SUFFICES ASSUME Inv, [Next]_vars PROVE [File!Next]_(File!vars)
  OBVIOUS
<1>t. /\ TypeOK /\ Loading
      /\ got \in Seq(Int) /\ target \in Seq(Int) /\ part \in Seq(Int)
      /\ Len(got) \in Nat /\ Len(target) \in Nat /\ Len(part) \in Nat
  BY DEF Inv, TypeOK
<1>1. ASSUME UNCHANGED <<target, got>>, download' = "done" <=> download = "done"
      PROVE  UNCHANGED File!vars
  BY <1>1 DEF File!vars
<1>2. CASE ServeRename
  <2>1. /\ target = <<>> /\ target' = part /\ UNCHANGED <<download, got>>
    BY <1>2 DEF ServeRename, loading
  <2>2. Len(got) = 0 /\ download # "done"
    <3>1. Len(got) <= 0 BY <1>t, <2>1 DEF Loading
    <3> QED BY <1>t, <2>1, <3>1 DEF Loading
  <2>3. 1..Len(target) = {} /\ 1..Len(target') \subseteq Nat
    BY <1>t, <2>1
  <2>4. File!Arrive
    BY <2>1, <2>2, <2>3 DEF File!Arrive
  <2> QED BY <2>4 DEF File!Next
<1>3. CASE Serve /\ ~ServeRename
  BY <1>1, <1>3 DEF Serve, ServeStat, ServeCreate, ServeOpen, ServeWrite, remote, loading
<1>4. ASSUME NEW n \in 1..MaxRead, LoadSome(n) PROVE File!Next
  <2>1. /\ got' = got \o SubSeq(target, Len(got) + 1, Len(got) + n)
        /\ n \in 1..(Len(target) - Len(got))
        /\ download = "read" /\ download' = "read" /\ target' = target
    BY <1>4 DEF LoadSome, remote
  <2>2. n \in Nat \ {0} /\ Len(got) + n <= Len(target)
    BY <1>t, <2>1
  <2>3. /\ SubSeq(target, Len(got) + 1, Len(got) + n) \in Seq(Int)
        /\ Len(SubSeq(target, Len(got) + 1, Len(got) + n)) = n
    BY <1>t, <2>2, PieceFacts
  <2>4. Len(got') = Len(got) + n
    BY <1>t, <2>1, <2>3
  <2>5. /\ 1..Len(got) \subseteq 1..Len(got') /\ 1..Len(got') \subseteq 1..Len(target)
        /\ \A k \in 1..Len(got'), m \in (1..Len(target)) \ (1..Len(got')) : k < m
    BY <1>t, <2>2, <2>4
  <2>6. File!HandOver
    BY <2>1, <2>5 DEF File!HandOver
  <2> QED BY <2>6 DEF File!Next
<1>5. CASE LoadEnds
  <2>1. File!End
    BY <1>5 DEF LoadEnds, remote, File!End
  <2> QED BY <2>1 DEF File!Next
<1>6. CASE Load \/ LoadFails
  BY <1>1, <1>6 DEF Load, LoadFails, remote
<1>7. CASE Uploader
  <2>1. UNCHANGED <<target, loading>> BY <1>7, UploaderKeeps
  <2> QED BY <1>1, <2>1 DEF loading
<1>8. CASE Pause \/ Refuse \/ LinkBreaks \/ Redial
  <2>1. UNCHANGED <<target, loading>> BY <1>8, FaultKeeps
  <2> QED BY <1>1, <2>1 DEF loading
<1>9. CASE Saver
  <2>1. UNCHANGED <<remote, loading>> BY <1>9, SaverKeeps
  <2> QED BY <1>1, <2>1 DEF remote, loading
<1>10. CASE Finished \/ UNCHANGED vars
  BY <1>1, <1>10 DEF Finished, vars
<1> QED
  BY <1>2, <1>3, <1>4, <1>5, <1>6, <1>7, <1>8, <1>9, <1>10 DEF Next, Loader

\* Over any number of broken connections a download hands the file over in
\* order, and ends behind all of it and never before.
THEOREM FileAlwaysDelivered == Spec => Delivered
<1>1. Init => File!Init
  <2> SUFFICES ASSUME Init PROVE File!Init
    OBVIOUS
  <2>1. target = <<>> /\ got = <<>> /\ download = "start" BY DEF Init
  <2>2. 1..Len(target) = {} /\ 1..Len(got) = {} BY <2>1
  <2> QED BY <2>1, <2>2 DEF File!Init
<1> QED BY <1>1, FileStep, InvAlways, PTL DEF Spec, Delivered, File!Spec
=============================================================================
