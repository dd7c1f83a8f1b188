----------------------------- MODULE KnownHosts -----------------------------
(***************************************************************************)
(* The host-key blob helpers (ssh-transport/src/known_hosts.rs): the loop  *)
(* of base64_encode and the trimming of blob_fingerprint, and the guards   *)
(* of is_plausible_blob before and behind its slice. A run is one call of  *)
(* one of them.                                                            *)
(*                                                                         *)
(* A byte is a number. A character of the encoding is its place in TABLE,  *)
(* and Pad for '='; four of them are a group.                              *)
(***************************************************************************)
EXTENDS Integers, Sequences

CONSTANTS
  Digests,   \* what is encoded: byte sequences
  Blobs,     \* what is judged: byte sequences
  Families   \* the prefixes of key algorithm names

Byte == 0..255

ASSUME KnownHostsAssumption ==
  /\ Digests \subseteq Seq(Byte) /\ Blobs \subseteq Seq(Byte)
  /\ Families \subseteq Seq(Byte)

VARIABLES
  job,      \* which of the two calls this is, and how far
  bytes,    \* its argument
  taken,    \* bytes the encoder's chunks have covered
  groups,   \* what it has pushed
  shown,    \* characters left after the trimming
  verdict   \* what is_plausible_blob returned

vars == <<job, bytes, taken, groups, shown, verdict>>

Pad == 64
Char == 0..64
Group == Char \X Char \X Char \X Char

TypeOK ==
  /\ job \in {"encode", "trim", "measure", "slice", "done"}
  /\ bytes \in Seq(Byte)
  /\ taken \in 0..Len(bytes)
  /\ groups \in Seq(Group)
  /\ shown \in 0..(4 * Len(groups))
  /\ verdict \in {"none", "yes", "no", "panic"}

Init ==
  /\ \/ job = "encode" /\ bytes \in Digests
     \/ job = "measure" /\ bytes \in Blobs
  /\ taken = 0 /\ groups = <<>> /\ shown = 0 /\ verdict = "none"
-----------------------------------------------------------------------------
(***************************************************************************)
(* base64_encode and blob_fingerprint.                                     *)
(***************************************************************************)
\* A byte of the chunk, 0 behind its end.
At(n) == IF n <= Len(bytes) THEN bytes[n] ELSE 0

Word == At(taken + 1) * 65536 + At(taken + 2) * 256 + At(taken + 3)

Push(group) ==
  /\ job = "encode" /\ taken < Len(bytes)
  /\ groups' = Append(groups, group)
  /\ taken' = IF taken + 3 <= Len(bytes) THEN taken + 3 ELSE Len(bytes)
  /\ UNCHANGED <<job, bytes, shown, verdict>>

\* A second character without its mask.
EncodeUnmasked ==
  Push(<<(Word \div 262144) % 64, Word \div 4096,
         IF Len(bytes) - taken > 1 THEN (Word \div 64) % 64 ELSE Pad,
         IF Len(bytes) - taken > 2 THEN Word % 64 ELSE Pad>>)

\* A padding that looks at the chunk's zero bytes, not at its length.
EncodeByValue ==
  Push(<<(Word \div 262144) % 64, (Word \div 4096) % 64,
         IF Word % 65536 # 0 THEN (Word \div 64) % 64 ELSE Pad,
         IF Word % 256 # 0 THEN Word % 64 ELSE Pad>>)

\* A chunk of three bytes, or what is left, is a group of four characters.
Encode ==
  Push(<<(Word \div 262144) % 64, (Word \div 4096) % 64,
         IF Len(bytes) - taken > 1 THEN (Word \div 64) % 64 ELSE Pad,
         IF Len(bytes) - taken > 2 THEN Word % 64 ELSE Pad>>)

Encoded ==
  /\ job = "encode" /\ taken = Len(bytes)
  /\ job' = "trim" /\ shown' = 4 * Len(groups)
  /\ UNCHANGED <<bytes, taken, groups, verdict>>

Character(n) == groups[((n - 1) \div 4) + 1][((n - 1) % 4) + 1]

\* A trimming of one '=' at most.
TrimOnce ==
  /\ job = "trim" /\ shown > 0 /\ Character(shown) = Pad
  /\ shown' = shown - 1 /\ job' = "done"
  /\ UNCHANGED <<bytes, taken, groups, verdict>>

\* trim_end_matches('=').
Trim ==
  /\ job = "trim" /\ shown > 0 /\ Character(shown) = Pad
  /\ shown' = shown - 1
  /\ UNCHANGED <<job, bytes, taken, groups, verdict>>

Trimmed ==
  /\ job = "trim" /\ (shown > 0 => Character(shown) # Pad)
  /\ job' = "done"
  /\ UNCHANGED <<bytes, taken, groups, shown, verdict>>
-----------------------------------------------------------------------------
(***************************************************************************)
(* is_plausible_blob.                                                      *)
(***************************************************************************)
\* The length that the blob's first ssh string claims to have.
Claimed == bytes[1] * 16777216 + bytes[2] * 65536 + bytes[3] * 256 + bytes[4]

TooShort == Len(bytes) < 4

\* A length held against the whole blob, its own four bytes included.
BadLengthOff == Claimed < 4 \/ Claimed > Len(bytes)
BadLength == Claimed < 4 \/ Claimed > Len(bytes) - 4

Measure ==
  /\ job = "measure"
  /\ IF TooShort \/ BadLength THEN job' = "done" /\ verdict' = "no"
                              ELSE job' = "slice" /\ UNCHANGED verdict
  /\ UNCHANGED <<bytes, taken, groups, shown>>

Begins(name, family) ==
  /\ Len(family) <= Len(name)
  /\ \A k \in 1..Len(family) : name[k] = family[k]

\* A known family, and printable ASCII throughout.
Named(name) ==
  /\ \E family \in Families : Begins(name, family)
  /\ \A k \in 1..Len(name) : name[k] \in 32..126

Slice ==
  /\ job = "slice"
  /\ job' = "done"
  /\ verdict' = IF 4 + Claimed > Len(bytes) THEN "panic"
                ELSE IF Named(SubSeq(bytes, 5, 4 + Claimed)) THEN "yes" ELSE "no"
  /\ UNCHANGED <<bytes, taken, groups, shown>>

Returned == job = "done" /\ UNCHANGED vars

Next == Encode \/ Encoded \/ Trim \/ Trimmed \/ Measure \/ Slice \/ Returned

Spec == Init /\ [][Next]_vars
-----------------------------------------------------------------------------
(***************************************************************************)
(* Properties.                                                             *)
(***************************************************************************)
\* The three bytes that a decoder makes of a group.
Decoded(g) == <<(g[1] * 4) + (g[2] \div 16),
                ((g[2] % 16) * 16) + (g[3] \div 4),
                ((g[3] % 4) * 64) + g[4]>>

\* Whatever the length of the input, every byte that was taken can be read
\* back from the group it went into: no two digests share a fingerprint's text.
EncodingDecodes ==
  \A n \in 1..taken :
    bytes[n] = Decoded(groups[((n - 1) \div 3) + 1])[((n - 1) % 3) + 1]

\* The fingerprint is the encoding without its padding: six bits a character
\* (43 for a SHA-256 digest), no '=' left, and no character lost to trimming.
FingerprintUnpadded ==
  job = "done" /\ verdict = "none" =>
    /\ shown = (8 * Len(bytes) + 5) \div 6
    /\ \A n \in 1..shown : Character(n) # Pad

\* The blob's first four bytes say n.
Says(n) ==
  /\ bytes[1] = n \div 16777216 /\ bytes[2] = (n \div 65536) % 256
  /\ bytes[3] = (n \div 256) % 256 /\ bytes[4] = n % 256

\* They say n, and the n bytes behind them are a known family's name in
\* printable characters.
NamesAt(n) ==
  LET name == SubSeq(bytes, 5, 4 + n) IN
    /\ Says(n)
    /\ \E family \in Families :
         Len(family) <= n /\ SubSeq(name, 1, Len(family)) = family
    /\ \A k \in 1..n : name[k] >= 32 /\ name[k] <= 126

\* Every blob gets an answer, whatever length it claims, and is plausible
\* exactly when it is an ssh string, followed by anything, that names a known
\* family in printable characters.
PlausibleIsNamed ==
  job = "done" /\ verdict # "none" =>
    verdict = IF \E n \in 4..(Len(bytes) - 4) : NamesAt(n) THEN "yes" ELSE "no"
=============================================================================
