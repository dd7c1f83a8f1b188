---------------------------- MODULE MCKnownHosts ----------------------------
(***************************************************************************)
(* KnownHosts for TLC: digests of up to five bytes, and some of SHA-256's  *)
(* length, over the bytes at which a sextet changes; blobs whose claimed   *)
(* length is right, off by a little, off by a lot or beyond any blob, with *)
(* names that are a family's beginning and a tail.                         *)
(***************************************************************************)
EXTENDS KnownHosts, TLC

EdgeBytes == {0, 1, 63, 64, 255}
SomeBytes == {0, 5, 252}

SomeDigests ==
  UNION {[1..n -> EdgeBytes] : n \in 0..3} \cup UNION {[1..n -> SomeBytes] : n \in 4..5}
    \cup {[k \in 1..32 |-> (k * m) % 256] : m \in {0, 7, 8, 255}}

\* ssh-, ecdsa-, sk-ssh-, x509v3-
KeyFamilies ==
  {<<115, 115, 104, 45>>, <<101, 99, 100, 115, 97, 45>>,
   <<115, 107, 45, 115, 115, 104, 45>>, <<120, 53, 48, 57, 118, 51, 45>>}

Tails   == UNION {[1..n -> {31, 45, 126, 127, 200}] : n \in 0..2}
Names   == UNION {{SubSeq(f, 1, n) : n \in {0, 3, 4, Len(f)}} : f \in KeyFamilies}
Lengths == {<<0, 0, 0, n>> : n \in 0..10} \cup {<<0, 0, 1, 4>>, <<127, 255, 255, 255>>}

SomeBlobs == {l \o m \o t : l \in Lengths, m \in Names, t \in Tails}
               \cup {<<>>, <<0>>, <<0, 0, 0>>}
=============================================================================
