----------------------------- MODULE DialProofs -----------------------------
(***************************************************************************)
(* Dial's safety for dial lists of any length and any set of keys.         *)
(***************************************************************************)
EXTENDS Dial, TLAPS

\* The parents are the hops before the one in hand, and the target comes last.
ChainInOrder ==
  stage # "failed" =>
    /\ parents = [j \in 1..(at - 1) |-> j]
    /\ target = Target <=> stage \in {"channel", "pty", "shell", "done"}

\* How far the hop in hand is, told by what has happened to it.
Progress ==
  /\ stage \in {"auth", "authWait"} => key[at] \in Trusted[at]
  /\ stage \in {"open", "kex", "verify", "auth"} => at \notin secrets
  /\ stage \in {"authWait", "channel", "pty", "shell", "done"} => at \in secrets
  /\ stage \in {"channel", "pty", "shell", "done"} => at = Target
  /\ stage = "open" => conn[at] = "none"
  /\ stage \in {"kex", "verify", "auth", "authWait"} => inHand = at

\* What lies behind the hop in hand, and what lies ahead of it.
Walked ==
  /\ 1..(at - 1) \subseteq secrets
  /\ \A i \in Conns : i > at => conn[i] = "none" /\ i \notin secrets

Inv == TypeOK /\ ChainInOrder /\ SecretsToTrustedPeers /\ Progress /\ Walked
-----------------------------------------------------------------------------
LEMMA ConnsFacts == Conns \subseteq Nat \ {0} /\ Target \in Conns /\ 1 \in Conns
BY DialAssumption DEF Conns, Target

LEMMA TypeStep == TypeOK /\ [Next]_vars => TypeOK'
<1> SUFFICES ASSUME TypeOK, [Next]_vars PROVE TypeOK'
  OBVIOUS
<1> USE ConnsFacts DEF TypeOK, Stages, held, links, Advance
<1>0. ASSUME NEW k \in Kinds, NEW j \in 0..Hops, NEW why \in Causes, Fail(k, j, why)
      PROVE  TypeOK'
  BY <1>0 DEF Fail, Error
<1>at. at \in 0..Hops /\ 0 \in 0..Hops
  BY DialAssumption DEF Conns
<1>1. CASE Opened BY <1>1 DEF Opened
<1>2. CASE OpenRefused \/ OpenLost
  BY <1>0, <1>2, <1>at DEF OpenRefused, OpenLost, Kinds, Causes
<1>3. CASE KexReply BY <1>3 DEF KexReply
<1>4. CASE KexNoOverlap \/ KexLost \/ Refused
  BY <1>0, <1>4, <1>at DEF KexNoOverlap, KexLost, Refused, Kinds, Causes
<1>5. CASE Verified BY <1>5 DEF Verified
<1>6. CASE BadPem \/ AuthRejected \/ AuthLost
  BY <1>0, <1>6, <1>at DEF BadPem, AuthRejected, AuthLost, AuthFailed, Kinds, Causes
<1>7. CASE SendSecret BY <1>7 DEF SendSecret
<1>8. CASE AuthAccepted
  <2>1. CASE at = Target
    <3>1. target' = Target /\ inHand' = 0 /\ stage' = "channel"
          /\ UNCHANGED <<at, parents, conn, key, secrets, err, cause>>
      BY <1>8, <2>1 DEF AuthAccepted, KeepTarget
    <3> QED BY <3>1
  <2>2. CASE at # Target
    <3>1. at + 1 \in Conns BY <2>2, DialAssumption DEF Conns, Target
    <3>2. /\ parents' = Append(parents, at) /\ inHand' = 0 /\ at' = at + 1
          /\ stage' = "open" /\ UNCHANGED <<target, conn, key, secrets, err, cause>>
      BY <1>8, <2>2 DEF AuthAccepted, NextHop
    <3>3. parents' \in Seq(Conns) BY <3>2
    <3> QED BY <3>1, <3>2, <3>3
  <2> QED BY <2>1, <2>2
<1>9. CASE Shell
  <2>1. CASE ChannelRefused \/ ShellLost
    BY <1>0, <1>at, <2>1 DEF ChannelRefused, ShellLost, Kinds, Causes
  <2>2. CASE ChannelOpened \/ Requested("pty", "shell") \/ Requested("shell", "done")
    BY <2>2 DEF ChannelOpened, Requested
  <2> QED BY <1>9, <2>1, <2>2 DEF Shell
<1>10. CASE Links BY <1>10 DEF Links, Breaks, Orphaned, Dropped
<1>11. CASE Returned \/ UNCHANGED vars BY <1>11 DEF Returned, vars
<1> QED BY <1>1, <1>2, <1>3, <1>4, <1>5, <1>6, <1>7, <1>8, <1>9, <1>10, <1>11 DEF Next, Hop

LEMMA InvInit == Init => Inv
BY DialAssumption, ConnsFacts
   DEF Init, Inv, TypeOK, ChainInOrder, SecretsToTrustedPeers, Progress, Walked,
       Stages, Conns, Target
-----------------------------------------------------------------------------
\* The parents held are the hops before the one in hand, one more at a time.
LEMMA OneMoreParent ==
  ASSUME NEW n \in Nat \ {0}, NEW s, s = [j \in 1..(n - 1) |-> j]
  PROVE  Append(s, n) = [j \in 1..n |-> j]
<1>1. s \in Seq(Nat) /\ Len(s) = n - 1
  OBVIOUS
<1>2. Append(s, n) \in Seq(Nat) /\ Len(Append(s, n)) = n
  BY <1>1
<1>3. \A j \in 1..n : Append(s, n)[j] = j
  BY <1>1
<1> QED BY <1>2, <1>3

\* While the walk lasts, everything that stands is held: the hops behind the
\* one in hand are the parents, and the one in hand is in hand or the target.
LEMMA AllHeld ==
  ASSUME Inv, stage # "failed"
  PROVE  \A i \in Conns : conn[i] = "up" => i \in Owned
<1> SUFFICES ASSUME NEW i \in Conns, conn[i] = "up" PROVE i \in Owned
  OBVIOUS
<1> USE ConnsFacts DEF Inv, TypeOK, Stages, ChainInOrder
<1>1. i <= at /\ i \in Nat \ {0} /\ at \in Nat BY DEF Walked
<1>2. CASE i < at
  <2>1. i \in 1..Len(parents) /\ parents[i] = i BY <1>1, <1>2
  <2> QED BY <2>1 DEF Owned
<1>3. CASE i = at
  <2>1. i \in {target, inHand} BY <1>3 DEF Progress
  <2> QED BY <1>1, <2>1 DEF Owned
<1> QED BY <1>1, <1>2, <1>3

\* A failure leaves nothing in hand and changes nothing that has happened.
LEMMA FailStep ==
  ASSUME Inv, NEW k, NEW j, NEW why, Fail(k, j, why)
  PROVE  ChainInOrder' /\ SecretsToTrustedPeers' /\ Progress' /\ Walked'
BY DEF Inv, Fail, links, ChainInOrder, SecretsToTrustedPeers, Progress, Walked

LEMMA InvStep == Inv /\ [Next]_vars => Inv'
<1> SUFFICES ASSUME Inv, [Next]_vars
             PROVE  ChainInOrder' /\ SecretsToTrustedPeers' /\ Progress' /\ Walked'
  BY TypeStep DEF Inv
<1> USE ConnsFacts DEF Inv, TypeOK, ChainInOrder, SecretsToTrustedPeers, Progress,
                       Walked, held, links, Advance
<1>1. CASE Opened BY <1>1 DEF Opened
<1>2. CASE OpenRefused \/ OpenLost \/ KexNoOverlap \/ KexLost \/ Refused
  BY <1>2, FailStep DEF OpenRefused, OpenLost, KexNoOverlap, KexLost, Refused
<1>3. CASE KexReply BY <1>3 DEF KexReply
<1>4. CASE Verified BY <1>4 DEF Verified, Accepts
<1>5. CASE BadPem \/ AuthRejected \/ AuthLost
  BY <1>5, FailStep DEF BadPem, AuthRejected, AuthLost, AuthFailed
<1>6. CASE SendSecret BY <1>6 DEF SendSecret
<1>7. CASE AuthAccepted /\ at = Target BY <1>7 DEF AuthAccepted, KeepTarget
<1>8. CASE AuthAccepted /\ at # Target
  <2>1. /\ stage = "authWait" /\ stage' = "open" /\ at' = at + 1
        /\ parents' = Append(parents, at) /\ target' = target
        /\ UNCHANGED <<conn, key, secrets>>
    BY <1>8 DEF AuthAccepted, NextHop
  <2>2. parents' = [j \in 1..(at' - 1) |-> j]
    BY <2>1, OneMoreParent
  <2>3. target # Target
    BY <2>1
  <2>4. at' \in Conns /\ 1..(at' - 1) = (1..(at - 1)) \cup {at}
    BY <1>8, <2>1, DialAssumption DEF Conns, Target
  <2>5. ChainInOrder' BY <2>1, <2>2, <2>3
  <2>6. Walked'
    <3>1. 1..(at' - 1) \subseteq secrets'
      BY <2>1, <2>4
    <3>2. ASSUME NEW i \in Conns, i > at' PROVE conn'[i] = "none" /\ i \notin secrets'
      <4>1. i > at BY <2>1, <3>2
      <4> QED BY <2>1, <4>1
    <3> QED BY <3>1, <3>2
  <2>7. Progress'
    <3>1. at' > at BY <2>1
    <3> QED BY <2>1, <2>4, <3>1
  <2> QED BY <2>1, <2>5, <2>6, <2>7
<1>9. CASE Shell
  <2>1. CASE ChannelRefused \/ ShellLost
    BY <2>1, FailStep DEF ChannelRefused, ShellLost
  <2>2. CASE ChannelOpened \/ Requested("pty", "shell") \/ Requested("shell", "done")
    BY <2>2, ZenonT(40) DEF ChannelOpened, Requested
  <2> QED BY <1>9, <2>1, <2>2 DEF Shell
<1>10. CASE Links
  <2>1. PICK i \in Conns : conn[i] = "up" /\ conn' = [conn EXCEPT ![i] = "down"]
    BY <1>10 DEF Links, Breaks, Orphaned, Dropped
  <2>2. UNCHANGED <<at, stage, key, secrets, inHand, parents, target>>
    BY <1>10 DEF Links, Breaks, Orphaned, Dropped
  <2>3. \A j \in Conns : conn[j] = "none" => conn'[j] = "none"
    BY <2>1
  <2>4. Walked' BY <2>2, <2>3
  <2>5. Progress' BY <2>2, <2>3
  <2>6. ChainInOrder' /\ SecretsToTrustedPeers' BY <2>2
  <2> QED BY <2>4, <2>5, <2>6
<1>11. CASE Returned \/ UNCHANGED vars BY <1>11 DEF Returned, vars
<1> QED BY <1>1, <1>2, <1>3, <1>4, <1>5, <1>6, <1>7, <1>8, <1>9, <1>10, <1>11 DEF Next, Hop

LEMMA InvAlways == Spec => []Inv
BY InvInit, InvStep, PTL DEF Spec
-----------------------------------------------------------------------------
\* Every value in every reachable state is one the model means.
THEOREM DialTypeCorrect == Spec => []TypeOK
<1>1. Inv => TypeOK BY DEF Inv
<1> QED BY <1>1, InvAlways, PTL

\* A credential goes out only to a peer whose key was accepted for the very
\* endpoint the credential is for.
THEOREM SecretsStayWithTrustedPeers == Spec => []SecretsToTrustedPeers
<1>1. Inv => SecretsToTrustedPeers BY DEF Inv
<1> QED BY <1>1, InvAlways, PTL

\* The expects of connect_inner cannot fail, nothing that stands is without a
\* holder under the walk, and a returned session owns every hop of its chain,
\* in order.
THEOREM ChainAlwaysHeld == Spec => []HoldsItsChain
<1>1. Inv => HoldsItsChain BY AllHeld DEF Inv, ChainInOrder, HoldsItsChain
<1> QED BY <1>1, InvAlways, PTL

\* A hop is dialed only through hops that were verified and given their
\* credential.
THEOREM HopsAlwaysInTurn == Spec => []HopsInTurn
<1>1. Inv => HopsInTurn
  <2> SUFFICES ASSUME Inv, NEW i \in Conns, conn[i] # "none", NEW j \in 1..(i - 1)
               PROVE  j \in secrets /\ key[j] \in Trusted[j]
    BY DEF HopsInTurn
  <2>1. i <= at BY ConnsFacts DEF Inv, Walked, TypeOK
  <2>2. j \in 1..(at - 1) BY <2>1, ConnsFacts DEF Inv, TypeOK
  <2> QED BY <2>2 DEF Inv, Walked, SecretsToTrustedPeers
<1> QED BY <1>1, InvAlways, PTL

\* The hop an error names is the one in hand, plain Auth is the target's, and
\* a credential is blamed only behind an accepted key.
THEOREM BlameIsTheHopInHand == Spec => []BlamesTheHopInHand
<1>1. Init => BlamesTheHopInHand
  BY DEF Init, BlamesTheHopInHand
<1>2. Inv /\ BlamesTheHopInHand /\ [Next]_vars => BlamesTheHopInHand'
  <2> SUFFICES ASSUME Inv, BlamesTheHopInHand, [Next]_vars PROVE BlamesTheHopInHand'
    OBVIOUS
  <2> USE ConnsFacts DEF BlamesTheHopInHand, Inv, TypeOK, Progress, held, links
  <2>1. CASE OpenRefused \/ OpenLost \/ KexNoOverlap \/ KexLost \/ Refused
             \/ ChannelRefused \/ ShellLost
    BY <2>1 DEF OpenRefused, OpenLost, KexNoOverlap, KexLost, Refused, ChannelRefused,
       ShellLost, Fail
  <2>2. CASE BadPem \/ AuthRejected \/ AuthLost
    BY <2>2 DEF BadPem, AuthRejected, AuthLost, AuthFailed, Fail
  <2>3. CASE Opened \/ KexReply \/ Verified \/ SendSecret \/ AuthAccepted
             \/ ChannelOpened \/ Requested("pty", "shell") \/ Requested("shell", "done")
    BY <2>3 DEF Opened, KexReply, Verified, SendSecret, AuthAccepted, NextHop,
       KeepTarget, ChannelOpened, Requested, Advance
  <2>4. CASE Links BY <2>4 DEF Links, Breaks, Orphaned, Dropped
  <2>5. CASE Returned \/ UNCHANGED vars BY <2>5 DEF Returned, vars
  <2> QED BY <2>1, <2>2, <2>3, <2>4, <2>5 DEF Next, Hop, Shell
<1> QED BY <1>1, <1>2, InvAlways, PTL DEF Spec
=============================================================================
