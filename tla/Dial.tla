-------------------------------- MODULE Dial --------------------------------
(***************************************************************************)
(* SshSpikeSession::connect: connect_inner's walk along the dial list with *)
(* ProbeHandler::check_server_key, authenticate and map_connect_error.     *)
(*                                                                         *)
(* Hop i of the list is dialed through hop i - 1 (the first through a      *)
(* socket), has its host key put to the caller's verifier, authenticates   *)
(* with its own credential and becomes a parent; the last one is the       *)
(* target and gets the PTY and the shell. Any link may break at any step,  *)
(* and a connection ends with the one it rides. A connection stands as     *)
(* long as somebody holds its handle: it moves from the hop in hand to the *)
(* parents or the target and from there into the session, and a `?` that   *)
(* leaves connect_inner drops what is there.                               *)
(***************************************************************************)
EXTENDS Integers, Sequences, FiniteSets

CONSTANTS
  Hops,     \* length of the dial list: the jumps, then the target
  Keys,     \* host keys a peer may present
  NoKey,    \* none presented yet
  Trusted,  \* Trusted[i]: the keys the caller's verifier accepts for endpoint i
  KeyAuth   \* the hops whose credential is a private key; the others' a password

ASSUME DialAssumption ==
  /\ Hops \in Nat \ {0}
  /\ NoKey \notin Keys
  /\ Trusted \in [1..Hops -> SUBSET Keys]
  /\ KeyAuth \subseteq 1..Hops

Conns  == 1..Hops
Target == Hops

VARIABLES
  at,       \* the hop in hand
  stage,    \* how far it is
  conn,     \* each connection: "none" before it exists, then "up" and "down"
  key,      \* the host key the peer behind each connection presented
  secrets,  \* the hops a credential was put on the wire for
  inHand,   \* the handle in hand: connect's own, then the local conn; 0 for none
  parents,  \* the jump hops held so far, outermost first
  target,   \* the target's handle, once there is one
  err,      \* what connect returned, if it failed
  cause     \* what had really happened

links == <<conn, key, secrets>>
held  == <<inHand, parents, target>>
vars  == <<at, stage, conn, key, secrets, inHand, parents, target, err, cause>>

Stages == {"open", "kex", "verify", "auth", "authWait", "channel", "pty", "shell",
           "done", "failed"}
Kinds  == {"Connect", "NoCommonAlgorithm", "HostKeyRejected", "Auth", "Channel"}
Causes == {"unreachable", "noOverlap", "mistrusted", "unreadable", "badPem", "rejected",
           "lost"}

\* jump names the hop in the message, 0 for the target's plain wording.
Error == [kind : Kinds, jump : 0..Hops]
None  == [kind |-> "none", jump |-> 0]

TypeOK ==
  /\ at \in Conns
  /\ stage \in Stages
  /\ conn \in [Conns -> {"none", "up", "down"}]
  /\ key \in [Conns -> Keys \cup {NoKey}]
  /\ secrets \subseteq Conns
  /\ inHand \in Conns \cup {0}
  /\ parents \in Seq(Conns)
  /\ target \in {0, Target}
  /\ err \in Error \cup {None}
  /\ cause \in Causes \cup {"none"}

Init ==
  /\ at = 1 /\ stage = "open"
  /\ conn = [i \in Conns |-> "none"] /\ key = [i \in Conns |-> NoKey] /\ secrets = {}
  /\ inHand = 0 /\ parents = <<>> /\ target = 0
  /\ err = None /\ cause = "none"

\* The connections somebody has the handle of.
Owned == {parents[n] : n \in 1..Len(parents)} \cup ({target, inHand} \ {0})

\* The hops of a failed dial kept by somebody else than connect_inner, for
\* the next dial to use, say.
FailKeepsParents(kind, jump, why) ==
  /\ stage' = "failed"
  /\ err' = [kind |-> kind, jump |-> jump]
  /\ cause' = why
  /\ inHand' = 0 /\ target' = 0
  /\ UNCHANGED <<at, links, parents>>

\* The error leaves connect_inner, and its locals go out of scope.
Fail(kind, jump, why) ==
  /\ stage' = "failed"
  /\ err' = [kind |-> kind, jump |-> jump]
  /\ cause' = why
  /\ inHand' = 0 /\ parents' = <<>> /\ target' = 0
  /\ UNCHANGED <<at, links>>

Advance(next) == stage' = next /\ UNCHANGED <<at, held, err, cause>>
-----------------------------------------------------------------------------
(***************************************************************************)
(* One hop: the transport, the key exchange, the verifier.                 *)
(***************************************************************************)
\* The stream the hop rides: a socket, or a channel of the last parent.
Carrier == parents[Len(parents)]

\* Answers come from hop i only over every connection it rides.
Reachable(i) == \A j \in 1..i : conn[j] = "up"

Opened ==
  /\ stage = "open" /\ (at > 1 => Reachable(Carrier))
  /\ conn' = [conn EXCEPT ![at] = "up"]
  /\ stage' = "kex" /\ inHand' = at
  /\ UNCHANGED <<at, key, secrets, parents, target, err, cause>>

\* A refused socket is the plain transport error; a refused channel names the
\* hop that could not be reached.
OpenRefused ==
  /\ stage = "open" /\ (at > 1 => Reachable(Carrier))
  /\ Fail("Connect", IF at = 1 THEN 0 ELSE at, "unreachable")

OpenLost ==
  /\ stage = "open" /\ at > 1 /\ conn[Carrier] = "down"
  /\ Fail("Connect", at, "lost")

\* The peer presents whatever key it has.
KexReply ==
  /\ stage = "kex" /\ Reachable(at)
  /\ \E k \in Keys : key' = [key EXCEPT ![at] = k]
  /\ Advance("verify")
  /\ UNCHANGED <<conn, secrets>>

KexNoOverlap ==
  /\ stage = "kex" /\ Reachable(at)
  /\ Fail("NoCommonAlgorithm", 0, "noOverlap")

KexLost ==
  /\ stage \in {"kex", "verify"} /\ conn[at] = "down"
  /\ Fail("Connect", 0, "lost")

\* One endpoint for the whole chain: the verifier is asked about the target.
AcceptsForTarget == key[at] \in Trusted[Target]

\* Every hop's handler carries the hop's own endpoint to the one verifier.
Accepts == key[at] \in Trusted[at]

Verified ==
  /\ stage = "verify" /\ conn[at] = "up" /\ Accepts
  /\ Advance("auth")
  /\ UNCHANGED links

\* The verifier's false, and a key that cannot be encoded for it, both come
\* back from russh as UnknownKey.
Refused ==
  /\ stage = "verify"
  /\ \/ ~Accepts /\ Fail("HostKeyRejected", 0, "mistrusted")
     \/ Fail("HostKeyRejected", 0, "unreadable")
-----------------------------------------------------------------------------
(***************************************************************************)
(* One hop: its credential.                                                *)
(***************************************************************************)
\* Every authentication failure in the plain wording.
AuthUnlabelled(why) == Fail("Auth", 0, why)

\* A jump hop's failure is re-labelled with the hop, the target's is not.
AuthFailed(why) == Fail("Auth", IF at = Target THEN 0 ELSE at, why)

\* decode_secret_key runs before anything is sent.
BadPem ==
  /\ stage = "auth" /\ at \in KeyAuth
  /\ AuthFailed("badPem")

SendSecret ==
  /\ stage = "auth" /\ conn[at] = "up"
  /\ secrets' = secrets \cup {at}
  /\ Advance("authWait")
  /\ UNCHANGED <<conn, key>>

AuthRejected ==
  /\ stage = "authWait" /\ Reachable(at)
  /\ AuthFailed("rejected")

\* authenticate turns the transport's error into an Auth error too.
AuthLost ==
  /\ stage \in {"auth", "authWait"} /\ conn[at] = "down"
  /\ AuthFailed("lost")

\* The handle in hand moves to the parents, and the walk to the next hop.
NextHop(kept) ==
  /\ parents' = kept /\ inHand' = 0
  /\ at' = at + 1 /\ stage' = "open"
  /\ UNCHANGED target

\* The handle in hand is the target's, and the walk is over.
KeepTarget ==
  /\ target' = at /\ inHand' = 0
  /\ stage' = "channel"
  /\ UNCHANGED <<at, parents>>

\* The hop is kept before it has authenticated.
KeepEarly ==
  /\ stage \in {"auth", "authWait"} /\ Reachable(at)
  /\ IF at = Target THEN KeepTarget ELSE NextHop(Append(parents, at))
  /\ UNCHANGED <<links, err, cause>>

\* The hops kept innermost first.
KeepInFront ==
  /\ stage = "authWait" /\ Reachable(at)
  /\ IF at = Target THEN KeepTarget ELSE NextHop(<<at>> \o parents)
  /\ UNCHANGED <<links, err, cause>>

\* The end of the list found one hop late.
KeepTargetToo ==
  /\ stage = "authWait" /\ Reachable(at)
  /\ NextHop(Append(parents, at))
  /\ UNCHANGED <<links, err, cause>>

\* A jump hop becomes a parent and the walk goes on; the target ends it.
AuthAccepted ==
  /\ stage = "authWait" /\ Reachable(at)
  /\ IF at = Target THEN KeepTarget ELSE NextHop(Append(parents, at))
  /\ UNCHANGED <<links, err, cause>>
-----------------------------------------------------------------------------
(***************************************************************************)
(* The shell on the target. Opening the channel waits for the server; the  *)
(* PTY and the shell are asked for without a reply.                        *)
(***************************************************************************)
ChannelOpened ==
  /\ stage = "channel" /\ Reachable(Target)
  /\ Advance("pty")
  /\ UNCHANGED links

ChannelRefused ==
  /\ stage = "channel" /\ Reachable(Target)
  /\ Fail("Channel", 0, "rejected")

Requested(from, to) ==
  /\ stage = from /\ conn[Target] = "up"
  /\ Advance(to)
  /\ UNCHANGED links

ShellLost ==
  /\ stage \in {"channel", "pty", "shell"} /\ conn[Target] = "down"
  /\ Fail("Channel", 0, "lost")

Shell ==
  \/ ChannelOpened \/ ChannelRefused \/ ShellLost
  \/ Requested("pty", "shell") \/ Requested("shell", "done")
-----------------------------------------------------------------------------
(***************************************************************************)
(* Links.                                                                  *)
(***************************************************************************)
Breaks(i) ==
  /\ conn[i] = "up"
  /\ conn' = [conn EXCEPT ![i] = "down"]
  /\ UNCHANGED <<at, stage, key, secrets, held, err, cause>>

\* The connection a hop rides has ended.
Orphaned(i) ==
  /\ i > 1 /\ conn[i] = "up" /\ conn[i - 1] = "down"
  /\ conn' = [conn EXCEPT ![i] = "down"]
  /\ UNCHANGED <<at, stage, key, secrets, held, err, cause>>

\* The last handle to a connection is gone, and the connection ends.
Dropped(i) ==
  /\ conn[i] = "up" /\ i \notin Owned
  /\ conn' = [conn EXCEPT ![i] = "down"]
  /\ UNCHANGED <<at, stage, key, secrets, held, err, cause>>
-----------------------------------------------------------------------------
Hop ==
  \/ Opened \/ OpenRefused \/ OpenLost \/ KexReply \/ KexNoOverlap \/ KexLost
  \/ Verified \/ Refused
  \/ BadPem \/ SendSecret \/ AuthRejected \/ AuthLost \/ AuthAccepted

Links == \E i \in Conns : Breaks(i) \/ Orphaned(i) \/ Dropped(i)

\* connect has returned, and nothing is left to end.
Returned == stage \in {"done", "failed"} /\ UNCHANGED vars

Next == Hop \/ Shell \/ Links \/ Returned

Spec == Init /\ [][Next]_vars

\* What the client does by itself: it asks the verifier, sends, takes note of
\* a dead transport; and a connection nobody holds ends. No answer is owed.
ClientFairness ==
  /\ WF_vars(Verified \/ Refused) /\ WF_vars(BadPem \/ SendSecret)
  /\ WF_vars(OpenLost \/ KexLost \/ AuthLost \/ ShellLost)
  /\ WF_vars(Requested("pty", "shell") \/ Requested("shell", "done"))
  /\ \A i \in Conns : WF_vars(Orphaned(i)) /\ WF_vars(Dropped(i))

FairSpec == Spec /\ ClientFairness
-----------------------------------------------------------------------------
(***************************************************************************)
(* Properties.                                                             *)
(***************************************************************************)
\* A credential goes out only to a peer whose key the caller's verifier
\* accepted for that very endpoint, although one verifier serves the chain.
SecretsToTrustedPeers == \A i \in secrets : key[i] \in Trusted[i]

\* While the walk lasts, connect_inner holds exactly the hops before the one
\* in hand, in order, and a handle of every connection that stands: the two
\* expects cannot fail, the next hop is carried by the one right before it,
\* nothing is dropped under the walk, and a session that is returned owns its
\* chain.
HoldsItsChain ==
  stage # "failed" =>
    /\ parents = [j \in 1..(at - 1) |-> j]
    /\ target = Target <=> stage \in {"channel", "pty", "shell", "done"}
    /\ \A i \in Conns : conn[i] = "up" => i \in Owned

\* No hop is dialed before every hop it rides was verified and was sent its
\* credential.
HopsInTurn ==
  \A i \in Conns : conn[i] # "none" =>
    \A j \in 1..(i - 1) : j \in secrets /\ key[j] \in Trusted[j]

\* A hop named in an error is the hop in hand, a plain Auth error is the
\* target's, nothing is blamed on a credential before the host key passed,
\* a rejection is of a credential that was sent, and a bad key file is found
\* before anything is.
BlamesTheHopInHand ==
  stage = "failed" =>
    /\ err.jump \in {0, at}
    /\ err.kind = "Auth" => (err.jump = 0 <=> at = Target)
    /\ err.kind = "Auth" => key[at] \in Trusted[at]
    /\ err.kind = "Auth" /\ cause = "rejected" => at \in secrets
    /\ cause = "badPem" => err.kind = "Auth" /\ at \notin secrets

\* A failed connect leaves no connection of the chain open: wherever the dial
\* had got to, nobody has kept the handle of a hop.
FailureLeavesNothing ==
  stage = "failed" ~> \A i \in Conns : conn[i] # "up"
=============================================================================
