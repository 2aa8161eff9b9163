------------------------------- MODULE Tunnel -------------------------------
(***************************************************************************)
(* One WebSocket tunnel (pqc-proxy/src/websocket.rs): the upgraded client, *)
(* the connection to the upstream, and the two futures that forward frames *)
(* under one select!.                                                      *)
(*                                                                         *)
(* The direction "up" reads the client and writes to the upstream, "down"  *)
(* the other way round; a source is named after the direction that reads   *)
(* it.  A source numbers its frames, and the last one of a source that     *)
(* closes is its Close.  Answers the WebSocket libraries give by           *)
(* themselves, a Pong or the Close that acknowledges one, are theirs and   *)
(* not frames of the tunnel.  Some destinations may stop reading: sending  *)
(* to those may block for ever, as nothing in the tunnel bounds it.        *)
(***************************************************************************)
EXTENDS Naturals, Sequences

CONSTANT MaxFrames  \* bound on the frames of a source, its Close not counted

ASSUME TunnelAssumption == MaxFrames \in Nat

VARIABLES
    phase,      \* "connecting", "running", "ended"
    source,     \* source[d]: "open", "closed" after a Close frame, or "broken"
    sent,       \* sent[d]: frames the source has sent
    taken,      \* taken[d]: frames the future of d has read
    held,       \* held[d]: the frame it has read and not sent yet, or 0
    delivered,  \* delivered[d]: the frames its destination was sent, in order
    endedBy,    \* how the tunnel ended, and by which direction
    stalled     \* environment: the directions whose destination may not read

tunnelVars == <<phase, source, sent, taken, held, delivered, endedBy, stalled>>

Direction == {"up", "down"}
Other(d) == IF d = "up" THEN "down" ELSE "up"

----------------------------------------------------------------------------
TunnelTypeOK ==
    /\ phase \in {"connecting", "running", "ended"}
    /\ source \in [Direction -> {"open", "closed", "broken"}]
    /\ sent \in [Direction -> 0..(MaxFrames + 1)]
    /\ taken \in [Direction -> 0..(MaxFrames + 1)]
    /\ held \in [Direction -> 0..(MaxFrames + 1)]
    /\ delivered \in [Direction -> Seq(1..(MaxFrames + 1))]
    /\ endedBy \in [direction : Direction \cup {"none"},
                    how : {"none", "finished", "failed", "unconnected", "exit"}]
    /\ stalled \subseteq Direction

TunnelInit ==
    /\ phase = "connecting"
    /\ source = [d \in Direction |-> "open"]
    /\ sent = [d \in Direction |-> 0]
    /\ taken = [d \in Direction |-> 0]
    /\ held = [d \in Direction |-> 0]
    /\ delivered = [d \in Direction |-> <<>>]
    /\ endedBy = [direction |-> "none", how |-> "none"]
    /\ stalled \in SUBSET Direction

\* The tunnel is dropped with both sockets and all it has read and not sent.
EndTunnel(d, how) ==
    /\ phase' = "ended"
    /\ endedBy' = [direction |-> d, how |-> how]
    /\ UNCHANGED <<source, sent, taken, held, delivered, stalled>>

----------------------------------------------------------------------------
\* The two peers.  The upstream has no connection before "running".
CanSend(d) == source[d] = "open" /\ (d = "up" \/ phase # "connecting")

PeerSends(d) ==
    /\ phase # "ended"
    /\ CanSend(d)
    /\ sent[d] < MaxFrames
    /\ sent' = [sent EXCEPT ![d] = @ + 1]
    /\ UNCHANGED <<phase, source, taken, held, delivered, endedBy, stalled>>

PeerCloses(d) ==
    /\ phase # "ended"
    /\ CanSend(d)
    /\ sent' = [sent EXCEPT ![d] = @ + 1]
    /\ source' = [source EXCEPT ![d] = "closed"]
    /\ UNCHANGED <<phase, taken, held, delivered, endedBy, stalled>>

\* The connection goes without a Close.
PeerBreaks(d) ==
    /\ phase # "ended"
    /\ CanSend(d)
    /\ source' = [source EXCEPT ![d] = "broken"]
    /\ UNCHANGED <<phase, sent, taken, held, delivered, endedBy, stalled>>

----------------------------------------------------------------------------
\* connect_async.
Connect ==
    /\ phase = "connecting"
    /\ phase' = "running"
    /\ UNCHANGED <<source, sent, taken, held, delivered, endedBy, stalled>>

ConnectFails ==
    /\ phase = "connecting"
    /\ EndTunnel("none", "unconnected")

\* The future of d reads the next frame; each kind of frame has its counterpart.
ReadFrame(d) ==
    /\ phase = "running"
    /\ held[d] = 0
    /\ taken[d] < sent[d]
    /\ taken' = [taken EXCEPT ![d] = @ + 1]
    /\ held' = [held EXCEPT ![d] = taken'[d]]
    /\ UNCHANGED <<phase, source, sent, delivered, endedBy, stalled>>

\* Its destination has sent a Close, and the other future has read it.
CloseSeen(d) == source[d] = "closed" /\ taken[d] = sent[d]

\* Mutant of SendFrame: the future goes on reading while a frame is being sent,
\* and forgets that one.
SendFrame_Overtaken(d) ==
    /\ phase = "running"
    /\ held[d] # 0
    /\ ~CloseSeen(Other(d))
    /\ IF taken[d] < sent[d]
       THEN /\ taken' = [taken EXCEPT ![d] = @ + 1]
            /\ held' = [held EXCEPT ![d] = taken'[d]]
            /\ UNCHANGED delivered
       ELSE /\ delivered' = [delivered EXCEPT ![d] = Append(@, held[d])]
            /\ held' = [held EXCEPT ![d] = 0]
            /\ UNCHANGED taken
    /\ UNCHANGED <<phase, source, sent, endedBy, stalled>>

SendFrame(d) ==
    /\ phase = "running"
    /\ held[d] # 0
    /\ ~CloseSeen(Other(d))
    /\ delivered' = [delivered EXCEPT ![d] = Append(@, held[d])]
    /\ held' = [held EXCEPT ![d] = 0]
    /\ UNCHANGED <<phase, source, sent, taken, endedBy, stalled>>

\* Sending fails once the destination has closed or gone: the future of d ends,
\* and the select! drops the other one.
SendFails(d) ==
    /\ phase = "running"
    /\ held[d] # 0
    /\ source[Other(d)] = "broken" \/ CloseSeen(Other(d))
    /\ EndTunnel(d, "failed")

\* Mutant of SourceEnds: an error of the source is passed over.
SourceEnds_IgnoresErrors(d) ==
    /\ phase = "running"
    /\ held[d] = 0
    /\ taken[d] = sent[d]
    /\ source[d] = "closed"
    /\ EndTunnel(d, "finished")

\* Mutant of SourceEnds: the future ends as soon as the source has closed.
SourceEnds_AtOnce(d) ==
    /\ phase = "running"
    /\ held[d] = 0
    /\ \/ source[d] = "closed" /\ EndTunnel(d, "finished")
       \/ source[d] = "broken" /\ taken[d] = sent[d] /\ EndTunnel(d, "failed")

\* The stream of the source ends after its last frame: with a Close the future
\* closes its sink and returns, without one it returns the error.
SourceEnds(d) ==
    /\ phase = "running"
    /\ held[d] = 0
    /\ taken[d] = sent[d]
    /\ \/ source[d] = "closed" /\ EndTunnel(d, "finished")
       \/ source[d] = "broken" /\ EndTunnel(d, "failed")

\* The process ends.  The plain listener does not wait for tunnels.
GatewayExits ==
    /\ phase # "ended"
    /\ EndTunnel("none", "exit")

TunnelNext ==
    \/ \E d \in Direction : PeerSends(d)
    \/ \E d \in Direction : PeerCloses(d)
    \/ \E d \in Direction : PeerBreaks(d)
    \/ Connect
    \/ ConnectFails
    \/ \E d \in Direction : ReadFrame(d)
    \/ \E d \in Direction : SendFrame(d)
    \/ \E d \in Direction : SendFails(d)
    \/ \E d \in Direction : SourceEnds(d)
    \/ GatewayExits

TunnelSpec == TunnelInit /\ [][TunnelNext]_tunnelVars

\* The futures are polled when they can go on, and a destination that has not
\* stalled takes what it is sent.  Nothing says that connect_async returns: it has
\* no timeout, and an upstream may accept the connection and leave the upgrade
\* without an answer.
TunnelFairness ==
    \A d \in Direction :
        /\ WF_tunnelVars(ReadFrame(d))
        /\ WF_tunnelVars(d \notin stalled /\ SendFrame(d))
        /\ WF_tunnelVars(SendFails(d))
        /\ WF_tunnelVars(d \notin stalled /\ SourceEnds(d))

TunnelFairSpec == TunnelSpec /\ TunnelFairness

----------------------------------------------------------------------------
\* Whatever ends the tunnel, and when: a peer was sent a prefix of what the
\* other one sent, frame by frame, in order and nothing twice, and at most the
\* frame the future holds is neither with its destination nor still to be read
\* (websocket.rs 76-129).
InOrder ==
    \A d \in Direction :
        /\ delivered[d] = [i \in 1..Len(delivered[d]) |-> i]
        /\ taken[d] = Len(delivered[d]) + (IF held[d] = 0 THEN 0 ELSE 1)
        /\ taken[d] <= sent[d]

\* A peer that closes is heard to its end: when its own direction is the one
\* that ends the tunnel, everything it sent, the Close last, was sent on, also
\* what it had sent before the upstream was connected (websocket.rs 79-97).
CloserIsHeard ==
    endedBy.how = "finished" =>
        LET d == endedBy.direction IN
        source[d] = "closed" /\ Len(delivered[d]) = sent[d]

\* Once a peer of a connected tunnel has closed or gone the tunnel ends, unless the
\* other peer does not read: then its direction may be caught in send, and nobody
\* looks at the socket of the peer that is gone.  While the upstream is being
\* connected nobody looks at the client either (websocket.rs 41, 52-65).
EndsWithEitherSide ==
    \A d \in Direction :
        (phase = "running" /\ source[d] # "open" /\ d \notin stalled) ~> phase = "ended"
=============================================================================
