-------------------------------- MODULE Tcp ---------------------------------
(***************************************************************************)
(* One TCP connection of iPXE (net/tcp.c), the application above it and a  *)
(* conforming peer behind a network that loses, duplicates, delays and     *)
(* reorders segments.                                                      *)
(*                                                                         *)
(* The entry points of tcp.c (socket opener, packet handler, timer         *)
(* callbacks, process step, interface methods, cache discarder, shutdown)  *)
(* are the actions.  iPXE runs them one at a time, so an entry point is    *)
(* one step, with one exception: tcp_rx calls up into the application,     *)
(* which may call back into the connection or allocate memory, and so      *)
(* discard queued packets, before tcp_rx goes on.  "pc" is the point       *)
(* tcp_rx has reached.                                                     *)
(*                                                                         *)
(* The network keeps no queue: since segments may be lost, repeated and    *)
(* delayed at will, what can arrive is everything the peer may have sent   *)
(* up to now.  Positions in either direction count sequence space from the *)
(* initial sequence number: 0 is the SYN, 1 the first byte.                *)
(***************************************************************************)
EXTENDS TcpConn

CONSTANTS
    PeerISS,         \* initial sequence number of the peer
    RxBytes,         \* length of the peer's stream
    PeerWindows,     \* windows the peer may advertise
    MaxRetries,      \* timer expiries before retry.c must report failure
    MaxRxQueue,      \* bound on rx_queue (explored instance only)
    SackPermitted,   \* the peer sends the SACK-permitted option
    PeerSyn          \* when the peer may send a SYN of its own: "never",
                     \* "crossing" ours on the network, or "early"

ASSUME TcpAssumption ==
    /\ PeerISS \in SeqNo
    /\ {RxBytes, MaxRetries, MaxRxQueue} \subseteq Nat
    /\ PeerWindows \subseteq Nat
    /\ SackPermitted \in BOOLEAN /\ PeerSyn \in {"never", "crossing", "early"}

VARIABLES
    tcp,        \* the connection
    pc,         \* where tcp_rx is: "idle", "queue" or "notify"
    sack,       \* the selective acknowledgement list of the connection
    rx,         \* locals of tcp_rx: SEQ and the old data-transfer window
    delivered,  \* positions of the bytes handed to the application
    shutting,   \* tcp_shutdown has closed the connection and is waiting
    wire,       \* what our segments have told the network so far
    peer_rcv    \* sequence space of ours the peer has received

vars == <<tcp, pc, sack, rx, delivered, shutting, wire, peer_rcv>>

-----------------------------------------------------------------------------
(* What a transmitted segment tells the peer: how far our sequence space   *)
(* extends, that its SYN is acknowledged, and the window it may fill.      *)
Advertise(w, c) ==
    LET acking == "ACK" \in TCP_FLAGS_SENDING(c.state)
        edge   == Sub(c.rcv_ack, PeerISS)
                  + (c.rcv_win - (c.rcv_win % c.rcv_scale))
    IN  [nxt  |-> Maximum(w.nxt, Sub(c.snd_seq, ISS) + c.snd_sent),
         est  |-> w.est \/ acking,
         edge |-> IF acking THEN Maximum(w.edge, edge) ELSE w.edge]

(* Take over the result of a transmission attempt whose first SACK block   *)
(* is the one of "seq", and the receive queue and sequence number it used. *)
(* tcp_rx_seq trims the SACK list whenever rcv_ack moves.                  *)
Transmitted(x, seq) ==
    /\ wire' = IF x.sent THEN Advertise(wire, x.c) ELSE wire
    /\ sack' = SackTrim(IF x.built /\ x.c.sack_enabled /\ x.c.rx_queue # <<>>
                        THEN tcp_sack(x.c.rx_queue, x.c.rcv_ack,
                                      SackTrim(sack, x.c.rcv_ack), seq)
                        ELSE sack,
                        tcp'.rcv_ack)

(* tcp_xmit: without an explicit first SACK *)
Transmit(x) == tcp' = x.c /\ Transmitted(x, x.c.rcv_ack)

-----------------------------------------------------------------------------
(* The connection before tcp_open: zalloc() *)
Fresh ==
    [listed |-> FALSE, rc |-> "none", state |-> TCP_CLOSED,
     xfer_closed |-> FALSE, ack_pending |-> FALSE, sack_enabled |-> FALSE,
     snd_seq |-> 0, snd_sent |-> 0, snd_win |-> 0,
     rcv_ack |-> 0, rcv_win |-> 0, rcv_scale |-> 1,
     tx_queue |-> <<>>, tx_pos |-> 0, rx_queue |-> <<>>,
     process |-> FALSE, timer |-> FALSE, count |-> 0,
     keepalive |-> FALSE, wait |-> FALSE,
     pending_flags |-> 0, pending_data |-> 0]

NoLocals == [seq |-> 0, old_win |-> 0]

Init ==
    /\ tcp = Fresh
    /\ pc = "idle"
    /\ sack = <<>>
    /\ rx = NoLocals
    /\ delivered = <<>>
    /\ shutting = FALSE
    /\ wire = [nxt |-> 0, est |-> FALSE, edge |-> 0]
    /\ peer_rcv = 0

Idle == pc = "idle" /\ tcp.listed

tcp_open ==
    /\ pc = "idle" /\ ~tcp.listed /\ tcp.rc = "none"
    /\ tcp' = [tcp EXCEPT !.listed = TRUE, !.state = TCP_SYN_SENT,
                          !.snd_seq = ISS, !.timer = TRUE,
                          !.pending_flags = pending_get(@)]
    /\ UNCHANGED <<pc, rx, delivered, sack, shutting, wire, peer_rcv>>

(* The application sends or closes, or some other part of iPXE allocates   *)
app_step(r, env) ==
    /\ Idle /\ r.op # "none"
    /\ Transmit(React(tcp, r, env))
    /\ UNCHANGED <<pc, rx, delivered, shutting, peer_rcv>>

(* The transmission process, PROC_DESC_ONCE(tcp_xmit) *)
process_step(env) ==
    /\ Idle /\ tcp.process
    /\ Transmit(tcp_xmit_sack([tcp EXCEPT !.process = FALSE], env))
    /\ UNCHANGED <<pc, rx, delivered, shutting, peer_rcv>>

(* The retransmission timer.  The first expiry, of a zero timeout, never   *)
(* reports failure; after MaxRetries expiries retry.c always does.         *)
tcp_expired(over, env) ==
    LET c == [tcp EXCEPT !.timer = FALSE, !.count = @ + 1]
    IN  /\ Idle /\ tcp.timer
        /\ IF over THEN tcp.count > 0 ELSE tcp.count < MaxRetries
        /\ Transmit(IF over THEN Result(Abort(c, "timeout"), FALSE, FALSE)
                    ELSE tcp_xmit_sack(c, env))
        /\ UNCHANGED <<pc, rx, delivered, shutting, peer_rcv>>

tcp_keepalive_expired(env) ==
    /\ Idle /\ tcp.keepalive
    /\ Transmit(tcp_xmit_sack([tcp EXCEPT !.ack_pending = TRUE], env))
    /\ UNCHANGED <<pc, rx, delivered, shutting, peer_rcv>>

tcp_wait_expired ==
    /\ Idle /\ tcp.wait
    /\ tcp' = Abort([tcp EXCEPT !.wait = FALSE], "ok")
    /\ UNCHANGED <<pc, rx, delivered, sack, shutting, wire, peer_rcv>>

(* tcp_shutdown closes the connection, lets it finish for a while, and     *)
(* finally deletes it                                                      *)
tcp_shutdown ==
    /\ Idle /\ ~shutting
    /\ shutting' = TRUE
    /\ tcp' = IF tcp.xfer_closed THEN tcp ELSE tcp_close(tcp, "cancel")
    /\ UNCHANGED <<pc, sack, rx, delivered, wire, peer_rcv>>

tcp_shutdown_finish ==
    /\ Idle /\ shutting
    /\ tcp' = Abort(tcp, "cancel")
    /\ UNCHANGED <<pc, rx, delivered, sack, shutting, wire, peer_rcv>>

-----------------------------------------------------------------------------
(* tcp_rx, first part: everything up to the receive queue.  A segment that *)
(* acknowledges nothing we sent is answered with a reset while the         *)
(* connection is not established, and changes nothing.                     *)
tcp_rx(seg) ==
    LET acked  == IF "ACK" \in seg.flags
                  THEN tcp_rx_ack(tcp, seg.ack, seg.win) ELSE tcp
        forced == [acked EXCEPT !.ack_pending =
                     @ \/ ("SYN" \in acked.state.rcvd
                           /\ seg.seq # acked.rcv_ack)]
        synced == IF "SYN" \in seg.flags THEN tcp_rx_syn(forced, seg)
                  ELSE forced
        seq    == IF "SYN" \in seg.flags THEN Add(seg.seq, 1) ELSE seg.seq
        reset  == "RST" \in seg.flags /\ RstAcceptable(synced, seq)
    IN  /\ Idle
        /\ Len(tcp.rx_queue) < MaxRxQueue \/ seg.seq = tcp.rcv_ack
        /\ "ACK" \in seg.flags /\ AckOutOfRange(tcp, seg.ack)
              => TCP_HAS_BEEN_ESTABLISHED(tcp.state)
        /\ \/ /\ reset
              /\ tcp' = Abort(synced, "reset")
              /\ UNCHANGED <<pc, rx>>
           \/ /\ ~reset
              /\ tcp' = tcp_rx_enqueue(synced, seq, seg)
              /\ pc' = "queue"
              /\ rx' = [seq |-> seq, old_win |-> tcp_xfer_window(tcp)]
        /\ sack' = SackTrim(sack, tcp'.rcv_ack)
        /\ UNCHANGED <<delivered, shutting, wire, peer_rcv>>

(* One turn of the loop of tcp_process_rx_queue: the packet at the head is *)
(* taken off the queue, its new data is delivered, the application reacts, *)
(* and the FIN is handled                                                  *)
tcp_process_rx_queue(r, env) ==
    LET q     == Head(tcp.rx_queue)
        taken == [tcp EXCEPT !.rx_queue = Tail(@)]
        skip  == AlreadyRcvd(tcp, q)
        fresh == ~tcp.xfer_closed /\ skip < q.len
        x     == React(tcp_rx_data(taken, q), r, env)
    IN  /\ pc = "queue" /\ Applicable(tcp)
        /\ fresh \/ r.op = "none"
        /\ delivered' = IF fresh
                        THEN delivered \o [i \in 1..(q.len - skip) |->
                                             q.pos + skip + (i - 1)]
                        ELSE delivered
        /\ tcp' = IF q.fin THEN tcp_rx_fin(x.c, Add(q.seq, q.len)) ELSE x.c
        /\ Transmitted(x, x.c.rcv_ack)
        /\ UNCHANGED <<pc, rx, shutting, peer_rcv>>

(* tcp_rx, last part: schedule or send the ACK, and start TIME_WAIT *)
tcp_rx_finish(env) ==
    LET x == IF tcp.rx_queue = <<>>
             THEN Result([tcp EXCEPT !.process = TRUE], FALSE, FALSE)
             ELSE tcp_xmit_sack(tcp, env)
        c == [x.c EXCEPT !.wait = @ \/ TCP_CLOSED_GRACEFULLY(x.c.state)]
    IN  /\ pc = "queue" /\ ~Applicable(tcp)
        /\ tcp' = c /\ Transmitted(x, rx.seq)
        /\ pc' = IF tcp_xfer_window(c) # rx.old_win THEN "notify" ELSE "idle"
        /\ rx' = NoLocals
        /\ UNCHANGED <<delivered, shutting, peer_rcv>>

(* xfer_window_changed: the application learns of the new window *)
xfer_window_changed(r, env) ==
    /\ pc = "notify"
    /\ Transmit(React(tcp, r, env))
    /\ pc' = "idle"
    /\ UNCHANGED <<rx, delivered, shutting, peer_rcv>>

-----------------------------------------------------------------------------
(* The peer and the network.                                               *)

Segment(flags, unit, len, acked, win) ==
    [flags |-> flags, seq |-> Add(PeerISS, unit), pos |-> unit, len |-> len,
     ack |-> Add(ISS, acked), win |-> win, spopt |-> SackPermitted]

(* The peer answers our SYN, again and again if need be *)
SynSegments ==
    {Segment({"SYN", "ACK"}, 0, 0, a, w) :
        a \in {1} \cap 1..peer_rcv, w \in PeerWindows}
    \cup {Segment({"SYN"}, 0, 0, 0, w) :
        w \in IF \/ PeerSyn = "early"
                 \/ PeerSyn = "crossing" /\ wire.nxt > 0
              THEN PeerWindows ELSE {}}

(* Once its SYN is acknowledged the peer sends any part of its stream that *)
(* fits the widest window we advertised, or probes one unit beyond it, and *)
(* its FIN after the last byte.  It may send every part again, cut up      *)
(* differently; and an older segment of its may be delivered late.         *)
DataSegments ==
    {seg \in {Segment({"ACK"} \cup fin, u, n, a, w) :
                fin \in {{}, {"FIN"}}, u \in 1..(RxBytes + 2), n \in 0..RxBytes,
                a \in 1..peer_rcv, w \in PeerWindows} :
        LET fin == "FIN" \in seg.flags
            end == seg.pos + seg.len
        IN  /\ wire.est
            /\ seg.len > 0 \/ fin => end <= RxBytes + 1
            /\ seg.len = 0 => end <= RxBytes + 2
            /\ fin => end = RxBytes + 1
            /\ end + (IF fin THEN 1 ELSE 0) <= wire.edge + 1}

(* A peer with no listener refuses our SYN; an established one may abort.  *)
ResetSegments ==
    {[Segment({"RST", "ACK"}, 0, 0, a, 0) EXCEPT !.seq = 0] :
        a \in IF "SYN" \in tcp.state.rcvd THEN {} ELSE {1} \cap 1..peer_rcv}
    \cup {Segment({"RST", "ACK"}, u, 0, a, w) :
        u \in IF wire.est THEN 1..Minimum(wire.edge, RxBytes + 2) ELSE {},
        a \in 1..peer_rcv, w \in PeerWindows}

PeerSegments == SynSegments \cup DataSegments \cup ResetSegments

(* Something we sent reaches the peer *)
peer_receive ==
    /\ pc = "idle"
    /\ \E n \in (peer_rcv + 1)..wire.nxt : peer_rcv' = n
    /\ UNCHANGED <<tcp, pc, sack, rx, delivered, shutting, wire>>

Next ==
    \/ tcp_open
    \/ \E env \in Environments :
          \/ process_step(env)
          \/ \E over \in BOOLEAN : tcp_expired(over, env)
          \/ tcp_keepalive_expired(env)
          \/ tcp_rx_finish(env)
          \/ \E r \in Reactions(tcp) :
                \/ app_step(r, env)
                \/ tcp_process_rx_queue(r, env)
                \/ xfer_window_changed(r, env)
    \/ tcp_wait_expired
    \/ tcp_shutdown
    \/ tcp_shutdown_finish
    \/ \E seg \in PeerSegments : tcp_rx(seg)
    \/ peer_receive

Spec == Init /\ [][Next]_vars

(* Fairness.  The main loop polls every process and timer again and again, *)
(* whatever else happens; tcp_rx runs to its end; allocations and          *)
(* transmissions do not fail for ever.                                     *)
Good == {env \in Environments :
            env.fate = "sent" /\ \A w \in AppWindows : w <= env.app_win}

Scheduling ==
    /\ SF_vars(\E env \in Good : process_step(env))
    /\ SF_vars(\E env \in Good : tcp_keepalive_expired(env))
    /\ SF_vars(\E over \in BOOLEAN, env \in Good : tcp_expired(over, env))
    /\ SF_vars(tcp_wait_expired)
    /\ WF_vars(\E r \in Reactions(tcp), env \in Environments :
                  tcp_process_rx_queue(r, env) \/ xfer_window_changed(r, env))
    /\ WF_vars(\E env \in Environments : tcp_rx_finish(env))

(* The network delivers what is sent often enough, and the peer repeats    *)
(* what we still need, with its newest acknowledgement, until it arrives:  *)
(* its SYN, the next part of its stream and, at the end, its FIN.          *)
Needed(seg) ==
    /\ seg.ack = Add(ISS, peer_rcv)
    /\ IF "SYN" \in tcp.state.rcvd
       THEN seg.seq = tcp.rcv_ack /\ (seg.len > 0 \/ "FIN" \in seg.flags)
       ELSE "SYN" \in seg.flags

Network ==
    /\ SF_vars(peer_receive)
    /\ SF_vars(\E seg \in SynSegments \cup DataSegments :
                  Needed(seg) /\ tcp_rx(seg))

FairSpec == Spec /\ Scheduling /\ Network

-----------------------------------------------------------------------------
(* Properties.                                                             *)

(* Every variable has its type. *)
TypeOK ==
    /\ tcp \in Connection
    /\ pc \in {"idle", "queue", "notify"}
    /\ rx \in [seq : SeqNo, old_win : Nat]
    /\ delivered \in Seq(Nat)
    /\ shutting \in BOOLEAN
    /\ wire \in [nxt : Nat, est : BOOLEAN, edge : Nat]
    /\ peer_rcv \in Nat

(* What the application has received is the beginning of the peer's        *)
(* stream, without gap, repetition or change of order, and while it is     *)
(* listening rcv_ack says exactly how much that is (tcp_rx_enqueue,        *)
(* tcp_process_rx_queue, tcp_rx_data, tcp_discard).                        *)
StreamInOrder ==
    /\ \A i \in DOMAIN delivered : delivered[i] = i
    /\ tcp.listed /\ "SYN" \in tcp.state.rcvd /\ ~tcp.xfer_closed
         => Sub(tcp.rcv_ack, PeerISS) = 1 + Len(delivered)

(* The application is told of a normal end of the stream (tcp_close with   *)
(* reason 0) only after it has been given the whole stream: a download cut *)
(* short is never taken for a complete one.                                *)
NoSilentTruncation == tcp.rc = "ok" => Len(delivered) = RxBytes

(* A byte leaves the transmit queue only when the peer has received it,    *)
(* and snd_seq counts exactly the SYN, the bytes removed from the queue    *)
(* and the FIN that have been acknowledged (tcp_rx_ack,                    *)
(* tcp_process_tx_queue).                                                  *)
AckedIsReceived ==
    LET one(f) == IF f \in tcp.state.acked THEN 1 ELSE 0
    IN  /\ tcp.tx_pos > 0 => tcp.tx_pos < peer_rcv
        /\ tcp.listed =>
             Sub(tcp.snd_seq, ISS) = one("SYN") + tcp.tx_pos + one("FIN")

(* Pending operations are counted exactly: one for each queued transmit    *)
(* buffer, one for an unacknowledged SYN and one for an unacknowledged     *)
(* FIN; the "sync" command waits for their number to become zero.          *)
PendingExact ==
    tcp.listed =>
      /\ tcp.pending_data = Len(tcp.tx_queue)
      /\ tcp.pending_flags =
           IF {"SYN", "FIN"} \subseteq TCP_FLAGS_SENDING(tcp.state) THEN 2
           ELSE IF {"SYN", "FIN"} \cap TCP_FLAGS_SENDING(tcp.state) # {}
                THEN 1 ELSE 0

(* A connection removed from the list has nothing left that could call     *)
(* back into it or keep it pending: tcp_close's deletion is complete, and  *)
(* the transmissions attempted after it start nothing again.               *)
DeletedIsQuiet ==
    ~tcp.listed =>
      /\ ~tcp.timer /\ ~tcp.keepalive /\ ~tcp.wait /\ ~tcp.process
      /\ tcp.pending_flags = 0 /\ tcp.pending_data = 0
      /\ tcp.tx_queue = <<>> /\ tcp.rx_queue = <<>>

(* The assertions of tcp_expired and tcp_wait_expired: in which states     *)
(* those timers may be running.                                            *)
TimerStates ==
    /\ tcp.timer => tcp.state \in {TCP_SYN_SENT, TCP_SYN_RCVD,
                                  TCP_ESTABLISHED, TCP_FIN_WAIT_1,
                                  TCP_CLOSE_WAIT, TCP_CLOSING_OR_LAST_ACK}
    /\ tcp.wait => tcp.state = TCP_TIME_WAIT

(* The assertion of tcp_xmit_sack: SYN and FIN are never both being sent.  *)
NeverSynAndFin == ~({"SYN", "FIN"} \subseteq TCP_FLAGS_SENDING(tcp.state))

(* Whenever the stack is idle, sequence space that could be sent, or has   *)
(* been sent and not acknowledged, has a running retransmission timer or a *)
(* scheduled transmission: nothing is forgotten when a buffer cannot be    *)
(* allocated, a packet is refused or a partial ACK stops the timer.        *)
WorkIsScheduled ==
    pc = "idle" /\ tcp.listed
    /\ (XmitSeqLen(tcp) > 0 \/ wire.nxt > Sub(tcp.snd_seq, ISS))
      => tcp.timer \/ tcp.process

(* Data the peer was once allowed to send stays acceptable: the right edge *)
(* of the receive window never moves left of one that was advertised       *)
(* (tcp_rx_seq, and the window expansion in tcp_xmit_sack).                *)
WindowKept ==
    tcp.listed /\ wire.est
      => wire.edge <= Sub(tcp.rcv_ack, PeerISS) + tcp.rcv_win

(* struct tcp_connection: snd_sent is "Equivalent to (SND.NXT-SND.UNA) in  *)
(* RFC 793 terminology".                                                   *)
SndSentIsOutstanding ==
    tcp.listed /\ tcp.timer /\ tcp.snd_sent > 0
      => Sub(tcp.snd_seq, ISS) + tcp.snd_sent >= wire.nxt

(* Whatever SACK list the next segment would carry is honest: at most      *)
(* TCP_SACK_MAX blocks, disjoint and not empty, covering only data that is *)
(* in the receive queue and, once the queue has been processed, the first  *)
(* one the block of the segment that triggered it (tcp_sack,               *)
(* tcp_sack_block, tcp_rx_seq, tcp_discard).                               *)
SackHonest ==
    LET Span(from, to) == {Add(from, i) : i \in 0..(Sub(to, from) - 1)}
        Held == UNION {Span(tcp.rx_queue[i].seq, tcp.rx_queue[i].nxt) :
                         i \in DOMAIN tcp.rx_queue}
    IN  \A seq \in {rx.seq, tcp.rcv_ack} :
          LET new == tcp_sack(tcp.rx_queue, tcp.rcv_ack, sack, seq)
              Block(i) == Span(new[i].left, new[i].right)
          IN  /\ Len(new) <= TCP_SACK_MAX
              /\ \A i \in DOMAIN new :
                   /\ Block(i) # {} /\ Block(i) \subseteq Held
                   /\ \A j \in DOMAIN new : i # j => Block(i) \cap Block(j) = {}
              /\ seq \in Held /\ ~Applicable(tcp)
                   => new # <<>> /\ seq \in Block(1)

(* A connection that has been opened goes on to deliver the peer's whole   *)
(* stream, or is closed: no loss, reordering, discarded packet, failed     *)
(* allocation or closed window stalls the download for good.               *)
DownloadEnds ==
    tcp.listed ~> (Len(delivered) = RxBytes \/ tcp.rc # "none")

(* A closed connection is eventually deleted, with all its resources.      *)
ClosedIsDeleted == tcp.xfer_closed ~> ~tcp.listed
=============================================================================
