------------------------------ MODULE TcpConn -------------------------------
(***************************************************************************)
(* The functions of net/tcp.c that work on one struct tcp_connection, as   *)
(* operators from connection records to connection records.  They keep the *)
(* names of the code; module Tcp turns the entry points into actions.      *)
(*                                                                         *)
(* Data is abstracted to stream positions.  A transmit buffer is the       *)
(* position of its last byte, and tx_pos is the position up to which the   *)
(* front buffer has been consumed; a received segment carries the position *)
(* of its first byte.  Timestamps, MSS and checksums are left out: they    *)
(* touch none of the state below.                                          *)
(***************************************************************************)
EXTENDS TcpSeq

CONSTANTS
    ISS,                 \* initial sequence number chosen by tcp_open
    TCP_PATH_MTU,        \* largest payload of one transmitted segment
    TCP_MAX_WINDOW_SIZE, \* largest receive window
    WindowField,         \* largest value of the header's window field (0xffff)
    WindowScale,         \* 2^TCP_RX_WINDOW_SCALE
    WindowAlign,         \* receive windows are multiples of this (4)
    AppWindows,          \* what the application's xfer_window() may return
    TxBytes,             \* bytes the application may send in all
    Fates                \* fates of transmitted segments, see Environments

ASSUME TcpConnAssumption ==
    /\ ISS \in SeqNo
    /\ {TCP_PATH_MTU, TCP_MAX_WINDOW_SIZE, WindowField} \subseteq Nat
    /\ WindowScale \in Nat \ {0} /\ WindowAlign \in Nat \ {0}
    /\ AppWindows \subseteq Nat /\ TxBytes \in Nat
    /\ Fates \subseteq {"noiob", "squeezed", "txfail", "sent"}

Minimum(a, b) == IF a < b THEN a ELSE b
Maximum(a, b) == IF a > b THEN a ELSE b

-----------------------------------------------------------------------------
(* Connection state: the flags sent, acknowledged and received.            *)

Flags == {"SYN", "ACK", "FIN", "RST"}

State(sent, acked, rcvd) == [sent |-> sent, acked |-> acked, rcvd |-> rcvd]

TCP_CLOSED      == State({"RST"}, {}, {})
TCP_SYN_SENT    == State({"SYN"}, {}, {})
TCP_SYN_RCVD    == State({"SYN", "ACK"}, {}, {"SYN"})
TCP_ESTABLISHED == State({"SYN", "ACK"}, {"SYN"}, {"SYN"})
TCP_FIN_WAIT_1  == State({"SYN", "ACK", "FIN"}, {"SYN"}, {"SYN"})
TCP_FIN_WAIT_2  == State({"SYN", "ACK", "FIN"}, {"SYN", "FIN"}, {"SYN"})
TCP_CLOSING_OR_LAST_ACK ==
    State({"SYN", "ACK", "FIN"}, {"SYN"}, {"SYN", "FIN"})
TCP_TIME_WAIT   == State({"SYN", "ACK", "FIN"}, {"SYN", "FIN"}, {"SYN", "FIN"})
TCP_CLOSE_WAIT  == State({"SYN", "ACK"}, {"SYN"}, {"SYN", "FIN"})

TCP_FLAGS_SENDING(st) == st.sent \ st.acked
TCP_CAN_SEND_DATA(st) == "SYN" \in st.acked /\ "FIN" \notin st.sent
TCP_HAS_BEEN_ESTABLISHED(st) == "SYN" \in st.acked /\ "SYN" \in st.rcvd
TCP_CLOSED_GRACEFULLY(st) == "FIN" \in st.acked /\ "FIN" \in st.rcvd

(* struct tcp_connection.  "listed": on the list of connections; "timer",   *)
(* "keepalive", "wait", "process": running; "count": of the retransmission *)
(* timer; "rc": the reason with which the application has been closed.     *)
Reasons == {"none", "app", "ok", "timeout", "reset", "cancel"}

QueuedPacket ==
    [seq : SeqNo, nxt : SeqNo, fin : BOOLEAN, pos : Nat, len : Nat]

Connection ==
    [listed : BOOLEAN, rc : Reasons,
     state : [sent : SUBSET Flags, acked : SUBSET Flags, rcvd : SUBSET Flags],
     xfer_closed : BOOLEAN, ack_pending : BOOLEAN, sack_enabled : BOOLEAN,
     snd_seq : SeqNo, snd_sent : Nat, snd_win : Nat,
     rcv_ack : SeqNo, rcv_win : Nat, rcv_scale : {1, WindowScale},
     tx_queue : Seq(Nat), tx_pos : Nat, rx_queue : Seq(QueuedPacket),
     process : BOOLEAN, timer : BOOLEAN, count : Nat,
     keepalive : BOOLEAN, wait : BOOLEAN,
     pending_flags : Nat, pending_data : Nat]

(* tcp->pending_flags and tcp->pending_data are counters (core/pending.c)  *)
pending_get(n) == n + 1

pending_put(n) == IF n > 0 THEN n - 1 ELSE 0

(* stop_timer undoes one expiry of a running timer (net/retry.c)           *)
stop_timer(c) ==
    IF c.timer THEN [c EXCEPT !.timer = FALSE, !.count = pending_put(@)] ELSE c

-----------------------------------------------------------------------------
(* Transmit data path.                                                     *)

tcp_xmit_win(c) ==
    IF TCP_CAN_SEND_DATA(c.state) THEN Minimum(c.snd_win, TCP_PATH_MTU) ELSE 0

tcp_xfer_window(c) == IF c.tx_queue # <<>> THEN 0 ELSE tcp_xmit_win(c)

TxLen(c) ==
    IF c.tx_queue = <<>> THEN 0 ELSE c.tx_queue[Len(c.tx_queue)] - c.tx_pos

(* How many entries of a queue a loop passes that stops at the first one   *)
(* whose index is in stop                                                  *)
Preceding(q, stop) ==
    LET first == {i \in stop : \A j \in 1..(i - 1) : j \notin stop}
    IN  IF first = {} THEN Len(q) ELSE (CHOOSE i \in first : TRUE) - 1

(* Mutant: a buffer acknowledged in part is dropped as a whole *)
DropTouched(c, len) ==
    LET gone == Preceding(c.tx_queue,
                  {i \in DOMAIN c.tx_queue :
                    i > 1 /\ c.tx_queue[i - 1] >= c.tx_pos + len})
    IN  IF len = 0 \/ c.tx_queue = <<>> THEN c
        ELSE [c EXCEPT !.tx_pos = c.tx_queue[gone],
                       !.tx_queue = SubSeq(@, gone + 1, Len(@)),
                       !.pending_data = Maximum(0, @ - gone)]

(* Remove len bytes from the front of the queue, dropping emptied buffers  *)
tcp_process_tx_queue(c, len) ==
    LET pos  == c.tx_pos + Minimum(len, TxLen(c))
        gone == Preceding(c.tx_queue,
                  {i \in DOMAIN c.tx_queue : c.tx_queue[i] > pos})
    IN  [c EXCEPT !.tx_pos = pos,
                  !.tx_queue = SubSeq(@, gone + 1, Len(@)),
                  !.pending_data = Maximum(0, @ - gone)]

(* Mutant: the window follows the application's, and so may shrink *)
FollowWindow(c, app_win) ==
    LET app == IF c.xfer_closed THEN TCP_MAX_WINDOW_SIZE
               ELSE Minimum(app_win, TCP_MAX_WINDOW_SIZE)
        max == Minimum(app, WindowField * c.rcv_scale)
    IN  [c EXCEPT !.rcv_win = max - (max % WindowAlign)]

(* Expand the receive window, never shrinking it.  A closed interface has  *)
(* an unlimited window.                                                    *)
ExpandWindow(c, app_win) ==
    LET app == IF c.xfer_closed THEN TCP_MAX_WINDOW_SIZE
               ELSE Minimum(app_win, TCP_MAX_WINDOW_SIZE)
        max == Minimum(app, WindowField * c.rcv_scale)
    IN  [c EXCEPT !.rcv_win = Maximum(@, max - (max % WindowAlign))]

(* Sequence space that tcp_xmit_sack would send now *)
XmitSeqLen(c) ==
    LET len == Minimum(tcp_xmit_win(c), TxLen(c))
    IN  IF TCP_FLAGS_SENDING(c.state) \cap {"SYN", "FIN"} # {}
        THEN len + 1 ELSE len

(* Under memory pressure the newest queued packet is thrown away *)
tcp_discard(c) ==
    IF c.rx_queue = <<>> THEN c ELSE [c EXCEPT !.rx_queue = SubSeq(@, 1, Len(@) - 1)]

(* What the surroundings of tcp_xmit_sack decide: the application's        *)
(* window, and the packet's fate.  "noiob": no buffer could be allocated;  *)
(* "squeezed": it was, after the allocator discarded a queued packet;      *)
(* "txfail": the network layer refused the packet.                         *)
Environments == [app_win : AppWindows, fate : Fates]

(* The result of tcp_xmit_sack: the connection, whether a header has been  *)
(* built and whether the segment left the host.  The SACK list the header  *)
(* carries is kept by module Tcp, as nothing else depends on it.           *)
Result(c, built, sent) == [c |-> c, built |-> built, sent |-> sent]

(* Mutant: the retransmission timer is started after the transmission *)
XmitThenTimer(c, env) ==
    LET seq_len == XmitSeqLen(c)
        sized   == [c EXCEPT !.snd_sent = seq_len]
        alloced == IF env.fate = "squeezed" THEN tcp_discard(sized) ELSE sized
        opened  == ExpandWindow(alloced, env.app_win)
    IN  IF c.timer THEN Result(c, FALSE, FALSE)
        ELSE IF (seq_len = 0 /\ ~c.ack_pending) \/ env.fate = "noiob"
             THEN Result(sized, FALSE, FALSE)
        ELSE IF env.fate = "txfail" THEN Result(opened, TRUE, FALSE)
        ELSE Result([opened EXCEPT !.ack_pending = FALSE,
                                   !.timer = seq_len > 0], TRUE, TRUE)

tcp_xmit_sack(c, env) ==
    LET seq_len == XmitSeqLen(c)
        sized   == [c EXCEPT !.snd_sent = seq_len, !.timer = seq_len > 0]
        alloced == IF env.fate = "squeezed" THEN tcp_discard(sized) ELSE sized
        opened  == ExpandWindow(alloced, env.app_win)
    IN  IF c.timer THEN Result(c, FALSE, FALSE)
        ELSE IF (seq_len = 0 /\ ~c.ack_pending) \/ env.fate = "noiob"
             THEN Result(sized, FALSE, FALSE)
        ELSE IF env.fate = "txfail" THEN Result(opened, TRUE, FALSE)
        ELSE Result([opened EXCEPT !.ack_pending = FALSE], TRUE, TRUE)

-----------------------------------------------------------------------------
(* Closing.                                                                *)

(* Mutant: the FIN is counted again each time *)
FinAgain(c) ==
    IF c.tx_queue = <<>>
    THEN [c EXCEPT !.state.sent = @ \cup {"FIN"},
                   !.pending_flags = pending_get(@)]
    ELSE c

(* Mutant: the FIN is not counted as a pending operation *)
FinUncounted(c) ==
    IF c.tx_queue = <<>> THEN [c EXCEPT !.state.sent = @ \cup {"FIN"}] ELSE c

(* The FIN is sent once the transmit queue is empty.  Returns c unchanged  *)
(* when it is not, or when the FIN has been sent already.                  *)
StartFin(c) ==
    IF c.tx_queue = <<>> /\ "FIN" \notin c.state.sent
    THEN [c EXCEPT !.state.sent = @ \cup {"FIN"},
                   !.pending_flags = pending_get(@)]
    ELSE c

(* Received acknowledgement.  Out of range covers old duplicates too.      *)
AckOutOfRange(c, ack) == Sub(ack, c.snd_seq) > c.snd_sent

tcp_rx_ack(c, ack, win) ==
    LET ack_len == Sub(ack, c.snd_seq)
        heard   == [c EXCEPT !.snd_win = win,
                             !.keepalive = c.keepalive \/ "FIN" \notin c.state.sent]
        flags   == TCP_FLAGS_SENDING(c.state) \cap {"SYN", "FIN"}
        stopped == [stop_timer(heard) EXCEPT
                      !.pending_flags = IF flags # {}
                                        THEN pending_put(c.pending_flags)
                                        ELSE c.pending_flags,
                      !.snd_seq = ack,
                      !.snd_sent = 0]
        drained == tcp_process_tx_queue(stopped,
                      IF flags # {} THEN ack_len - 1 ELSE ack_len)
        acked   == [drained EXCEPT !.state.acked = c.state.acked \cup flags]
    IN  IF AckOutOfRange(c, ack) THEN c
        ELSE IF ack_len = 0 THEN heard
        ELSE IF c.xfer_closed THEN StartFin(acked) ELSE acked

(* Mutant: the keepalive timer is forgotten *)
DeletedButAlive(c) ==
    LET drained == [c EXCEPT !.pending_data = Maximum(0, @ - Len(c.tx_queue)),
                             !.pending_flags = pending_put(pending_put(@)),
                             !.rx_queue = <<>>, !.tx_queue = <<>>]
    IN  [stop_timer(drained) EXCEPT
           !.state = TCP_CLOSED, !.process = FALSE,
           !.wait = FALSE, !.listed = FALSE]

(* Delete the connection: every queue, timer and pending operation goes    *)
Deleted(c) ==
    LET drained == [c EXCEPT !.pending_data = Maximum(0, @ - Len(c.tx_queue)),
                             !.pending_flags = pending_put(pending_put(@)),
                             !.rx_queue = <<>>, !.tx_queue = <<>>]
    IN  [stop_timer(drained) EXCEPT
           !.state = TCP_CLOSED, !.process = FALSE,
           !.keepalive = FALSE, !.wait = FALSE, !.listed = FALSE]

(* Mutant: an unacknowledged SYN is not taken as acknowledged *)
CloseWithoutPretence(c, rc) ==
    LET closed   == [c EXCEPT !.xfer_closed = TRUE, !.keepalive = FALSE,
                              !.rc = IF c.xfer_closed THEN c.rc ELSE rc]
        finished == StartFin(closed)
    IN  IF "SYN" \notin c.state.rcvd THEN Deleted(closed)
        ELSE [finished EXCEPT !.process = c.process \/ finished # closed]

(* Close with reason rc, which the application hears if it has not been    *)
(* closed before                                                           *)
tcp_close(c, rc) ==
    LET closed   == [c EXCEPT !.xfer_closed = TRUE,
                              !.rc = IF c.xfer_closed THEN c.rc ELSE rc]
        pretend  == IF "SYN" \in c.state.acked THEN closed
                    ELSE tcp_rx_ack(closed, Add(c.snd_seq, 1), 0)
        quiet    == [pretend EXCEPT !.keepalive = FALSE]
        finished == StartFin(quiet)
    IN  IF "SYN" \notin c.state.rcvd THEN Deleted(closed)
        ELSE [finished EXCEPT !.process = quiet.process \/ finished # quiet]

(* Mutant: the reason is lost *)
AbortWithSuccess(c, rc) == tcp_close([c EXCEPT !.state = TCP_CLOSED], "ok")

Abort(c, rc) == tcp_close([c EXCEPT !.state = TCP_CLOSED], rc)

-----------------------------------------------------------------------------
(* Receive data path.                                                      *)

tcp_rx_seq(c, seq_len) ==
    [c EXCEPT !.rcv_ack = Add(@, seq_len),
              !.rcv_win = Maximum(0, @ - seq_len),
              !.ack_pending = TRUE]

tcp_rx_syn(c, seg) ==
    LET first  == "SYN" \notin c.state.rcvd
        synced == IF first
                  THEN [c EXCEPT !.rcv_ack = seg.seq,
                                 !.sack_enabled = seg.spopt,
                                 !.rcv_scale = WindowScale]
                  ELSE c
    IN  IF seg.seq # synced.rcv_ack THEN synced
        ELSE [tcp_rx_seq(synced, 1) EXCEPT !.state.sent = @ \cup {"ACK"},
                                           !.state.rcvd = @ \cup {"SYN"}]

(* A reset counts if it is in the window, or, before the peer's SYN, if    *)
(* our SYN has been acknowledged                                           *)
RstAcceptable(c, seq) ==
    IF "SYN" \in c.state.rcvd
    THEN tcp_in_window(seq, c.rcv_ack, c.rcv_win)
    ELSE "SYN" \in c.state.acked

(* The packet is inserted before the first one that starts after it; the   *)
(* queue's order is what tcp_process_rx_queue relies on.                   *)
tcp_rx_enqueue(c, seq, seg) ==
    LET fin    == "FIN" \in seg.flags
        nxt    == Add(seq, seg.len + IF fin THEN 1 ELSE 0)
        entry  == [seq |-> seq, nxt |-> nxt, fin |-> fin,
                   pos |-> seg.pos, len |-> seg.len]
        passed == Preceding(c.rx_queue,
                    {i \in DOMAIN c.rx_queue :
                       tcp_cmp(seq, c.rx_queue[i].seq) < 0})
    IN  IF \/ "SYN" \notin c.state.rcvd
           \/ tcp_cmp(seq, Add(c.rcv_ack, c.rcv_win)) >= 0
           \/ tcp_cmp(nxt, c.rcv_ack) < 0
           \/ seg.len = 0 /\ ~fin
        THEN c
        ELSE [c EXCEPT !.rx_queue = SubSeq(@, 1, passed) \o <<entry>>
                                    \o SubSeq(@, passed + 1, Len(@))]

(* Mutant: the overlap with what has been received is ignored *)
NothingRcvd(c, q) == 0

(* Bytes of entry q that have been received before                         *)
AlreadyRcvd(c, q) == Sub(c.rcv_ack, q.seq)

(* tcp_rx_data up to the delivery: acknowledge what is new in q            *)
tcp_rx_data(c, q) ==
    IF AlreadyRcvd(c, q) >= q.len THEN c
    ELSE tcp_rx_seq(c, q.len - AlreadyRcvd(c, q))

tcp_rx_fin(c, seq) ==
    IF seq # c.rcv_ack THEN c
    ELSE tcp_close([tcp_rx_seq(c, 1) EXCEPT !.state.rcvd = @ \cup {"FIN"}],
                   "ok")

(* The data transfer interface methods called by the application *)
TxEnd(c) == c.tx_pos + TxLen(c)

tcp_xfer_deliver(c, len, env) ==
    tcp_xmit_sack([c EXCEPT !.tx_queue = Append(@, TxEnd(c) + len),
                       !.pending_data = pending_get(@)], env)

tcp_xfer_close(c, env) == tcp_xmit_sack(tcp_close(c, "app"), env)

(* What the application may do when tcp_rx calls it, or of its own accord: *)
(* nothing, allocate (discarding a packet), send len bytes, or close.      *)
Reactions(c) ==
    {[op |-> "none", len |-> 0], [op |-> "alloc", len |-> 0]}
    \cup IF c.xfer_closed THEN {}
         ELSE {[op |-> "close", len |-> 0]}
              \cup {[op |-> "send", len |-> n] : n \in 1..(TxBytes - TxEnd(c))}

React(c, r, env) ==
    CASE r.op = "none"  -> Result(c, FALSE, FALSE)
      [] r.op = "alloc" -> Result(tcp_discard(c), FALSE, FALSE)
      [] r.op = "send"  -> tcp_xfer_deliver(c, r.len, env)
      [] r.op = "close" -> tcp_xfer_close(c, env)

(* Mutant: packets that start before rcv_ack are not taken off the queue *)
ApplicableAtAck(c) ==
    c.rx_queue # <<>> /\ Head(c.rx_queue).seq = c.rcv_ack

(* The packet at the head of the receive queue can be processed            *)
Applicable(c) ==
    c.rx_queue # <<>> /\ tcp_cmp(Head(c.rx_queue).seq, c.rcv_ack) <= 0
=============================================================================
