------------------------------- MODULE TcpConnInv ---------------------------
(***************************************************************************)
(* What the inductive invariants of module TcpInv say of one connection    *)
(* record.                                                                 *)
(***************************************************************************)
EXTENDS TcpConn

(* A loop over q that looks for what ends beyond a position p finds it, if *)
(* the last entry does                                                     *)
Searchable(q) ==
    q # <<>> =>
      \A p \in 0..(q[Len(q)] - 1) :
        \E n \in 1..Len(q) : q[n] > p /\ \A j \in 1..(n - 1) : q[j] <= p

(* The transmit queue holds only unacknowledged bytes, in stream order *)
TxQueueOK(c) ==
    /\ \A i \in 1..Len(c.tx_queue) : c.tx_queue[i] > c.tx_pos
    /\ \A i, j \in 1..Len(c.tx_queue) :
          i <= j => c.tx_queue[i] <= c.tx_queue[j]
    /\ Searchable(c.tx_queue)

(* Buffers are counted exactly, and the two pending_put() calls of the     *)
(* deletion are enough for the flags                                       *)
PendingBounded(c) ==
    /\ c.pending_data = Len(c.tx_queue)
    /\ c.pending_flags <= IF "FIN" \in c.state.sent THEN 2 ELSE 1

(* Nothing is queued before the peer's SYN, and closing has a reason *)
RxAndReasonOK(c) ==
    /\ c.rx_queue # <<>> => "SYN" \in c.state.rcvd
    /\ c.xfer_closed => c.rc # "none"

(* Nothing that could call back or keep an operation pending is left *)
Quiet(c) ==
    /\ ~c.timer /\ ~c.keepalive /\ ~c.wait /\ ~c.process
    /\ c.pending_flags = 0 /\ c.pending_data = 0
    /\ c.tx_queue = <<>> /\ c.rx_queue = <<>>

ConnOK(c) ==
    /\ c \in Connection
    /\ TxQueueOK(c)
    /\ PendingBounded(c)
    /\ RxAndReasonOK(c)
    /\ ~c.listed => c.state = TCP_CLOSED /\ Quiet(c)

(* The flags of a listed connection, as they are even inside a handler *)
StateOK(st) ==
    /\ "SYN" \in st.sent /\ "RST" \notin st.sent
    /\ "ACK" \in st.sent <=> "SYN" \in st.rcvd
    /\ st.acked \subseteq {"SYN", "FIN"} /\ st.rcvd \subseteq {"SYN", "FIN"}
    /\ "FIN" \in st.sent \cup st.rcvd => "SYN" \in st.rcvd
    /\ "FIN" \in st.sent => "SYN" \in st.acked
    /\ "FIN" \in st.acked => "FIN" \in st.sent

One(b) == IF b THEN 1 ELSE 0

(* A listed connection that has sent sequence space up to nxt: flags are   *)
(* counted exactly, timers run only where the code asserts it, and until   *)
(* our SYN is acknowledged it is all we have sent.                         *)
LiveOK(c, nxt) ==
    /\ StateOK(c.state)
    /\ "FIN" \in c.state.sent => c.xfer_closed
    /\ c.xfer_closed => "SYN" \in c.state.rcvd
    /\ c.pending_flags = One("SYN" \notin c.state.acked)
                         + One("FIN" \in c.state.sent \ c.state.acked)
    /\ c.timer => "FIN" \notin c.state.acked
    /\ c.wait => TCP_CLOSED_GRACEFULLY(c.state)
    /\ "SYN" \notin c.state.acked =>
          c.snd_seq = ISS /\ (nxt > 0 => c.snd_sent = 1)
    /\ "SYN" \in c.state.rcvd => nxt > 0

(* Between handlers, too, our SYN is acknowledged only with the peer's,    *)
(* and the peer's FIN is taken only after our SYN counts as acknowledged   *)
SettledOK(c) ==
    /\ "SYN" \in c.state.acked => "SYN" \in c.state.rcvd
    /\ "FIN" \in c.state.rcvd => "SYN" \in c.state.acked
=============================================================================
