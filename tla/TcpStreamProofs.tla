-------------------------- MODULE TcpStreamProofs ---------------------------
(***************************************************************************)
(* What the functions of net/tcp.c do to the receiving half of a           *)
(* connection, that is, the acknowledged position, the window and the      *)
(* receive queue; the third invariant of module TcpInv is preserved by     *)
(* every action; and the theorems about the download, which follow.        *)
(***************************************************************************)
EXTENDS TcpStateProofs

-----------------------------------------------------------------------------
(* c becomes d without receiving anything.  Packets may be discarded from  *)
(* the end of the queue, the window may grow, and the application may be   *)
(* closed.                                                                 *)
RxStays(c, d) ==
    /\ d.rcv_ack = c.rcv_ack /\ d.rcv_win >= c.rcv_win
    /\ d.state.rcvd = c.state.rcvd
    /\ Len(d.rx_queue) <= Len(c.rx_queue)
    /\ \A i \in 1..Len(d.rx_queue) : d.rx_queue[i] = c.rx_queue[i]
    /\ c.xfer_closed => d.xfer_closed

(* Such changes add up. *)
LEMMA RxStaysTwice ==
    ASSUME NEW c \in Connection, NEW d \in Connection, NEW e \in Connection,
           RxStays(c, d), RxStays(d, e)
    PROVE  RxStays(c, e)
  <1>1. /\ c.rcv_win \in Nat /\ d.rcv_win \in Nat /\ e.rcv_win \in Nat
        /\ Len(c.rx_queue) \in Nat /\ Len(d.rx_queue) \in Nat
        /\ Len(e.rx_queue) \in Nat
    BY ConnectionFields, LenProperties
  <1>2. QED BY <1>1 DEF RxStays

(* A change of other fields is one of them. *)
LEMMA RxStaysSame ==
    ASSUME NEW c \in Connection, NEW d \in Connection,
           Same(c, d, Fields \ {"rcv_ack", "rcv_win", "rx_queue", "xfer_closed"}),
           d.state.rcvd = c.state.rcvd
    PROVE  RxStays(c, d)
  <1>1. c.rcv_win \in Nat /\ Len(c.rx_queue) \in Nat
    BY ConnectionFields, LenProperties
  <1>2. /\ d.rcv_ack = c.rcv_ack /\ d.rcv_win = c.rcv_win
        /\ d.rx_queue = c.rx_queue /\ d.xfer_closed = c.xfer_closed
    BY DEF Same, Fields
  <1>3. QED BY <1>1, <1>2 DEF RxStays

(* Discarding a packet receives nothing. *)
LEMMA DiscardStays ==
    ASSUME NEW c \in Connection
    PROVE  RxStays(c, tcp_discard(c))
  <1> DEFINE q == c.rx_queue
             p == SubSeq(q, 1, Len(q) - 1)
             d == tcp_discard(c)
  <1>1. q \in Seq(QueuedPacket) /\ Len(q) \in Nat /\ c.rcv_win \in Nat
    BY ConnectionFields, LenProperties
  <1>2. d \in Connection /\ Same(c, d, {"rx_queue"})
    BY Discard
  <1>3. CASE q = <<>>
    <2>1. d = c
      BY <1>3 DEF tcp_discard
    <2>2. QED BY <1>1, <2>1 DEF RxStays
  <1>4. CASE q # <<>>
    <2>1. Len(q) > 0
      BY <1>1, <1>4, EmptySeq
    <2>2. Len(p) = Len(q) - 1 /\ \A i \in 1..(Len(q) - 1) : p[i] = q[i]
      BY <1>1, <2>1
    <2>3. d.rx_queue = p
      BY <1>4 DEF tcp_discard, Connection
    <2> HIDE DEF d, p, q
    <2>4. d.rcv_ack = c.rcv_ack /\ d.rcv_win = c.rcv_win /\ d.state = c.state
          /\ d.xfer_closed = c.xfer_closed
      BY <1>2 DEF Same, Fields
    <2>5. QED BY <1>1, <2>1, <2>2, <2>3, <2>4 DEF RxStays, q, d
  <1>5. QED BY <1>3, <1>4

(* Neither does a transmission attempt. *)
LEMMA XmitStays ==
    ASSUME NEW c \in Connection, NEW env \in Environments, TxQueueOK(c)
    PROVE  RxStays(c, tcp_xmit_sack(c, env).c)
  <1> DEFINE seq_len == XmitSeqLen(c)
             long    == seq_len > 0
             sized   == [c EXCEPT !.snd_sent = seq_len, !.timer = long]
             alloced == IF env.fate = "squeezed" THEN tcp_discard(sized)
                        ELSE sized
             opened  == ExpandWindow(alloced, env.app_win)
             acked   == [opened EXCEPT !.ack_pending = FALSE]
             x       == tcp_xmit_sack(c, env)
  <1>1. seq_len \in Nat /\ env.app_win \in Nat /\ long \in BOOLEAN
    <2>1. seq_len \in Nat /\ env.app_win \in Nat
      BY Zenon, XmitLengths, TcpConnAssumption DEF Environments
    <2>2. long \in BOOLEAN
      OBVIOUS
    <2>3. QED BY <2>1, <2>2
  <1>2. \/ x = Result(c, FALSE, FALSE) \/ x = Result(sized, FALSE, FALSE)
        \/ x = Result(opened, TRUE, FALSE) \/ x = Result(acked, TRUE, TRUE)
    BY Zenon DEF tcp_xmit_sack
  <1>3. x.c \in {c, sized, opened, acked}
    <2> HIDE DEF x, sized, opened, acked
    <2>1. QED BY <1>2 DEF Result
  <1> HIDE DEF seq_len, long
  <1>4. sized \in Connection /\ Same(c, sized, {"snd_sent", "timer"})
    BY Zenon, <1>1 DEF Connection, Same, Fields
  <1> HIDE DEF sized
  <1>5. RxStays(c, sized)
    <2>1. /\ sized.state = c.state
          /\ Same(c, sized, Fields \ {"rcv_ack", "rcv_win", "rx_queue",
                                      "xfer_closed"})
      BY Zenon, <1>4 DEF Same, Fields
    <2>2. QED BY <1>4, <2>1, RxStaysSame
  <1>6. alloced \in Connection /\ RxStays(c, alloced)
    <2>1. tcp_discard(sized) \in Connection /\ RxStays(sized, tcp_discard(sized))
      BY Zenon, <1>4, Discard, DiscardStays
    <2>2. RxStays(c, tcp_discard(sized))
      BY Zenon, <1>4, <1>5, <2>1, RxStaysTwice
    <2>3. QED BY Zenon, <1>4, <1>5, <2>1, <2>2
  <1> HIDE DEF alloced
  <1>7. opened \in Connection /\ RxStays(alloced, opened)
    <2>1. /\ opened \in Connection /\ Same(alloced, opened, {"rcv_win"})
          /\ opened.rcv_win >= alloced.rcv_win
      BY Zenon, <1>1, <1>6, Expand
    <2> HIDE DEF opened
    <2>2. /\ opened.rcv_ack = alloced.rcv_ack /\ opened.state = alloced.state
          /\ opened.rx_queue = alloced.rx_queue
          /\ opened.xfer_closed = alloced.xfer_closed
      BY Zenon, <2>1 DEF Same, Fields
    <2>3. Len(alloced.rx_queue) \in Nat
      BY <1>6, ConnectionFields, LenProperties
    <2>4. QED BY <2>1, <2>2, <2>3 DEF RxStays
  <1>8. RxStays(c, opened)
    BY Zenon, <1>6, <1>7, RxStaysTwice
  <1> HIDE DEF opened
  <1>9. acked \in Connection /\ RxStays(c, acked)
    <2>1. acked \in Connection /\ Same(opened, acked, {"ack_pending"})
      BY Zenon, <1>7 DEF Connection, Same, Fields
    <2> HIDE DEF acked
    <2>2. /\ acked.state = opened.state
          /\ Same(opened, acked, Fields \ {"rcv_ack", "rcv_win", "rx_queue",
                                           "xfer_closed"})
      BY Zenon, <2>1 DEF Same, Fields
    <2>3. RxStays(opened, acked)
      BY <1>7, <2>1, <2>2, RxStaysSame
    <2>4. QED BY Zenon, <1>7, <1>8, <2>1, <2>3, RxStaysTwice
  <1>10. RxStays(c, c)
    BY ConnectionFields, LenProperties DEF RxStays
  <1>11. QED BY Zenon, <1>3, <1>5, <1>8, <1>9, <1>10

(* Acknowledgements concern only what we send. *)
LEMMA RxAckStays ==
    ASSUME NEW c, ConnOK(c), c.listed, NEW ack \in SeqNo, NEW win \in Nat
    PROVE  LET d == tcp_rx_ack(c, ack, win)
           IN  RxStays(c, d) /\ d.rc = c.rc
  <1> DEFINE d == tcp_rx_ack(c, ack, win)
  <1>1. c \in Connection
    BY DEF ConnOK
  <1>2. d \in Connection /\ Same(c, d, AckFields) /\ d.state.rcvd = c.state.rcvd
    BY Zenon, RxAckOK DEF ConnOK
  <1> HIDE DEF d
  <1>3. /\ d.rc = c.rc
        /\ Same(c, d, Fields \ {"rcv_ack", "rcv_win", "rx_queue", "xfer_closed"})
    BY Zenon, <1>2 DEF Same, Fields, AckFields
  <1>4. QED BY Zenon, <1>1, <1>2, <1>3, RxStaysSame DEF d

(* Closing receives nothing.  *)
LEMMA CloseStays ==
    ASSUME NEW c, ConnOK(c), c.listed, NEW rc \in Reasons \ {"none"}
    PROVE  LET d == tcp_close(c, rc)
           IN  /\ d.rc = Reason(c, rc) /\ d.xfer_closed
               /\ "SYN" \in c.state.rcvd => RxStays(c, d)
  <1> DEFINE why      == Reason(c, rc)
             closed   == [c EXCEPT !.xfer_closed = TRUE, !.rc = why]
             next     == Add(c.snd_seq, 1)
             pretend  == IF "SYN" \in c.state.acked THEN closed
                         ELSE tcp_rx_ack(closed, next, 0)
             quiet    == [pretend EXCEPT !.keepalive = FALSE]
             finished == StartFin(quiet)
             proc     == quiet.process \/ finished # quiet
             d        == tcp_close(c, rc)
             Others   == Fields \ {"rcv_ack", "rcv_win", "rx_queue",
                                   "xfer_closed"}
  <1>1. c \in Connection
    BY DEF ConnOK
  <1>2. why \in Reasons /\ why # "none" /\ next \in SeqNo
    <2>1. c.snd_seq \in Int /\ c.rc \in Reasons
      BY <1>1, ConnectionFields DEF SeqNo
    <2>2. next \in SeqNo
      BY <2>1, SeqNoType
    <2>3. QED BY <2>1, <2>2 DEF ConnOK, RxAndReasonOK, Reason
  <1>3. d = IF "SYN" \notin c.state.rcvd THEN Deleted(closed)
            ELSE [finished EXCEPT !.process = proc]
    BY Zenon DEF tcp_close, Reason
  <1> HIDE DEF why, next, d
  <1>4. /\ closed \in Connection /\ closed.rc = why /\ closed.xfer_closed
        /\ Same(c, closed, {"xfer_closed", "rc"})
    BY Zenon, <1>1, <1>2 DEF Connection, Same, Fields
  <1> HIDE DEF closed
  <1>5. /\ closed.listed /\ closed.state = c.state /\ closed.rcv_ack = c.rcv_ack
        /\ closed.tx_queue = c.tx_queue /\ closed.tx_pos = c.tx_pos
        /\ closed.rx_queue = c.rx_queue /\ closed.rcv_win = c.rcv_win
        /\ closed.pending_data = c.pending_data
        /\ closed.pending_flags = c.pending_flags
    BY Zenon, <1>4 DEF Same, Fields
  <1>6. ConnOK(closed)
    BY SMTT(30), <1>2, <1>4, <1>5
    DEF ConnOK, TxQueueOK, PendingBounded, RxAndReasonOK
  <1>7. RxStays(c, closed)
    BY <1>1, <1>4, <1>5, ConnectionFields, LenProperties DEF RxStays
  <1>8. CASE "SYN" \notin c.state.rcvd
    <2>1. d = Deleted(closed)
      BY Zenon, <1>3, <1>8
    <2>2. QED BY Zenon, <1>4, <1>8, <2>1, DeletedRc DEF d, why
  <1>9. CASE "SYN" \in c.state.rcvd
    <2>1. /\ pretend \in Connection /\ RxStays(closed, pretend)
          /\ pretend.rc = closed.rc
      <3>1. CASE "SYN" \in c.state.acked
        <4>1. pretend = closed
          BY Zenon, <3>1
        <4>2. RxStays(closed, closed)
          BY <1>4, ConnectionFields, LenProperties DEF RxStays
        <4>3. QED BY Zenon, <1>4, <4>1, <4>2
      <3>2. CASE "SYN" \notin c.state.acked
        <4>1. pretend = tcp_rx_ack(closed, next, 0) /\ 0 \in Nat
          BY <3>2
        <4>2. QED BY Zenon, <1>2, <1>5, <1>6, <4>1, RxAckOK, RxAckStays DEF ConnOK
      <3>3. QED BY Zenon, <3>1, <3>2
    <2> HIDE DEF pretend
    <2>2. RxStays(c, pretend)
      BY Zenon, <1>1, <1>4, <1>7, <2>1, RxStaysTwice
    <2>3. quiet \in Connection /\ Same(pretend, quiet, {"keepalive"})
      BY Zenon, <2>1 DEF Connection, Same, Fields
    <2> HIDE DEF quiet
    <2>4. /\ quiet.rc = pretend.rc /\ quiet.state = pretend.state
          /\ quiet.xfer_closed = pretend.xfer_closed
          /\ Same(pretend, quiet, Others)
      BY Zenon, <2>3 DEF Same, Fields
    <2>5. RxStays(pretend, quiet)
      BY Zenon, <2>1, <2>3, <2>4, RxStaysSame
    <2>6. RxStays(c, quiet)
      BY Zenon, <1>1, <2>1, <2>2, <2>3, <2>5, RxStaysTwice
    <2>7. /\ finished \in Connection
          /\ Same(quiet, finished, {"state", "pending_flags"})
          /\ finished.state.rcvd = quiet.state.rcvd
      BY Zenon, <2>3, StartFinEffect
    <2> HIDE DEF finished
    <2>8. finished.rc = quiet.rc /\ Same(quiet, finished, Others)
          /\ finished.xfer_closed = quiet.xfer_closed
      BY Zenon, <2>7 DEF Same, Fields
    <2>9. RxStays(c, finished)
      <3>1. RxStays(quiet, finished)
        BY Zenon, <2>3, <2>7, <2>8, RxStaysSame
      <3>2. QED BY Zenon, <1>1, <2>3, <2>6, <2>7, <3>1, RxStaysTwice
    <2>10. proc \in BOOLEAN
      BY <2>3, ConnectionFields
    <2>11. d = [finished EXCEPT !.process = proc]
      BY Zenon, <1>3, <1>9
    <2> HIDE DEF proc
    <2>12. d \in Connection /\ Same(finished, d, {"process"})
      BY Zenon, <2>7, <2>10, <2>11 DEF Connection, Same, Fields
    <2>13. /\ d.rc = finished.rc /\ d.state = finished.state
           /\ d.xfer_closed = finished.xfer_closed
           /\ Same(finished, d, Others)
      BY Zenon, <2>12 DEF Same, Fields
    <2>14. RxStays(c, d)
      <3>1. RxStays(finished, d)
        BY Zenon, <2>7, <2>12, <2>13, RxStaysSame
      <3>2. QED BY Zenon, <1>1, <2>7, <2>9, <2>12, <3>1, RxStaysTwice
    <2>15. d.xfer_closed
      BY Zenon, <1>4, <2>1, <2>4, <2>8, <2>13 DEF RxStays
    <2>16. QED BY Zenon, <1>4, <2>1, <2>4, <2>8, <2>13, <2>14, <2>15 DEF d, why
  <1>10. QED BY Zenon, <1>8, <1>9

(* What the application does when it is called receives nothing. *)
LEMMA ReactStays ==
    ASSUME NEW c, ConnOK(c), c.listed, NEW env \in Environments,
           NEW r \in Reactions(c)
    PROVE  LET x == React(c, r, env)
           IN  /\ x.c.listed => RxStays(c, x.c)
               /\ ~x.c.listed => x.c.xfer_closed
               /\ x.c.rc = c.rc \/ x.c.rc = "app"
  <1> DEFINE x == React(c, r, env)
  <1>1. c \in Connection /\ TxQueueOK(c) /\ c.xfer_closed \in BOOLEAN
    BY ConnectionFields DEF ConnOK
  <1>2. \/ r.op = "none" \/ r.op = "alloc"
        \/ r.op = "close" /\ ~c.xfer_closed
        \/ r.op = "send" /\ r.len \in Nat /\ r.len > 0
    <2>1. TxBytes - TxEnd(c) \in Int
      <3>1. TxLen(c) \in Nat /\ c.tx_pos \in Nat /\ TxBytes \in Nat
        BY Zenon, <1>1, XmitLengths, ConnectionFields, TcpConnAssumption
      <3>2. QED BY <3>1 DEF TxEnd
    <2>2. QED BY <1>1, <2>1 DEF Reactions
  <1>3. CASE r.op = "none"
    <2>1. x = Result(c, FALSE, FALSE)
      BY <1>3 DEF React
    <2>2. x.c = c
      BY <2>1 DEF Result
    <2>3. RxStays(c, c)
      BY <1>1, ConnectionFields, LenProperties DEF RxStays
    <2> HIDE DEF x
    <2>4. QED BY Zenon, <2>2, <2>3 DEF x
  <1>4. CASE r.op = "alloc"
    <2> DEFINE d == tcp_discard(c)
    <2>1. x = Result(d, FALSE, FALSE)
      BY <1>4 DEF React
    <2>2. x.c = d
      BY <2>1 DEF Result
    <2>3. Same(c, d, {"rx_queue"}) /\ RxStays(c, d)
      BY Zenon, <1>1, Discard, DiscardStays
    <2> HIDE DEF d, x
    <2>4. d.listed = c.listed /\ d.rc = c.rc
      BY Zenon, <2>3 DEF Same, Fields
    <2>5. QED BY Zenon, <2>2, <2>3, <2>4 DEF x
  <1>5. CASE r.op = "send" /\ r.len \in Nat /\ r.len > 0
    <2> DEFINE d == Queued(c, r.len)
    <2>1. x = tcp_xmit_sack(d, env)
      BY <1>5 DEF React, tcp_xfer_deliver, Queued
    <2>2. ConnOK(d) /\ d.listed /\ d.rc = c.rc /\ d.state = c.state
      BY Zenon, <1>5, Deliver
    <2>3. d \in Connection /\ TxQueueOK(d)
      BY <2>2 DEF ConnOK
    <2>4. RxStays(c, d)
      <3>1. /\ d.rcv_ack = c.rcv_ack /\ d.rcv_win = c.rcv_win
            /\ d.rx_queue = c.rx_queue /\ d.xfer_closed = c.xfer_closed
        BY Zenon, <1>1 DEF Queued, Connection
      <3> HIDE DEF d
      <3>2. QED BY <1>1, <2>2, <3>1, ConnectionFields, LenProperties
            DEF RxStays
    <2> HIDE DEF d
    <2> HIDE DEF x
    <2>5. /\ x.c \in Connection /\ RxStays(d, x.c) /\ x.c.listed = d.listed
          /\ x.c.rc = d.rc
      <3> DEFINE y == tcp_xmit_sack(d, env)
      <3>1. /\ y.c \in Connection /\ RxStays(d, y.c) /\ y.c.listed = d.listed
            /\ y.c.rc = d.rc
        BY Zenon, <2>3, XmitSack, XmitKeeps, XmitStays
      <3> HIDE DEF y
      <3>2. QED BY Zenon, <2>1, <3>1 DEF y
    <2>6. RxStays(c, x.c)
      BY Zenon, <1>1, <2>3, <2>4, <2>5, RxStaysTwice
    <2>7. QED BY Zenon, <2>2, <2>5, <2>6 DEF x
  <1>6. CASE r.op = "close" /\ ~c.xfer_closed
    <2> DEFINE d == tcp_close(c, "app")
    <2>1. x = tcp_xmit_sack(d, env)
      BY <1>6 DEF React, tcp_xfer_close
    <2>2. "app" \in Reasons \ {"none"}
      BY DEF Reasons
    <2>3. ConnOK(d) /\ ("SYN" \notin c.state.rcvd => ~d.listed)
      BY Zenon, <2>2, CloseOK
    <2>4. /\ d.rc = Reason(c, "app") /\ d.xfer_closed
          /\ "SYN" \in c.state.rcvd => RxStays(c, d)
      BY Zenon, <2>2, CloseStays
    <2> HIDE DEF d
    <2>5. d \in Connection /\ TxQueueOK(d)
      BY <2>3 DEF ConnOK
    <2> HIDE DEF x
    <2>6. /\ x.c \in Connection /\ RxStays(d, x.c) /\ x.c.listed = d.listed
          /\ x.c.rc = d.rc /\ x.c.xfer_closed = d.xfer_closed
      <3> DEFINE y == tcp_xmit_sack(d, env)
      <3>1. /\ y.c \in Connection /\ RxStays(d, y.c) /\ y.c.listed = d.listed
            /\ y.c.rc = d.rc /\ y.c.xfer_closed = d.xfer_closed
        BY Zenon, <2>5, XmitSack, XmitKeeps, XmitStays
      <3> HIDE DEF y
      <3>2. QED BY Zenon, <2>1, <3>1 DEF y
    <2>7. x.c.listed => RxStays(c, x.c)
      BY Zenon, <1>1, <2>3, <2>4, <2>5, <2>6, RxStaysTwice
    <2>8. d.rc = "app"
      BY Zenon, <1>6, <2>4 DEF Reason
    <2>9. QED BY Zenon, <2>4, <2>6, <2>7, <2>8 DEF x
  <1>7. QED BY Zenon, <1>2, <1>3, <1>4, <1>5, <1>6

-----------------------------------------------------------------------------
(* Nothing is received by what tcp_rx does before it comes to a SYN. *)
LEMMA RxForcedStays ==
    ASSUME NEW c, ConnOK(c), c.listed, NEW seg \in Segments
    PROVE  LET d == RxForced(RxAcked(c, seg), seg)
           IN  ConnOK(d) /\ d.listed /\ RxStays(c, d) /\ d.rc = c.rc
  <1> DEFINE a == RxAcked(c, seg)
             force == a.ack_pending \/ ("SYN" \in a.state.rcvd
                                        /\ seg.seq # a.rcv_ack)
             d == RxForced(a, seg)
  <1>1. seg.ack \in SeqNo /\ seg.win \in Nat /\ c \in Connection
    BY DEF Segments, ConnOK
  <1>2. ConnOK(a) /\ a.listed /\ RxStays(c, a) /\ a.rc = c.rc
    <2>1. CASE "ACK" \notin seg.flags
      <3>1. a = c
        BY <2>1 DEF RxAcked
      <3>2. RxStays(c, c)
        BY <1>1, ConnectionFields, LenProperties DEF RxStays
      <3> HIDE DEF a
      <3>3. QED BY Zenon, <3>1, <3>2
    <2>2. CASE "ACK" \in seg.flags
      <3> DEFINE y == tcp_rx_ack(c, seg.ack, seg.win)
      <3>1. a = y
        BY <2>2 DEF RxAcked
      <3>2. /\ ConnOK(y) /\ Same(c, y, AckFields) /\ RxStays(c, y)
            /\ y.rc = c.rc
        BY Zenon, <1>1, RxAckOK, RxAckStays
      <3> HIDE DEF a, y
      <3>3. y.listed = c.listed
        BY Zenon, <3>2 DEF Same, Fields, AckFields
      <3>4. QED BY Zenon, <3>1, <3>2, <3>3
    <2>3. QED BY Zenon, <2>1, <2>2
  <1> HIDE DEF a
  <1>3. ConnOK(d) /\ d.listed /\ d.state = a.state
    BY Zenon, <1>2, RxForcedOK
  <1>4. a \in Connection /\ a.ack_pending \in BOOLEAN
    BY <1>2, ConnectionFields DEF ConnOK
  <1>5. force \in BOOLEAN
    BY <1>4
  <1>6. d = [a EXCEPT !.ack_pending = force]
    BY Zenon DEF RxForced
  <1> HIDE DEF force, d
  <1>7. /\ d \in Connection /\ d.rc = a.rc
        /\ Same(a, d, Fields \ {"rcv_ack", "rcv_win", "rx_queue",
                                "xfer_closed"})
    BY Zenon, <1>4, <1>5, <1>6 DEF Connection, Same, Fields
  <1>8. RxStays(a, d)
    BY Zenon, <1>3, <1>4, <1>7, RxStaysSame
  <1>9. RxStays(c, d)
    BY Zenon, <1>1, <1>2, <1>4, <1>7, <1>8, RxStaysTwice
  <1>10. QED BY Zenon, <1>2, <1>3, <1>7, <1>9 DEF d, a

(* Nor do the small changes of the timer callbacks, of the transmission    *)
(* process and of the end of tcp_rx receive anything.                      *)
LEMMA SmallStays ==
    ASSUME NEW c \in Connection
    PROVE  /\ \A b \in BOOLEAN : RxStays(c, [c EXCEPT !.process = b])
           /\ RxStays(c, [c EXCEPT !.ack_pending = TRUE])
           /\ RxStays(c, [c EXCEPT !.timer = FALSE, !.count = @ + 1])
           /\ \A b \in BOOLEAN : RxStays(c, [c EXCEPT !.wait = b])
  <1> DEFINE Others == Fields \ {"rcv_ack", "rcv_win", "rx_queue",
                                 "xfer_closed"}
  <1>1. ASSUME NEW d \in Connection, Same(c, d, Others), d.state = c.state
        PROVE  RxStays(c, d)
    BY <1>1, RxStaysSame
  <1>2. c.count + 1 \in Nat
    BY ConnectionFields
  <1>3. ASSUME NEW b \in BOOLEAN PROVE RxStays(c, [c EXCEPT !.process = b])
    <2> DEFINE d == [c EXCEPT !.process = b]
    <2>1. d \in Connection /\ Same(c, d, Others) /\ d.state = c.state
      BY Zenon DEF Connection, Same, Fields
    <2>2. QED BY Zenon, <1>1, <2>1
  <1>4. RxStays(c, [c EXCEPT !.ack_pending = TRUE])
    <2> DEFINE d == [c EXCEPT !.ack_pending = TRUE]
    <2>1. d \in Connection /\ Same(c, d, Others) /\ d.state = c.state
      BY Zenon DEF Connection, Same, Fields
    <2>2. QED BY Zenon, <1>1, <2>1
  <1>5. RxStays(c, [c EXCEPT !.timer = FALSE, !.count = @ + 1])
    <2> DEFINE d == [c EXCEPT !.timer = FALSE, !.count = @ + 1]
    <2>1. d \in Connection /\ Same(c, d, Others) /\ d.state = c.state
      BY Zenon, <1>2 DEF Connection, Same, Fields
    <2>2. QED BY Zenon, <1>1, <2>1
  <1>6. ASSUME NEW b \in BOOLEAN PROVE RxStays(c, [c EXCEPT !.wait = b])
    <2> DEFINE d == [c EXCEPT !.wait = b]
    <2>1. d \in Connection /\ Same(c, d, Others) /\ d.state = c.state
      BY Zenon DEF Connection, Same, Fields
    <2>2. QED BY Zenon, <1>1, <2>1
  <1>7. QED BY Zenon, <1>3, <1>4, <1>5, <1>6

(* Receiving nothing keeps what has been received, and the right edge of   *)
(* the window.                                                             *)
LEMMA ReceivingStays ==
    ASSUME NEW c \in Connection, NEW d \in Connection, NEW n \in Nat,
           ReceivingOK(c, n), RxStays(c, d)
    PROVE  ReceivingOK(d, n)
  <1>1. /\ Len(c.rx_queue) \in Nat /\ Len(d.rx_queue) \in Nat
        /\ c.xfer_closed \in BOOLEAN /\ d.xfer_closed \in BOOLEAN
    BY ConnectionFields, LenProperties
  <1>2. Received(d) = Received(c) /\ (~d.xfer_closed => ~c.xfer_closed)
    BY <1>1 DEF RxStays, Received
  <1>3. \A i \in 1..Len(d.rx_queue) : PartOfStream(d.rx_queue[i])
    BY <1>1 DEF RxStays, ReceivingOK
  <1>4. QED BY <1>2, <1>3 DEF ReceivingOK

(* The count of received units is a natural number below SeqSpace. *)
LEMMA ReceivedType ==
    ASSUME NEW c \in Connection
    PROVE  /\ Received(c) \in Nat /\ Received(c) \in SeqNo
           /\ c.rcv_ack = Add(PeerISS, Received(c))
  <1>1. c.rcv_ack \in SeqNo /\ PeerISS \in SeqNo
    BY ConnectionFields, TcpAssumption
  <1>2. Received(c) \in SeqNo
    BY <1>1, SeqValues DEF Received
  <1>3. c.rcv_ack = Add(PeerISS, Received(c))
    BY Zenon, <1>1, SeqDistance DEF Received
  <1>4. QED BY <1>2, <1>3 DEF SeqNo

(* Consuming n units moves rcv_ack by n, and the right edge of the window  *)
(* not to the left.                                                        *)
LEMMA RxSeqReceived ==
    ASSUME NEW c \in Connection, NEW n \in Nat, Received(c) + n < SeqSpace
    PROVE  LET d == tcp_rx_seq(c, n)
           IN  /\ d \in Connection /\ Received(d) = Received(c) + n
               /\ d.rcv_win + n >= c.rcv_win
  <1> DEFINE d == tcp_rx_seq(c, n)
             r == Received(c)
             w == Maximum(0, c.rcv_win - n)
  <1>1. /\ r \in Nat /\ r \in SeqNo /\ c.rcv_ack = Add(PeerISS, r)
        /\ c.rcv_win \in Nat /\ PeerISS \in SeqNo
    BY ReceivedType, ConnectionFields, TcpAssumption
  <1>2. n \in SeqNo /\ r + n \in SeqNo /\ r + n < SeqSpace
    BY <1>1, SeqSpaceAssumption DEF SeqNo
  <1>3. /\ d \in Connection /\ d.rcv_ack = Add(c.rcv_ack, n)
        /\ d.rcv_win = w
    <2>1. d \in Connection
      BY RxSeq
    <2>2. QED BY Zenon, <2>1 DEF tcp_rx_seq, Connection
  <1>4. w + n >= c.rcv_win
    BY <1>1 DEF Maximum
  <1> HIDE DEF d, r, w
  <1>5. d.rcv_ack = Add(PeerISS, r + n)
    <2>1. Add(Add(PeerISS, r), n) = Add(PeerISS, r + n)
      BY <1>1, <1>2, SeqDistance
    <2>2. QED BY Zenon, <1>1, <1>3, <2>1
  <1>6. Received(d) = r + n
    BY Zenon, <1>1, <1>2, <1>5, SeqDistance DEF Received
  <1>7. QED BY <1>3, <1>4, <1>6 DEF d, r

(* A SYN of the peer's is taken once, and then one unit has been received. *)
LEMMA RxSynReceived ==
    ASSUME ShortStream, NEW c, ConnOK(c), c.listed,
           NEW seg \in Segments, seg.seq = PeerISS,
           "SYN" \in c.state.rcvd => Received(c) \in 1..(RxBytes + 2)
    PROVE  LET d == tcp_rx_syn(c, seg)
           IN  /\ d.rc = c.rc /\ d.xfer_closed = c.xfer_closed
               /\ "SYN" \in c.state.rcvd => d = c
               /\ "SYN" \notin c.state.rcvd =>
                     Received(d) = 1 /\ d.rx_queue = c.rx_queue
  <1> DEFINE synced == [c EXCEPT !.rcv_ack = seg.seq,
                                 !.sack_enabled = seg.spopt,
                                 !.rcv_scale = WindowScale]
             heard  == tcp_rx_seq(synced, 1)
             d      == tcp_rx_syn(c, seg)
  <1>1. /\ c \in Connection /\ PeerISS \in SeqNo /\ RxBytes \in Nat
        /\ seg.seq \in SeqNo /\ seg.spopt \in BOOLEAN
    BY TcpAssumption DEF ConnOK, Segments
  <1>2. CASE "SYN" \in c.state.rcvd
    <2>1. Received(c) # 0
      BY <1>1, <1>2
    <2>2. Sub(PeerISS, PeerISS) = 0
      BY <1>1, SeqValues DEF SeqNo
    <2>3. seg.seq # c.rcv_ack
      BY <2>1, <2>2 DEF Received
    <2>4. d = c
      BY Zenon, <1>2, <2>3 DEF tcp_rx_syn
    <2>5. QED BY Zenon, <1>2, <2>4
  <1>3. CASE "SYN" \notin c.state.rcvd
    <2>1. /\ synced \in Connection /\ synced.rcv_ack = seg.seq
          /\ Same(c, synced, {"rcv_ack", "sack_enabled", "rcv_scale"})
      BY Zenon, <1>1 DEF Connection, Same, Fields
    <2>2. d = [heard EXCEPT !.state.sent = @ \cup {"ACK"},
                            !.state.rcvd = @ \cup {"SYN"}]
      BY Zenon, <1>3, <2>1 DEF tcp_rx_syn
    <2> HIDE DEF synced
    <2>3. Received(synced) = 0 /\ 1 < SeqSpace
      BY <1>1, <2>1, SeqValues, SeqSpaceAssumption DEF Received, SeqNo
    <2>4. heard \in Connection /\ Received(heard) = 1
      BY <2>1, <2>3, RxSeqReceived
    <2>5. Same(synced, heard, {"rcv_ack", "rcv_win", "ack_pending"})
      BY <2>1, RxSeq
    <2> HIDE DEF heard
    <2>6. /\ heard.rc = c.rc /\ heard.xfer_closed = c.xfer_closed
          /\ heard.rx_queue = c.rx_queue
      BY Zenon, <2>1, <2>5 DEF Same, Fields
    <2>7. /\ d.rc = heard.rc /\ d.xfer_closed = heard.xfer_closed
          /\ d.rx_queue = heard.rx_queue /\ d.rcv_ack = heard.rcv_ack
      BY Zenon, <2>2, <2>4 DEF Connection
    <2> HIDE DEF d
    <2>8. Received(d) = 1
      BY <2>4, <2>7 DEF Received
    <2>9. QED BY Zenon, <1>3, <2>6, <2>7, <2>8 DEF d
  <1>4. QED BY Zenon, <1>2, <1>3

(* What enters the receive queue is the packet, among those that were in   *)
(* it.                                                                     *)
LEMMA EnqueuePart ==
    ASSUME NEW c, ConnOK(c), NEW seq \in SeqNo, NEW seg \in Segments,
           \A i \in 1..Len(c.rx_queue) : PartOfStream(c.rx_queue[i]),
           seg.len > 0 \/ "FIN" \in seg.flags =>
              /\ seq = Add(PeerISS, seg.pos) /\ seg.pos > 0
              /\ seg.pos + seg.len <= RxBytes + 1
              /\ "FIN" \in seg.flags => seg.pos + seg.len = RxBytes + 1
    PROVE  LET d == tcp_rx_enqueue(c, seq, seg)
           IN  /\ \A i \in 1..Len(d.rx_queue) : PartOfStream(d.rx_queue[i])
               /\ d.rcv_ack = c.rcv_ack /\ d.rcv_win = c.rcv_win
  <1> DEFINE q      == c.rx_queue
             fin    == "FIN" \in seg.flags
             nxt    == Add(seq, seg.len + IF fin THEN 1 ELSE 0)
             entry  == [seq |-> seq, nxt |-> nxt, fin |-> fin,
                        pos |-> seg.pos, len |-> seg.len]
             S      == {i \in DOMAIN q : tcp_cmp(seq, q[i].seq) < 0}
             passed == Preceding(q, S)
             longer == SubSeq(q, 1, passed) \o <<entry>>
                       \o SubSeq(q, passed + 1, Len(q))
             d      == tcp_rx_enqueue(c, seq, seg)
             Parts  == {e \in QueuedPacket : PartOfStream(e)}
  <1>1. c \in Connection
    BY DEF ConnOK
  <1>2. q \in Seq(QueuedPacket) /\ Len(q) \in Nat /\ DOMAIN q = 1..Len(q)
    BY <1>1, ConnectionFields, LenProperties
  <1>3. \/ d = c
        \/ /\ ~(seg.len = 0 /\ ~fin)
           /\ d = [c EXCEPT !.rx_queue = longer]
    BY Zenon DEF tcp_rx_enqueue
  <1>4. CASE d = c
    BY Zenon, <1>4
  <1>5. CASE /\ ~(seg.len = 0 /\ ~fin)
             /\ d = [c EXCEPT !.rx_queue = longer]
    <2>1. seq \in Int /\ seg.len \in Nat /\ seg.pos \in Nat
      BY DEF Segments, SeqNo
    <2>2. entry \in Parts
      <3>1. nxt \in SeqNo
        <4>1. seg.len + (IF fin THEN 1 ELSE 0) \in Int
          BY <2>1
        <4>2. QED BY Zenon, <2>1, <4>1, SeqNoType
      <3>2. fin \in BOOLEAN
        OBVIOUS
      <3>3. seg.len > 0 \/ fin
        BY <1>5, <2>1
      <3> HIDE DEF nxt
      <3>4. QED BY Zenon, <2>1, <3>1, <3>2, <3>3 DEF QueuedPacket, PartOfStream
    <2>3. passed \in Nat /\ passed <= Len(q)
      <3>1. S \in SUBSET (1..Len(q))
        BY <1>2
      <3> HIDE DEF S
      <3>2. passed \in 0..Len(q)
        BY Zenon, <1>2, <3>1, PrecedingBounds
      <3>3. QED BY <1>2, <3>2
    <2>4. \A i \in 1..Len(q) : q[i] \in Parts
      BY <1>2
    <2> HIDE DEF q, entry, passed, Parts
    <2>5. longer \in Seq(Parts)
      <3> DEFINE front == SubSeq(q, 1, passed)
                 back  == SubSeq(q, passed + 1, Len(q))
      <3>1. longer = front \o <<entry>> \o back
        OBVIOUS
      <3>2. \A i \in 1..passed : q[i] \in Parts
        BY <1>2, <2>3, <2>4
      <3>3. \A i \in (passed + 1)..Len(q) : q[i] \in Parts
        BY <1>2, <2>3, <2>4
      <3>4. front \in Seq(Parts)
        BY <2>3, <3>2, SubSeqProperties
      <3>5. back \in Seq(Parts)
        BY <1>2, <2>3, <3>3, SubSeqProperties
      <3>6. <<entry>> \in Seq(Parts)
        BY <2>2
      <3> HIDE DEF front, back
      <3>7. front \o <<entry>> \in Seq(Parts)
        BY <3>4, <3>6, ConcatProperties
      <3>8. QED BY Zenon, <3>1, <3>5, <3>7, ConcatProperties
    <2> HIDE DEF longer, d
    <2>6. \A i \in 1..Len(longer) : PartOfStream(longer[i])
      BY <2>5, ElementOfSeq DEF Parts
    <2>7. /\ d.rx_queue = longer /\ d.rcv_ack = c.rcv_ack
          /\ d.rcv_win = c.rcv_win
      BY Zenon, <1>1, <1>5 DEF Connection
    <2>8. QED BY Zenon, <2>6, <2>7 DEF d
  <1>6. QED BY Zenon, <1>3, <1>4, <1>5

(* A packet that can be processed starts at or before what has been        *)
(* received, and overlaps it by the difference: the signed comparison and  *)
(* the unsigned distance are right for a stream this short.                *)
LEMMA ApplicableStarts ==
    ASSUME ShortStream, NEW c \in Connection, NEW q \in QueuedPacket,
           Received(c) \in 1..(RxBytes + 2), PartOfStream(q),
           tcp_cmp(q.seq, c.rcv_ack) <= 0
    PROVE  q.pos <= Received(c) /\ AlreadyRcvd(c, q) = Received(c) - q.pos
  <1> DEFINE r == Received(c)
             p == q.pos
             d == Sub(q.seq, c.rcv_ack)
             h == SeqSpace \div 2
  <1>1. /\ PeerISS \in SeqNo /\ RxBytes \in Nat /\ SeqSpace \in Nat
        /\ RxBytes < h /\ RxBytes + 2 < SeqSpace /\ h \in Nat
    BY TcpAssumption, SeqSpaceAssumption DEF ShortStream
  <1>2. /\ p \in Nat /\ q.len \in Nat /\ p > 0 /\ p <= RxBytes + 1
        /\ q.seq = Add(PeerISS, p)
    BY <1>1 DEF PartOfStream, QueuedPacket
  <1>3. r \in SeqNo /\ c.rcv_ack = Add(PeerISS, r) /\ r > 0
        /\ r <= RxBytes + 2 /\ r \in Nat
    BY <1>1, ReceivedType
  <1> HIDE DEF r, p
  <1>4. p \in SeqNo
    BY <1>1, <1>2 DEF SeqNo
  <1>5. /\ d = IF r <= p THEN p - r ELSE (p - r) + SeqSpace
        /\ AlreadyRcvd(c, q) = IF p <= r THEN r - p ELSE (r - p) + SeqSpace
    <2>1. /\ Sub(Add(PeerISS, p), Add(PeerISS, r)) =
               IF r <= p THEN p - r ELSE (p - r) + SeqSpace
          /\ Sub(Add(PeerISS, r), Add(PeerISS, p)) =
               IF p <= r THEN r - p ELSE (r - p) + SeqSpace
      BY <1>1, <1>3, <1>4, SeqDistance
    <2>2. QED BY Zenon, <1>2, <1>3, <2>1 DEF AlreadyRcvd
  <1>6. (IF d < h THEN d ELSE d - SeqSpace) <= 0
    BY DEF tcp_cmp
  <1> HIDE DEF d, h
  <1>7. p <= r
    <2> SUFFICES ASSUME p > r PROVE FALSE
      BY <1>2, <1>3
    <2>1. d = p - r /\ d < h /\ d > 0
      BY <1>1, <1>2, <1>3, <1>5
    <2>2. QED BY <1>1, <1>6, <2>1
  <1>8. QED BY <1>5, <1>7 DEF r, p

(* Its new data brings what has been received to its end. *)
LEMMA DataReceived ==
    ASSUME ShortStream, NEW c \in Connection, NEW q \in QueuedPacket,
           Received(c) \in 1..(RxBytes + 2), PartOfStream(q),
           tcp_cmp(q.seq, c.rcv_ack) <= 0
    PROVE  LET d == tcp_rx_data(c, q)
           IN  /\ Received(d) = Maximum(Received(c), q.pos + q.len)
               /\ Received(d) + d.rcv_win >= Received(c) + c.rcv_win
  <1> DEFINE r == Received(c)
             k == AlreadyRcvd(c, q)
             n == q.len - k
             d == tcp_rx_data(c, q)
  <1>1. /\ q.pos \in Nat /\ q.len \in Nat /\ q.pos > 0 /\ RxBytes \in Nat
        /\ q.pos + q.len <= RxBytes + 1 /\ RxBytes + 2 < SeqSpace
        /\ SeqSpace \in Nat
    BY TcpAssumption, SeqSpaceAssumption DEF PartOfStream, QueuedPacket,
       ShortStream
  <1>2. q.pos <= r /\ k = r - q.pos
    BY Zenon, ApplicableStarts
  <1>3. r \in Nat /\ r <= RxBytes + 2 /\ c.rcv_win \in Nat
    BY <1>1, ConnectionFields
  <1> HIDE DEF r, k
  <1>4. CASE k >= q.len
    <2>1. d = c
      BY Zenon, <1>4 DEF tcp_rx_data, k
    <2>2. r >= q.pos + q.len
      BY <1>1, <1>2, <1>3, <1>4
    <2> HIDE DEF d
    <2>3. Received(d) = r /\ d.rcv_win = c.rcv_win
      BY <2>1 DEF r
    <2>4. QED BY <1>1, <1>3, <2>2, <2>3 DEF Maximum, r, d
  <1>5. CASE ~(k >= q.len)
    <2>1. n \in Nat /\ r + n = q.pos + q.len /\ r + n < SeqSpace
          /\ q.pos + q.len > r
      BY <1>1, <1>2, <1>3, <1>5
    <2>2. d = tcp_rx_seq(c, n)
      BY Zenon, <1>5 DEF tcp_rx_data, k
    <2> HIDE DEF n, d
    <2>3. d \in Connection /\ Received(d) = r + n /\ d.rcv_win + n >= c.rcv_win
      BY Zenon, <2>1, <2>2, RxSeqReceived DEF r
    <2>4. d.rcv_win \in Nat
      BY <2>3, ConnectionFields
    <2>5. QED BY <1>1, <1>3, <2>1, <2>3, <2>4 DEF Maximum, r, d
  <1>6. QED BY <1>4, <1>5

(* The bytes delivered go on where the earlier ones ended. *)
LEMMA DeliveredInOrder ==
    ASSUME NEW s \in Seq(Nat), NEW u \in Seq(Nat),
           \A i \in 1..Len(s) : s[i] = i,
           \A i \in 1..Len(u) : u[i] = Len(s) + i
    PROVE  /\ Len(s \o u) = Len(s) + Len(u)
           /\ \A i \in 1..Len(s \o u) : (s \o u)[i] = i
  <1> DEFINE t == s \o u
  <1>1. Len(u) \in Nat /\ Len(s) \in Nat
    BY LenProperties
  <1>2. /\ Len(t) = Len(s) + Len(u)
        /\ \A i \in 1..(Len(s) + Len(u)) :
             t[i] = IF i <= Len(s) THEN s[i] ELSE u[i - Len(s)]
    BY Zenon, ConcatProperties
  <1> HIDE DEF t
  <1>3. \A i \in 1..Len(t) : t[i] = i
    <2> TAKE i \in 1..Len(t)
    <2>1. CASE i <= Len(s)
      BY <1>1, <1>2, <2>1
    <2>2. CASE i > Len(s)
      <3>1. i - Len(s) \in 1..Len(u)
        BY <1>1, <1>2, <2>2
      <3>2. t[i] = u[i - Len(s)]
        BY <1>1, <1>2, <2>2
      <3>3. QED BY <1>1, <3>1, <3>2
    <2>3. QED BY <1>1, <1>2, <2>1, <2>2
  <1>4. QED BY Zenon, <1>2, <1>3 DEF t

(* A FIN is taken only when everything before it has been received. *)
LEMMA FinReceived ==
    ASSUME ShortStream, NEW c, ConnOK(c), c.listed, "SYN" \in c.state.rcvd,
           NEW n \in Nat, ReceivingOK(c, n), NEW q \in QueuedPacket,
           PartOfStream(q), q.fin
    PROVE  LET d == tcp_rx_fin(c, Add(q.seq, q.len))
           IN  /\ ReceivingOK(d, n) /\ (c.xfer_closed => d.xfer_closed)
               /\ Received(d) + d.rcv_win >= Received(c) + c.rcv_win
               /\ d.rc = "ok" => c.rc = "ok" \/ n = RxBytes
  <1> DEFINE end    == Add(q.seq, q.len)
             heard  == tcp_rx_seq(c, 1)
             marked == [heard EXCEPT !.state.rcvd = @ \cup {"FIN"}]
             d      == tcp_rx_fin(c, end)
  <1>1. /\ c \in Connection /\ PeerISS \in SeqNo /\ RxBytes \in Nat
        /\ SeqSpace \in Nat /\ RxBytes + 2 < SeqSpace
        /\ c.rcv_win \in Nat /\ Received(c) \in Nat
    BY TcpAssumption, SeqSpaceAssumption, ConnectionFields, ReceivedType
    DEF ConnOK, ShortStream
  <1>2. /\ q.pos \in Nat /\ q.len \in Nat /\ q.seq = Add(PeerISS, q.pos)
        /\ q.pos + q.len = RxBytes + 1
    BY DEF PartOfStream, QueuedPacket
  <1>3. end = Add(PeerISS, RxBytes + 1) /\ RxBytes + 1 \in SeqNo
    <2>1. q.pos \in SeqNo /\ q.len \in SeqNo /\ RxBytes + 1 \in SeqNo
          /\ q.pos + q.len < SeqSpace
      BY <1>1, <1>2 DEF SeqNo
    <2>2. Add(Add(PeerISS, q.pos), q.len) = Add(PeerISS, q.pos + q.len)
      BY <1>1, <2>1, SeqDistance
    <2>3. QED BY Zenon, <1>2, <2>1, <2>2
  <1> HIDE DEF end
  <1>4. CASE end # c.rcv_ack
    <2>1. d = c
      BY Zenon, <1>4 DEF tcp_rx_fin
    <2>2. Received(c) + c.rcv_win >= Received(c) + c.rcv_win
      BY <1>1
    <2> HIDE DEF d
    <2>3. /\ ReceivingOK(d, n) /\ (c.xfer_closed => d.xfer_closed)
          /\ Received(d) + d.rcv_win >= Received(c) + c.rcv_win
          /\ d.rc = "ok" => c.rc = "ok" \/ n = RxBytes
      BY Zenon, <2>1, <2>2
    <2>4. QED BY Zenon, <2>3 DEF d, end
  <1>5. CASE end = c.rcv_ack
    <2>1. d = tcp_close(marked, "ok")
      BY Zenon, <1>5 DEF tcp_rx_fin
    <2>2. Received(c) = RxBytes + 1
      <3>1. Sub(Add(PeerISS, RxBytes + 1), PeerISS) = RxBytes + 1
        BY Zenon, <1>1, <1>3, SeqDistance
      <3>2. QED BY Zenon, <1>3, <1>5, <3>1 DEF Received
    <2>3. /\ heard \in Connection /\ Received(heard) = RxBytes + 2
          /\ heard.rcv_win + 1 >= c.rcv_win
      <3>1. Received(c) + 1 < SeqSpace /\ 1 \in Nat
            /\ Received(c) + 1 = RxBytes + 2
        BY <1>1, <2>2
      <3>2. QED BY Zenon, <1>1, <3>1, RxSeqReceived
    <2>4. /\ ConnOK(heard) /\ heard.listed /\ heard.state = c.state
          /\ heard.xfer_closed = c.xfer_closed
          /\ heard.rx_queue = c.rx_queue /\ heard.rc = c.rc
      <3>1. 1 \in Nat
        OBVIOUS
      <3>2. QED BY Zenon, <3>1, RxSeqOK
    <2> HIDE DEF heard, d
    <2>5. /\ marked \in Connection /\ Same(heard, marked, {"state"})
          /\ marked.state.acked = heard.state.acked
          /\ marked.state.sent = heard.state.sent
          /\ marked.state.rcvd = heard.state.rcvd \cup {"FIN"}
      BY Zenon, <2>3 DEF Connection, Same, Fields, Flags
    <2> HIDE DEF marked
    <2>6. ConnOK(marked) /\ marked.listed /\ "SYN" \in marked.state.rcvd
      BY Zenon, <2>4, <2>5, MarkReceived
    <2>7. /\ marked.rcv_ack = heard.rcv_ack /\ marked.rcv_win = heard.rcv_win
          /\ marked.rx_queue = c.rx_queue /\ marked.rc = c.rc
          /\ marked.xfer_closed = c.xfer_closed
      BY Zenon, <2>4, <2>5 DEF Same, Fields
    <2>8. "ok" \in Reasons \ {"none"}
      BY DEF Reasons
    <2>9. /\ d.rc = Reason(marked, "ok") /\ d.xfer_closed
          /\ RxStays(marked, d) /\ ConnOK(d)
      BY Zenon, <2>1, <2>6, <2>8, CloseStays, CloseOK
    <2>10. Received(d) = RxBytes + 2 /\ d.rcv_win >= heard.rcv_win
      BY <2>3, <2>7, <2>9 DEF RxStays, Received
    <2>11. ReceivingOK(d, n)
      <3>1. RxBytes + 2 \in 1..(RxBytes + 2)
        BY <1>1
      <3>2. /\ d \in Connection /\ Len(c.rx_queue) \in Nat
            /\ Len(d.rx_queue) \in Nat
        BY SMTT(30), <1>1, <2>9, ConnectionFields, LenProperties DEF ConnOK
      <3>3. \A i \in 1..Len(d.rx_queue) : PartOfStream(d.rx_queue[i])
        BY <2>7, <2>9, <3>2 DEF RxStays, ReceivingOK
      <3>4. QED BY Zenon, <2>9, <2>10, <3>1, <3>3 DEF ReceivingOK
    <2>12. Received(d) + d.rcv_win >= Received(c) + c.rcv_win
      <3>1. heard.rcv_win \in Nat /\ d.rcv_win \in Nat
        BY <2>3, <2>9, ConnectionFields DEF ConnOK
      <3>2. QED BY <1>1, <2>2, <2>3, <2>10, <3>1
    <2>13. d.rc = "ok" => c.rc = "ok" \/ n = RxBytes
      <3>1. CASE c.xfer_closed
        BY <2>7, <2>9, <3>1 DEF Reason
      <3>2. CASE ~c.xfer_closed
        BY <1>1, <2>2, <3>2 DEF ReceivingOK
      <3>3. QED BY <3>1, <3>2
    <2>14. QED BY Zenon, <2>9, <2>11, <2>12, <2>13 DEF d, end
  <1>6. QED BY Zenon, <1>4, <1>5

-----------------------------------------------------------------------------
(* The right edge the network has heard of stays within one that bounds    *)
(* both the old one and that of the transmitted segment.                   *)
LEMMA EdgeBounded ==
    ASSUME wire \in Wire, NEW x, x.c \in Connection, x.sent \in BOOLEAN,
           NEW seq, Transmitted(x, seq), NEW right \in Nat,
           ~wire.est => wire.edge = 0, wire.est => wire.edge <= right,
           Received(x.c) + x.c.rcv_win <= right
    PROVE  /\ ~wire'.est => wire'.edge = 0
           /\ wire'.est => wire'.edge <= right
  <1> DEFINE acking == "ACK" \in TCP_FLAGS_SENDING(x.c.state)
             whole  == x.c.rcv_win - (x.c.rcv_win % x.c.rcv_scale)
             edge   == Received(x.c) + whole
             told   == Advertise(wire, x.c)
  <1>1. wire' = IF x.sent THEN told ELSE wire
    BY Zenon DEF Transmitted
  <1>2. /\ told.est = (wire.est \/ acking)
        /\ told.edge = IF acking THEN Maximum(wire.edge, edge) ELSE wire.edge
    BY DEF Advertise, Received
  <1>3. /\ wire.edge \in Nat /\ wire.est \in BOOLEAN
        /\ x.c.rcv_win \in Nat /\ Received(x.c) \in Nat
        /\ x.c.rcv_scale \in Nat \ {0}
    BY ConnectionFields, ReceivedType, TcpConnAssumption DEF Wire
  <1>4. \A a \in Nat, n \in Nat \ {0} : a % n \in 0..a
    OBVIOUS
  <1>5. x.c.rcv_win % x.c.rcv_scale \in 0..x.c.rcv_win
    BY <1>3, <1>4
  <1>6. edge \in Nat /\ edge <= right
    BY <1>3, <1>5
  <1>7. acking \in BOOLEAN
    OBVIOUS
  <1> HIDE DEF acking, edge, told
  <1>8. wire.edge <= right
    BY <1>3
  <1>9. /\ ~told.est => told.edge = 0
        /\ told.est => told.edge <= right
    BY <1>2, <1>3, <1>6, <1>7, <1>8 DEF Maximum
  <1>10. QED BY <1>1, <1>9

(* A step that receives nothing, or deletes the connection, keeps the      *)
(* third invariant.                                                        *)
LEMMA StreamStays ==
    ASSUME StreamInv, StateInv', UNCHANGED delivered, tcp.listed,
           tcp'.rc = "ok" => tcp.rc = "ok",
           tcp'.listed => RxStays(tcp, tcp'),
           ~tcp'.listed => tcp'.xfer_closed,
           \/ UNCHANGED wire
           \/ \E x, seq : /\ x.c \in Connection /\ x.sent \in BOOLEAN
                          /\ Transmitted(x, seq)
                          /\ x.c.listed = tcp'.listed
                          /\ x.c.rcv_ack = tcp'.rcv_ack
                          /\ x.c.rcv_win = tcp'.rcv_win
    PROVE  StreamInv'
  <1> DEFINE right == Received(tcp') + tcp'.rcv_win
  <1>1. tcp \in Connection /\ tcp' \in Connection
    BY DEF StreamInv, StateInv, QuietInv, TypeOK
  <1>2. /\ wire \in Wire /\ delivered \in Seq(Nat)
        /\ (wire.est => "SYN" \in tcp.state.rcvd)
    BY DEF StreamInv, StateInv, QuietInv, TypeOK, Wire
  <1>3. Len(delivered) \in Nat
    BY <1>2, LenProperties
  <1>4. /\ Received(tcp) \in Nat /\ tcp.rcv_win \in Nat /\ wire.edge \in Nat
        /\ Received(tcp') \in Nat /\ tcp'.rcv_win \in Nat
        /\ tcp'.xfer_closed \in BOOLEAN /\ tcp.xfer_closed \in BOOLEAN
    BY <1>1, <1>2, ReceivedType, ConnectionFields DEF Wire
  <1>5. ASSUME tcp'.listed
        PROVE  /\ "SYN" \in tcp'.state.rcvd <=> "SYN" \in tcp.state.rcvd
               /\ Received(tcp') = Received(tcp)
               /\ tcp'.rcv_win >= tcp.rcv_win
               /\ ~tcp'.xfer_closed => ~tcp.xfer_closed
    BY <1>4, <1>5 DEF RxStays, Received
  <1>6. /\ ~wire'.est => wire'.edge = 0
        /\ tcp'.listed /\ wire'.est => wire'.edge <= right
    <2>1. /\ ~wire.est => wire.edge = 0
          /\ wire.est => wire.edge <= Received(tcp) + tcp.rcv_win
      BY DEF StreamInv
    <2>2. CASE UNCHANGED wire
      BY <1>4, <1>5, <2>1, <2>2
    <2>3. CASE \E x, seq : /\ x.c \in Connection /\ x.sent \in BOOLEAN
                           /\ Transmitted(x, seq)
                           /\ x.c.listed = tcp'.listed
                           /\ x.c.rcv_ack = tcp'.rcv_ack
                           /\ x.c.rcv_win = tcp'.rcv_win
      <3>1. PICK x, seq : /\ x.c \in Connection /\ x.sent \in BOOLEAN
                          /\ Transmitted(x, seq)
                          /\ x.c.listed = tcp'.listed
                          /\ x.c.rcv_ack = tcp'.rcv_ack
                          /\ x.c.rcv_win = tcp'.rcv_win
        BY Zenon, <2>3
      <3>2. Received(x.c) = Received(tcp')
        BY <3>1 DEF Received
      <3> DEFINE most == Maximum(right, wire.edge)
      <3>3. /\ most \in Nat /\ Received(x.c) + x.c.rcv_win <= most
            /\ wire.edge <= most
        BY <1>4, <3>1, <3>2 DEF Maximum
      <3>4. tcp'.listed /\ wire.est => wire.edge <= right
        BY <1>4, <1>5, <2>1
      <3>5. ~wire'.est => wire'.edge = 0
        <4> HIDE DEF most
        <4>1. QED BY Zenon, <1>2, <2>1, <3>1, <3>3, EdgeBounded
      <3>6. ASSUME tcp'.listed PROVE wire'.est => wire'.edge <= right
        <4>1. /\ right \in Nat /\ Received(x.c) + x.c.rcv_win <= right
              /\ wire.est => wire.edge <= right
          BY SMTT(30), <1>4, <3>1, <3>2, <3>4, <3>6
        <4> HIDE DEF right
        <4>2. QED BY Zenon, <1>2, <2>1, <3>1, <4>1, EdgeBounded
      <3>7. QED BY Zenon, <3>5, <3>6
    <2>4. QED BY Zenon, <2>2, <2>3
  <1> HIDE DEF right
  <1>7. tcp'.listed /\ "SYN" \in tcp'.state.rcvd
          => ReceivingOK(tcp', Len(delivered))
    BY <1>1, <1>3, <1>5, ReceivingStays DEF StreamInv
  <1>8. "SYN" \notin tcp'.state.rcvd /\ ~tcp'.xfer_closed => delivered = <<>>
    BY <1>5 DEF StreamInv
  <1>9. QED BY SMTT(30), <1>6, <1>7, <1>8 DEF StreamInv, right

(* A step that ends in a transmission attempt receives nothing. *)
LEMMA StreamXmit ==
    ASSUME StreamInv, StateInv', UNCHANGED delivered, tcp.listed, NEW d,
           ConnOK(d), d.rc = tcp.rc, d.listed, RxStays(tcp, d),
           NEW env \in Environments, Transmit(tcp_xmit_sack(d, env))
    PROVE  StreamInv'
  <1> DEFINE x == tcp_xmit_sack(d, env)
  <1>1. tcp \in Connection /\ d \in Connection /\ TxQueueOK(d)
    BY DEF ConnOK, StreamInv, StateInv, QuietInv, TypeOK
  <1>2. /\ x.c \in Connection /\ x.sent \in BOOLEAN /\ x.c.listed = d.listed
        /\ x.c.rc = d.rc /\ RxStays(d, x.c)
    BY Zenon, <1>1, XmitSack, XmitKeeps, XmitStays
  <1>3. tcp' = x.c /\ Transmitted(x, x.c.rcv_ack)
    BY DEF Transmit
  <1> HIDE DEF x
  <1>4. RxStays(tcp, tcp')
    BY Zenon, <1>1, <1>2, <1>3, RxStaysTwice
  <1>5. QED BY ZenonT(40), <1>2, <1>3, <1>4, StreamStays

(* Neither does a step of the application. *)
LEMMA StreamReact ==
    ASSUME StreamInv, StateInv', UNCHANGED delivered, tcp.listed,
           NEW env \in Environments, NEW r \in Reactions(tcp),
           Transmit(React(tcp, r, env))
    PROVE  StreamInv'
  <1> DEFINE x == React(tcp, r, env)
  <1>1. ConnOK(tcp)
    BY DEF StreamInv, StateInv, QuietInv
  <1>2. /\ ConnOK(x.c) /\ x.sent \in BOOLEAN
        /\ x.c.listed => RxStays(tcp, x.c)
        /\ ~x.c.listed => x.c.xfer_closed
        /\ x.c.rc = tcp.rc \/ x.c.rc = "app"
    BY Zenon, <1>1, ReactOK, ReactStays
  <1>3. tcp' = x.c /\ Transmitted(x, x.c.rcv_ack)
    BY DEF Transmit
  <1> HIDE DEF x
  <1>4. x.c \in Connection /\ (tcp'.rc = "ok" => tcp.rc = "ok")
    BY <1>2, <1>3 DEF ConnOK
  <1>5. QED BY Zenon, <1>2, <1>3, <1>4, StreamStays

(* Nor does an abort, for a reason other than the end of the stream. *)
LEMMA StreamAbort ==
    ASSUME StreamInv, StateInv', UNCHANGED <<delivered, wire>>, tcp.listed,
           NEW d, ConnOK(d), d.listed, d.rc = tcp.rc,
           NEW rc \in Reasons \ {"none"},
           rc = "ok" => d.xfer_closed,
           tcp' = Abort(d, rc)
    PROVE  StreamInv'
  <1>1. ~tcp'.listed /\ tcp'.xfer_closed /\ tcp'.rc = Reason(d, rc)
    BY Zenon, AbortListed, AbortReason
  <1>2. tcp'.rc = "ok" => tcp.rc = "ok"
    BY <1>1 DEF Reason
  <1>3. QED BY Zenon, <1>1, <1>2, StreamStays

(* The segments of a conforming peer, seen from the receiving side. *)
LEMMA PeerSegmentParts ==
    ASSUME NEW seg \in PeerSegments, peer_rcv \in Nat, wire \in Wire
    PROVE  /\ "SYN" \in seg.flags => /\ seg.seq = PeerISS /\ seg.len = 0
                                     /\ "FIN" \notin seg.flags
           /\ seg.len > 0 \/ "FIN" \in seg.flags =>
                /\ seg.seq = Add(PeerISS, seg.pos) /\ seg.pos > 0
                /\ seg.pos + seg.len <= RxBytes + 1
                /\ "FIN" \in seg.flags => seg.pos + seg.len = RxBytes + 1
  <1>1. PeerISS \in SeqNo /\ RxBytes \in Nat /\ PeerISS \in Nat
    BY TcpAssumption DEF SeqNo
  <1>2. CASE seg \in SynSegments
    <2>1. \E f \in {{"SYN", "ACK"}, {"SYN"}} :
             \E a, w : seg = Segment(f, 0, 0, a, w)
      BY <1>2 DEF SynSegments
    <2>2. /\ seg.flags \in {{"SYN", "ACK"}, {"SYN"}} /\ seg.len = 0
          /\ seg.seq = Add(PeerISS, 0)
      BY <2>1 DEF Segment
    <2>3. Add(PeerISS, 0) = PeerISS
      <3>1. 0 \in SeqNo
        BY SeqSpaceAssumption DEF SeqNo
      <3>2. Add(PeerISS, 0) = IF PeerISS + 0 < SeqSpace THEN PeerISS + 0
                              ELSE (PeerISS + 0) - SeqSpace
        BY Zenon, <1>1, <3>1, SeqValues
      <3>3. PeerISS < SeqSpace
        BY <1>1, SeqSpaceAssumption DEF SeqNo
      <3>4. QED BY <1>1, <3>2, <3>3
    <2>4. QED BY <2>2, <2>3
  <1>3. CASE seg \in DataSegments
    <2>1. PICK fin \in {{}, {"FIN"}}, u \in 1..(RxBytes + 2), n \in 0..RxBytes,
               a \in 1..peer_rcv, w \in PeerWindows :
                 seg = Segment({"ACK"} \cup fin, u, n, a, w)
      BY <1>3 DEF DataSegments
    <2>2. /\ seg.flags = {"ACK"} \cup fin /\ seg.pos = u /\ seg.len = n
          /\ seg.seq = Add(PeerISS, u)
      BY <2>1 DEF Segment
    <2>3. /\ seg.len > 0 \/ "FIN" \in seg.flags =>
                seg.pos + seg.len <= RxBytes + 1
          /\ "FIN" \in seg.flags => seg.pos + seg.len = RxBytes + 1
      BY <1>3 DEF DataSegments
    <2>4. "SYN" \notin seg.flags /\ u > 0
      BY <1>1, <2>2
    <2>5. QED BY <2>2, <2>3, <2>4
  <1>4. CASE seg \in ResetSegments
    <2>1. CASE \E a \in {1} :
                  seg = [Segment({"RST", "ACK"}, 0, 0, a, 0) EXCEPT !.seq = 0]
      BY <2>1 DEF Segment
    <2>2. CASE \E u \in 1..Minimum(wire.edge, RxBytes + 2),
                  a \in 1..peer_rcv, w \in PeerWindows :
                    seg = Segment({"RST", "ACK"}, u, 0, a, w)
      BY <2>2 DEF Segment
    <2>3. QED BY <1>4, <2>1, <2>2 DEF ResetSegments
  <1>5. QED BY <1>2, <1>3, <1>4 DEF PeerSegments

(* What a segment has changed once tcp_rx has handled its SYN. *)
LEMMA RxSyncedReceived ==
    ASSUME ShortStream, NEW c, ConnOK(c), c.listed, NEW seg \in Segments,
           "SYN" \in seg.flags => seg.seq = PeerISS, NEW n \in Nat,
           "SYN" \in c.state.rcvd => ReceivingOK(c, n),
           "SYN" \notin c.state.rcvd /\ ~c.xfer_closed => n = 0
    PROVE  LET d == RxSynced(c, seg)
           IN  /\ d.rc = c.rc /\ (c.xfer_closed => d.xfer_closed)
               /\ "SYN" \in d.state.rcvd => ReceivingOK(d, n)
               /\ "SYN" \in c.state.rcvd =>
                    Received(d) = Received(c) /\ d.rcv_win >= c.rcv_win
  <1> DEFINE f == RxForced(RxAcked(c, seg), seg)
             d == RxSynced(c, seg)
  <1>1. ConnOK(f) /\ f.listed /\ RxStays(c, f) /\ f.rc = c.rc
    BY Zenon, RxForcedStays
  <1>2. d = IF "SYN" \in seg.flags THEN tcp_rx_syn(f, seg) ELSE f
    BY Zenon DEF RxSynced
  <1> HIDE DEF f, d
  <1>3. c \in Connection /\ f \in Connection /\ RxBytes \in Nat
    BY <1>1, TcpAssumption DEF ConnOK
  <1>4. /\ f.state.rcvd = c.state.rcvd /\ Received(f) = Received(c)
        /\ f.rcv_win >= c.rcv_win /\ (c.xfer_closed => f.xfer_closed)
    BY <1>1 DEF RxStays, Received
  <1>5. "SYN" \in c.state.rcvd => ReceivingOK(f, n)
    BY Zenon, <1>1, <1>3, ReceivingStays
  <1>6. CASE "SYN" \notin seg.flags \/ "SYN" \in c.state.rcvd
    <2>1. CASE "SYN" \notin seg.flags
      <3>1. d = f
        BY Zenon, <1>2, <2>1
      <3>2. QED BY Zenon, <1>1, <1>4, <1>5, <3>1 DEF d
    <2>2. CASE "SYN" \in seg.flags /\ "SYN" \in c.state.rcvd
      <3>1. Received(f) \in 1..(RxBytes + 2)
        BY Zenon, <1>5, <2>2 DEF ReceivingOK
      <3>2. tcp_rx_syn(f, seg) = f
        BY Zenon, <1>1, <1>4, <2>2, <3>1, RxSynReceived
      <3>3. d = f
        BY Zenon, <1>2, <2>2, <3>2
      <3>4. QED BY Zenon, <1>1, <1>4, <1>5, <2>2, <3>3 DEF d
    <2>3. QED BY Zenon, <1>6, <2>1, <2>2
  <1>7. CASE "SYN" \in seg.flags /\ "SYN" \notin c.state.rcvd
    <2> DEFINE y == tcp_rx_syn(f, seg)
    <2>1. d = y
      BY Zenon, <1>2, <1>7
    <2>2. /\ y.rc = f.rc /\ y.xfer_closed = f.xfer_closed
          /\ Received(y) = 1 /\ y.rx_queue = f.rx_queue
      BY Zenon, <1>1, <1>4, <1>7, RxSynReceived
    <2>3. f.rx_queue = <<>>
      BY <1>1, <1>4, <1>7 DEF ConnOK, RxAndReasonOK
    <2> HIDE DEF y
    <2>4. Len(d.rx_queue) = 0
      BY <2>1, <2>2, <2>3
    <2>5. 1 \in 1..(RxBytes + 2)
      BY <1>3
    <2>6. ~d.xfer_closed => n = 0
      BY Zenon, <1>4, <1>7, <2>1, <2>2
    <2>7. ReceivingOK(d, n)
      BY <2>1, <2>2, <2>4, <2>5, <2>6 DEF ReceivingOK
    <2>8. QED BY Zenon, <1>1, <1>4, <1>7, <2>1, <2>2, <2>7 DEF d
  <1>8. QED BY Zenon, <1>6, <1>7

(* A segment that arrives, up to the receive queue. *)
LEMMA StreamRx ==
    ASSUME ShortStream, StreamInv, StateInv', NEW seg \in PeerSegments,
           tcp_rx(seg)
    PROVE  StreamInv'
  <1> DEFINE synced == RxSynced(tcp, seg)
             seq    == IF "SYN" \in seg.flags THEN Add(seg.seq, 1) ELSE seg.seq
             reset  == "RST" \in seg.flags /\ RstAcceptable(synced, seq)
             n      == Len(delivered)
             d      == tcp_rx_enqueue(synced, seq, seg)
  <1>1. /\ ConnOK(tcp) /\ tcp \in Connection /\ wire \in Wire
        /\ peer_rcv \in Nat /\ delivered \in Seq(Nat)
    BY DEF StreamInv, StateInv, QuietInv, TypeOK, Wire
  <1>2. seg \in Segments
    BY SMTT(30), <1>1, PeerSegmentsType
  <1>3. /\ tcp.listed
        /\ \/ reset /\ tcp' = Abort(synced, "reset")
           \/ ~reset /\ tcp' = d
        /\ UNCHANGED <<delivered, wire>>
    BY DEF tcp_rx, Idle, RxSynced, RxForced, RxAcked
  <1>4. seq \in SeqNo
    <2>1. seg.seq \in SeqNo /\ seg.seq \in Int
      BY <1>2 DEF Segments, SeqNo
    <2>2. Add(seg.seq, 1) \in SeqNo
      BY <2>1, SeqNoType
    <2>3. QED BY <2>1, <2>2
  <1>5. /\ "SYN" \in seg.flags => seg.seq = PeerISS
        /\ seg.len > 0 \/ "FIN" \in seg.flags =>
              /\ seq = Add(PeerISS, seg.pos) /\ seg.pos > 0
              /\ seg.pos + seg.len <= RxBytes + 1
              /\ "FIN" \in seg.flags => seg.pos + seg.len = RxBytes + 1
    <2>1. "SYN" \in seg.flags => ~(seg.len > 0) /\ "FIN" \notin seg.flags
      BY <1>1, PeerSegmentParts
    <2>2. QED BY Zenon, <1>1, <2>1, PeerSegmentParts
  <1>6. n \in Nat /\ (delivered = <<>> => n = 0)
    BY <1>1, LenProperties
  <1>7. ConnOK(synced) /\ synced.listed
        /\ tcp.state.rcvd \subseteq synced.state.rcvd
    BY Zenon, <1>1, <1>2, <1>3, RxSyncedOK
  <1>8. /\ "SYN" \in tcp.state.rcvd => ReceivingOK(tcp, n)
        /\ "SYN" \notin tcp.state.rcvd /\ ~tcp.xfer_closed => n = 0
    BY Zenon, <1>3, <1>6 DEF StreamInv
  <1> HIDE DEF n, seq, reset
  <1>9. /\ synced.rc = tcp.rc /\ (tcp.xfer_closed => synced.xfer_closed)
        /\ "SYN" \in synced.state.rcvd => ReceivingOK(synced, n)
        /\ "SYN" \in tcp.state.rcvd =>
             Received(synced) = Received(tcp) /\ synced.rcv_win >= tcp.rcv_win
    BY Zenon, <1>1, <1>2, <1>3, <1>5, <1>6, <1>8, RxSyncedReceived
  <1> HIDE DEF synced
  <1>10. CASE reset /\ tcp' = Abort(synced, "reset")
    <2>1. "reset" \in Reasons \ {"none"} /\ "reset" # "ok"
      BY SMTT(30) DEF Reasons
    <2>2. QED BY Zenon, <1>3, <1>7, <1>9, <1>10, <2>1, StreamAbort
  <1>11. CASE ~reset /\ tcp' = d
    <2>1. \A i \in 1..Len(synced.rx_queue) : PartOfStream(synced.rx_queue[i])
      <3>1. CASE "SYN" \in synced.state.rcvd
        BY <1>9, <3>1 DEF ReceivingOK
      <3>2. CASE "SYN" \notin synced.state.rcvd
        <4>1. synced.rx_queue = <<>>
          BY <1>7, <3>2 DEF ConnOK, RxAndReasonOK
        <4>2. QED BY <4>1
      <3>3. QED BY <3>1, <3>2
    <2>2. /\ \A i \in 1..Len(d.rx_queue) : PartOfStream(d.rx_queue[i])
          /\ d.rcv_ack = synced.rcv_ack /\ d.rcv_win = synced.rcv_win
      BY Zenon, <1>2, <1>4, <1>5, <1>7, <2>1, EnqueuePart
    <2>3. /\ d.state = synced.state /\ d.rc = synced.rc
          /\ d.xfer_closed = synced.xfer_closed
      BY Zenon, <1>2, <1>4, <1>7, RxEnqueue
    <2> HIDE DEF d
    <2>4. Received(d) = Received(synced)
      BY <2>2 DEF Received
    <2>5. "SYN" \in d.state.rcvd => ReceivingOK(d, n)
      BY Zenon, <1>9, <2>2, <2>3, <2>4 DEF ReceivingOK
    <2>6. "SYN" \notin d.state.rcvd /\ ~d.xfer_closed => delivered = <<>>
      BY Zenon, <1>7, <1>9, <2>3 DEF StreamInv
    <2>7. wire.est => wire.edge <= Received(d) + d.rcv_win
      <3> SUFFICES ASSUME wire.est PROVE wire.edge <= Received(d) + d.rcv_win
        OBVIOUS
      <3>1. "SYN" \in tcp.state.rcvd /\ wire.edge <= Received(tcp) + tcp.rcv_win
        BY Zenon, <1>3 DEF StreamInv, StateInv
      <3>2. /\ wire.edge \in Nat /\ Received(tcp) \in Nat /\ tcp.rcv_win \in Nat
            /\ synced.rcv_win \in Nat
        BY <1>1, <1>7, ReceivedType, ConnectionFields DEF Wire, ConnOK
      <3>3. QED BY <1>9, <2>2, <2>4, <3>1, <3>2
    <2>8. d.rc = "ok" => Len(delivered) = RxBytes
      BY Zenon, <1>9, <2>3 DEF StreamInv
    <2>9. QED BY SMTT(30), <1>3, <1>11, <2>5, <2>6, <2>7, <2>8 DEF StreamInv, n
  <1>12. QED BY Zenon, <1>3, <1>10, <1>11

(* One turn of the loop of tcp_process_rx_queue. *)
LEMMA StreamQueue ==
    ASSUME ShortStream, StreamInv, StateInv', NEW env \in Environments,
           NEW r \in Reactions(tcp), tcp_process_rx_queue(r, env)
    PROVE  StreamInv'
  <1> DEFINE q     == Head(tcp.rx_queue)
             rest  == Tail(tcp.rx_queue)
             taken == [tcp EXCEPT !.rx_queue = Tail(@)]
             skip  == AlreadyRcvd(tcp, q)
             fresh == ~tcp.xfer_closed /\ skip < q.len
             data  == tcp_rx_data(taken, q)
             x     == React(data, r, env)
             c     == IF q.fin THEN tcp_rx_fin(x.c, Add(q.seq, q.len))
                      ELSE x.c
             n     == Len(delivered)
             m     == Len(delivered')
  <1>1. /\ pc = "queue" /\ tcp' = c /\ Transmitted(x, x.c.rcv_ack)
        /\ tcp.rx_queue # <<>> /\ tcp_cmp(q.seq, tcp.rcv_ack) <= 0
        /\ delivered' = IF fresh
                        THEN delivered \o [i \in 1..(q.len - skip) |->
                                             q.pos + skip + (i - 1)]
                        ELSE delivered
    BY Zenon DEF tcp_process_rx_queue, Applicable
  <1> HIDE DEF q, rest, taken, skip, fresh, data, x, c, n, m
  <1>2. /\ ConnOK(tcp) /\ tcp \in Connection /\ wire \in Wire
        /\ delivered \in Seq(Nat) /\ tcp.listed
        /\ delivered' \in Seq(Nat)
    BY Zenon, <1>1 DEF StreamInv, StateInv, QuietInv, TypeOK, Wire
  <1>3. /\ RxBytes \in Nat /\ n \in Nat /\ m \in Nat
        /\ tcp.rcv_win \in Nat /\ Received(tcp) \in Nat
        /\ wire.edge \in Nat /\ tcp.xfer_closed \in BOOLEAN
    BY <1>2, TcpAssumption, LenProperties, ConnectionFields, ReceivedType
    DEF Wire, n, m
  <1>4. "SYN" \in tcp.state.rcvd /\ ReceivingOK(tcp, n)
    BY Zenon, <1>1, <1>2 DEF StreamInv, ConnOK, RxAndReasonOK, n
  <1>5. /\ tcp.rx_queue \in Seq(QueuedPacket) /\ rest \in Seq(QueuedPacket)
        /\ q \in QueuedPacket /\ Len(rest) = Len(tcp.rx_queue) - 1
        /\ Len(tcp.rx_queue) \in Nat /\ Len(rest) \in Nat
        /\ \A i \in 1..Len(rest) : rest[i] = tcp.rx_queue[i + 1]
        /\ q = tcp.rx_queue[1]
    <2>1. tcp.rx_queue # <<>> /\ tcp.rx_queue \in Seq(QueuedPacket)
      BY Zenon, <1>1, <1>2, ConnectionFields
    <2>2. QED BY <2>1, HeadTailProperties, LenProperties DEF q, rest
  <1>6. PartOfStream(q) /\ \A i \in 1..Len(rest) : PartOfStream(rest[i])
    BY <1>4, <1>5 DEF ReceivingOK
  <1>7. /\ ConnOK(taken) /\ taken.listed /\ taken.state = tcp.state
        /\ taken.rc = tcp.rc /\ taken.xfer_closed = tcp.xfer_closed
        /\ taken.tx_queue = tcp.tx_queue /\ taken.tx_pos = tcp.tx_pos
    BY Zenon, <1>1, <1>2, Taken DEF taken
  <1>8. /\ taken.rcv_ack = tcp.rcv_ack /\ taken.rcv_win = tcp.rcv_win
        /\ taken.rx_queue = rest
    BY Zenon, <1>2 DEF Connection, taken, rest
  <1>9. /\ q.pos \in Nat /\ q.len \in Nat /\ q.pos > 0
        /\ q.pos + q.len <= RxBytes + 1
    BY <1>5, <1>6 DEF QueuedPacket, PartOfStream
  <1> USE DEF data, fresh, x, c
  <1>10. q.pos <= Received(tcp) /\ skip = Received(tcp) - q.pos
    BY Zenon, <1>1, <1>2, <1>4, <1>5, <1>6, ApplicableStarts
    DEF skip, ReceivingOK
  <1>11. /\ Received(data) = Maximum(Received(tcp), q.pos + q.len)
         /\ Received(data) + data.rcv_win >= Received(tcp) + tcp.rcv_win
    <2>1. taken \in Connection /\ Received(taken) = Received(tcp)
      BY Zenon, <1>7, <1>8 DEF ConnOK, Received
    <2>2. Received(taken) \in 1..(RxBytes + 2)
      BY Zenon, <1>4, <2>1 DEF ReceivingOK
    <2>3. tcp_cmp(q.seq, taken.rcv_ack) <= 0
      BY Zenon, <1>1, <1>8
    <2>4. /\ Received(data) = Maximum(Received(taken), q.pos + q.len)
          /\ Received(data) + data.rcv_win >= Received(taken) + taken.rcv_win
      BY Zenon, <1>5, <1>6, <2>1, <2>2, <2>3, DataReceived
    <2> HIDE DEF data
    <2>5. QED BY Zenon, <1>8, <2>1, <2>4
  <1>12. /\ ConnOK(data) /\ data.listed /\ data.state = taken.state
         /\ data.xfer_closed = taken.xfer_closed /\ data.rc = taken.rc
         /\ data.rx_queue = taken.rx_queue
         /\ data.tx_queue = taken.tx_queue /\ data.tx_pos = taken.tx_pos
    BY Zenon, <1>5, <1>7, RxData
  <1> HIDE DEF data
  <1>13. /\ \A i \in 1..m : delivered'[i] = i
         /\ n <= m /\ (n < m => m <= RxBytes)
         /\ ~tcp.xfer_closed => Received(data) = m + 1
    <2>1. \A i \in 1..n : delivered[i] = i
      BY DEF StreamInv, n
    <2>2. ~tcp.xfer_closed => Received(tcp) = n + 1
      BY Zenon, <1>4 DEF ReceivingOK
    <2>3. CASE fresh
      <3>1. /\ skip \in Nat /\ skip < q.len /\ q.pos + skip = n + 1
            /\ ~tcp.xfer_closed
        BY <1>3, <1>9, <1>10, <2>2, <2>3
      <3> DEFINE k == q.len - skip
                 u == [i \in 1..k |-> q.pos + skip + (i - 1)]
      <3>2. delivered' = delivered \o u
        BY Zenon, <1>1, <2>3
      <3>3. /\ u \in Seq(Nat) /\ Len(u) = k /\ n + k = (q.pos + q.len) - 1
            /\ \A i \in 1..k : u[i] = n + i
        <4>1. k \in Nat /\ n + k = (q.pos + q.len) - 1
          BY <1>3, <1>9, <3>1
        <4> HIDE DEF k
        <4>2. u \in [1..k -> Nat] /\ \A i \in 1..k : u[i] = n + i
          <5>1. \A i \in 1..k : /\ q.pos + skip + (i - 1) = n + i
                                /\ n + i \in Nat
            BY <1>3, <1>9, <3>1, <4>1
          <5>2. QED BY Zenon, <5>1
        <4> HIDE DEF u
        <4>3. u \in Seq(Nat) /\ Len(u) = k
          BY <4>1, <4>2
        <4>4. QED BY <4>1, <4>2, <4>3
      <3> HIDE DEF u, k
      <3>4. m = (q.pos + q.len) - 1 /\ \A j \in 1..m : delivered'[j] = j
        <4>1. /\ Len(delivered \o u) = n + k
              /\ \A j \in 1..Len(delivered \o u) : (delivered \o u)[j] = j
          BY Zenon, <1>2, <2>1, <3>3, DeliveredInOrder DEF n
        <4>2. QED BY Zenon, <3>2, <3>3, <4>1 DEF m
      <3>5. n < m /\ m <= RxBytes
        BY SMTT(30), <1>3, <1>9, <3>1, <3>4
      <3>6. Received(data) = m + 1
        BY SMTT(30), <1>3, <1>9, <1>10, <1>11, <3>1, <3>4 DEF Maximum
      <3>7. QED BY <1>3, <3>4, <3>5, <3>6
    <2>4. CASE ~fresh
      <3>1. delivered' = delivered /\ m = n
        BY Zenon, <1>1, <2>4 DEF m, n
      <3>2. ~tcp.xfer_closed => Received(data) = m + 1
        BY SMTT(30), <1>3, <1>9, <1>10, <1>11, <2>2, <2>4, <3>1 DEF Maximum
      <3>3. QED BY <1>3, <2>1, <3>1, <3>2
    <2>5. QED BY <2>3, <2>4
  <1> HIDE DEF fresh
  <1>14. ReceivingOK(data, m)
    <2>1. Received(data) \in 1..(RxBytes + 2)
      <3>1. Received(tcp) \in 1..(RxBytes + 2)
        BY Zenon, <1>4 DEF ReceivingOK
      <3>2. QED BY <1>3, <1>9, <1>11, <3>1 DEF Maximum
    <2>2. \A i \in 1..Len(data.rx_queue) : PartOfStream(data.rx_queue[i])
      BY Zenon, <1>6, <1>8, <1>12
    <2>3. QED BY Zenon, <1>7, <1>12, <1>13, <2>1, <2>2 DEF ReceivingOK
  <1>15. r \in Reactions(data)
    BY Zenon, <1>7, <1>12 DEF Reactions, TxEnd, TxLen
  <1>16. /\ ConnOK(x.c) /\ x.sent \in BOOLEAN /\ x.c.listed
         /\ "SYN" \in x.c.state.rcvd /\ RxStays(data, x.c)
         /\ x.c.rc = tcp.rc \/ x.c.rc = "app"
    <2>1. "SYN" \in data.state.rcvd
      BY Zenon, <1>4, <1>7, <1>12
    <2>2. /\ ConnOK(x.c) /\ x.sent \in BOOLEAN /\ x.c.listed
          /\ x.c.state.rcvd = data.state.rcvd
      BY Zenon, <1>12, <1>15, <2>1, ReactOK
    <2>3. RxStays(data, x.c) /\ (x.c.rc = data.rc \/ x.c.rc = "app")
      BY Zenon, <1>12, <1>15, <2>2, ReactStays
    <2> HIDE DEF x
    <2>4. QED BY Zenon, <1>7, <1>12, <2>1, <2>2, <2>3
  <1> HIDE DEF x
  <1>17. data \in Connection /\ x.c \in Connection
    BY Zenon, <1>12, <1>16 DEF ConnOK
  <1>18. ReceivingOK(x.c, m)
    BY Zenon, <1>3, <1>14, <1>16, <1>17, ReceivingStays
  <1>19. /\ Received(x.c) + x.c.rcv_win >= Received(tcp) + tcp.rcv_win
         /\ Received(x.c) \in Nat /\ x.c.rcv_win \in Nat
    <2>1. Received(x.c) = Received(data) /\ x.c.rcv_win >= data.rcv_win
      BY Zenon, <1>16 DEF RxStays, Received
    <2>2. /\ Received(data) \in Nat /\ data.rcv_win \in Nat
          /\ x.c.rcv_win \in Nat
      BY <1>17, ReceivedType, ConnectionFields
    <2>3. QED BY <1>3, <1>11, <2>1, <2>2
  <1>20. /\ ReceivingOK(c, m)
         /\ Received(c) + c.rcv_win >= Received(x.c) + x.c.rcv_win
         /\ c.rc = "ok" => x.c.rc = "ok" \/ m = RxBytes
         /\ "SYN" \in c.state.rcvd /\ c \in Connection
    <2>1. CASE ~q.fin
      <3>1. c = x.c
        BY Zenon, <2>1
      <3>2. Received(x.c) + x.c.rcv_win >= Received(x.c) + x.c.rcv_win
        BY <1>19
      <3> HIDE DEF c
      <3>3. QED BY Zenon, <1>16, <1>17, <1>18, <3>1, <3>2
    <2>2. CASE q.fin
      <3> DEFINE d == tcp_rx_fin(x.c, Add(q.seq, q.len))
      <3>1. c = d
        BY Zenon, <2>2
      <3>2. /\ ReceivingOK(d, m)
            /\ Received(d) + d.rcv_win >= Received(x.c) + x.c.rcv_win
            /\ d.rc = "ok" => x.c.rc = "ok" \/ m = RxBytes
        BY Zenon, <1>3, <1>5, <1>6, <1>16, <1>18, <2>2, FinReceived
      <3>3. ConnOK(d) /\ x.c.state.rcvd \subseteq d.state.rcvd
        BY Zenon, <1>16, RxFin
      <3> HIDE DEF d, c
      <3>4. "SYN" \in d.state.rcvd /\ d \in Connection
        BY Zenon, <1>16, <3>3 DEF ConnOK
      <3>5. QED BY Zenon, <3>1, <3>2, <3>4
    <2>3. QED BY Zenon, <2>1, <2>2
  <1> HIDE DEF c
  <1>21. c.rc = "ok" => m = RxBytes
    <2>1. x.c.rc = "ok" => n = RxBytes
      BY Zenon, <1>16 DEF StreamInv, n
    <2>2. QED BY <1>3, <1>13, <1>20, <2>1
  <1>22. /\ ~wire'.est => wire'.edge = 0
         /\ wire'.est => wire'.edge <= Received(c) + c.rcv_win
    <2> DEFINE right == Received(c) + c.rcv_win
    <2>1. Received(c) \in Nat /\ c.rcv_win \in Nat
      BY <1>20, ReceivedType, ConnectionFields
    <2>2. /\ ~wire.est => wire.edge = 0
          /\ wire.est => wire.edge <= Received(tcp) + tcp.rcv_win
      BY Zenon, <1>2 DEF StreamInv
    <2>3. /\ right \in Nat /\ (wire.est => wire.edge <= right)
          /\ Received(x.c) + x.c.rcv_win <= right
      BY <1>3, <1>19, <1>20, <2>1, <2>2
    <2> HIDE DEF right
    <2>4. /\ ~wire'.est => wire'.edge = 0
          /\ wire'.est => wire'.edge <= right
      BY Zenon, <1>1, <1>2, <1>16, <1>17, <2>2, <2>3, EdgeBounded
    <2>5. QED BY Zenon, <2>4 DEF right
  <1>23. QED BY Zenon, <1>1, <1>13, <1>20, <1>21, <1>22 DEF StreamInv, m

-----------------------------------------------------------------------------
(* The third invariant holds initially. *)
LEMMA StreamInit == Init => StreamInv
  <1> SUFFICES ASSUME Init PROVE StreamInv
    OBVIOUS
  <1>1. StateInv
    BY StateInit
  <1>2. /\ tcp = Fresh /\ delivered = <<>>
        /\ wire = [nxt |-> 0, est |-> FALSE, edge |-> 0]
    BY DEF Init
  <1>3. /\ ~tcp.listed /\ tcp.rc # "ok" /\ Len(delivered) = 0
        /\ ~wire.est /\ wire.edge = 0
    BY <1>2 DEF Fresh
  <1>4. QED BY <1>1, <1>2, <1>3 DEF StreamInv

(* Every step keeps the third invariant. *)
LEMMA StreamNext ==
    ASSUME PeerSyn # "early", ShortStream, StreamInv, [Next]_vars
    PROVE  StreamInv'
  <1>1. StateInv'
    BY Zenon, StateNext DEF StreamInv
  <1>2. /\ ConnOK(tcp) /\ tcp \in Connection /\ TxQueueOK(tcp)
        /\ (pc # "idle" => tcp.listed)
        /\ (tcp.listed => LiveOK(tcp, wire.nxt))
    BY Zenon DEF StreamInv, StateInv, QuietInv, TypeOK, ConnOK
  <1>3. /\ {"app", "ok", "timeout", "reset", "cancel"} \subseteq
              Reasons \ {"none"}
        /\ "timeout" # "ok" /\ "cancel" # "ok"
    BY DEF Reasons
  <1>4. CASE tcp_open
    <2>1. /\ ~tcp.listed /\ tcp.rc = "none" /\ tcp' = Opened(tcp)
          /\ UNCHANGED <<wire, delivered>>
      BY <1>4 DEF tcp_open, Opened
    <2>2. ~wire.est /\ tcp.state = TCP_CLOSED /\ ~tcp.xfer_closed
      BY Zenon, <1>2, <2>1 DEF StreamInv, StateInv, ConnOK, RxAndReasonOK
    <2>3. "SYN" \notin tcp.state.rcvd
      BY <2>2 DEF TCP_CLOSED, State
    <2>4. /\ tcp'.rc = tcp.rc /\ "SYN" \notin tcp'.state.rcvd
          /\ tcp'.xfer_closed = tcp.xfer_closed
      <3>1. /\ tcp'.rc = tcp.rc /\ tcp'.state = TCP_SYN_SENT
            /\ tcp'.xfer_closed = tcp.xfer_closed
        BY Zenon, <1>2, <2>1 DEF Opened, Connection
      <3>2. QED BY <3>1 DEF TCP_SYN_SENT, State
    <2>5. QED BY Zenon, <1>1, <2>1, <2>2, <2>3, <2>4 DEF StreamInv
  <1>5. ASSUME NEW env \in Environments, process_step(env) PROVE StreamInv'
    <2> DEFINE d == [tcp EXCEPT !.process = FALSE]
    <2>1. /\ tcp.listed /\ Transmit(tcp_xmit_sack(d, env))
          /\ UNCHANGED delivered
      BY <1>5 DEF process_step, Idle
    <2>2. Kept(tcp, d) /\ RxStays(tcp, d)
      BY Zenon, <1>2, <2>1, SmallChanges, SmallStays
    <2> HIDE DEF d
    <2>3. QED BY Zenon, <1>1, <2>1, <2>2, StreamXmit DEF Kept
  <1>6. ASSUME NEW env \in Environments, NEW over \in BOOLEAN,
               tcp_expired(over, env)
        PROVE  StreamInv'
    <2> DEFINE d == [tcp EXCEPT !.timer = FALSE, !.count = @ + 1]
    <2>1. /\ tcp.listed /\ UNCHANGED delivered
          /\ over => Transmit(Result(Abort(d, "timeout"), FALSE, FALSE))
          /\ ~over => Transmit(tcp_xmit_sack(d, env))
      BY Zenon, <1>6 DEF tcp_expired, Idle
    <2>2. Kept(tcp, d) /\ RxStays(tcp, d)
      BY Zenon, <1>2, <2>1, SmallChanges, SmallStays
    <2> HIDE DEF d
    <2>3. CASE ~over
      BY Zenon, <1>1, <2>1, <2>2, <2>3, StreamXmit DEF Kept
    <2>4. CASE over
      <3>1. tcp' = Abort(d, "timeout") /\ UNCHANGED wire
        BY Zenon, <2>1, <2>4 DEF Transmit, Transmitted, Result
      <3>2. QED BY Zenon, <1>1, <1>3, <2>1, <2>2, <3>1, StreamAbort DEF Kept
    <2>5. QED BY Zenon, <2>3, <2>4
  <1>7. ASSUME NEW env \in Environments, tcp_keepalive_expired(env)
        PROVE  StreamInv'
    <2> DEFINE d == [tcp EXCEPT !.ack_pending = TRUE]
    <2>1. /\ tcp.listed /\ Transmit(tcp_xmit_sack(d, env))
          /\ UNCHANGED delivered
      BY <1>7 DEF tcp_keepalive_expired, Idle
    <2>2. Kept(tcp, d) /\ RxStays(tcp, d)
      BY Zenon, <1>2, <2>1, SmallChanges, SmallStays
    <2> HIDE DEF d
    <2>3. QED BY Zenon, <1>1, <2>1, <2>2, StreamXmit DEF Kept
  <1>8. ASSUME NEW env \in Environments, tcp_rx_finish(env) PROVE StreamInv'
    <2> DEFINE s == [tcp EXCEPT !.process = TRUE]
               x == IF tcp.rx_queue = <<>> THEN Result(s, FALSE, FALSE)
                    ELSE tcp_xmit_sack(tcp, env)
               w == x.c.wait \/ TCP_CLOSED_GRACEFULLY(x.c.state)
               c == [x.c EXCEPT !.wait = w]
    <2>1. /\ pc = "queue" /\ tcp' = c /\ Transmitted(x, rx.seq)
          /\ UNCHANGED delivered
      BY Zenon, <1>8 DEF tcp_rx_finish
    <2>2. tcp.listed
      BY Zenon, <1>2, <2>1
    <2>3. ConnOK(s) /\ s.listed /\ s.rc = tcp.rc /\ RxStays(tcp, s)
      BY Zenon, <1>2, <2>2, SmallChanges, SmallStays DEF Kept
    <2> HIDE DEF s
    <2>4. /\ x.c \in Connection /\ x.c.listed /\ x.c.rc = tcp.rc
          /\ x.sent \in BOOLEAN /\ RxStays(tcp, x.c)
      <3>1. CASE tcp.rx_queue = <<>>
        <4>1. x.c = s /\ x.sent = FALSE
          BY <3>1 DEF Result
        <4> HIDE DEF x
        <4>2. QED BY Zenon, <2>3, <4>1 DEF ConnOK
      <3>2. CASE tcp.rx_queue # <<>>
        <4> DEFINE y == tcp_xmit_sack(tcp, env)
        <4>1. /\ y.c \in Connection /\ y.c.listed = tcp.listed
              /\ y.c.rc = tcp.rc /\ y.sent \in BOOLEAN /\ RxStays(tcp, y.c)
          BY Zenon, <1>2, XmitSack, XmitKeeps, XmitStays
        <4>2. x = y
          BY Zenon, <3>2
        <4> HIDE DEF y, x
        <4>3. QED BY Zenon, <2>2, <4>1, <4>2
      <3>3. QED BY Zenon, <3>1, <3>2
    <2> HIDE DEF x
    <2>5. w \in BOOLEAN
      BY <2>4, ConnectionFields
    <2> HIDE DEF w
    <2>6. /\ c \in Connection /\ c.listed = x.c.listed /\ c.rc = x.c.rc
          /\ c.rcv_ack = x.c.rcv_ack /\ c.rcv_win = x.c.rcv_win
      BY Zenon, <2>4, <2>5 DEF Connection
    <2>7. RxStays(x.c, c)
      BY Zenon, <2>4, <2>5, SmallStays
    <2> HIDE DEF c
    <2>8. RxStays(tcp, c)
      BY Zenon, <1>2, <2>4, <2>6, <2>7, RxStaysTwice
    <2>9. QED BY Zenon, <1>1, <2>1, <2>2, <2>4, <2>6, <2>8, StreamStays
  <1>9. ASSUME NEW env \in Environments, NEW r \in Reactions(tcp),
               app_step(r, env)
        PROVE  StreamInv'
    BY Zenon, <1>1, <1>9, StreamReact DEF app_step, Idle
  <1>10. ASSUME NEW env \in Environments, NEW r \in Reactions(tcp),
                tcp_process_rx_queue(r, env)
         PROVE  StreamInv'
    BY Zenon, <1>1, <1>10, StreamQueue
  <1>11. ASSUME NEW env \in Environments, NEW r \in Reactions(tcp),
                xfer_window_changed(r, env)
         PROVE  StreamInv'
    <2>1. tcp.listed
      BY Zenon, <1>2, <1>11 DEF xfer_window_changed
    <2>2. QED BY Zenon, <1>1, <1>11, <2>1, StreamReact DEF xfer_window_changed
  <1>12. CASE tcp_wait_expired
    <2> DEFINE d == [tcp EXCEPT !.wait = FALSE]
    <2>1. /\ tcp.listed /\ tcp.wait /\ tcp' = Abort(d, "ok")
          /\ UNCHANGED <<delivered, wire>>
      BY <1>12 DEF tcp_wait_expired, Idle
    <2>2. Kept(tcp, d)
      BY Zenon, <1>2, <2>1, SmallChanges
    <2>3. d.xfer_closed
      <3>1. tcp.xfer_closed
        BY Zenon, <1>2, <2>1 DEF LiveOK, StateOK, TCP_CLOSED_GRACEFULLY
      <3>2. QED BY Zenon, <1>2, <3>1 DEF Connection
    <2> HIDE DEF d
    <2>4. QED BY Zenon, <1>1, <1>3, <2>1, <2>2, <2>3, StreamAbort DEF Kept
  <1>13. CASE tcp_shutdown
    <2> DEFINE d == tcp_close(tcp, "cancel")
    <2>1. /\ tcp.listed /\ (tcp' = tcp \/ (tcp' = d /\ ~tcp.xfer_closed))
          /\ UNCHANGED <<delivered, wire>>
      BY Zenon, <1>13 DEF tcp_shutdown, Idle
    <2>2. /\ "SYN" \notin tcp.state.rcvd => ~d.listed
          /\ d.rc = Reason(tcp, "cancel") /\ d.xfer_closed
          /\ "SYN" \in tcp.state.rcvd => RxStays(tcp, d)
      BY Zenon, <1>2, <1>3, <2>1, CloseOK, CloseStays
    <2> HIDE DEF d
    <2>3. CASE tcp' = tcp
      <3>1. RxStays(tcp, tcp')
        BY <1>2, <2>3, ConnectionFields, LenProperties DEF RxStays
      <3>2. QED BY Zenon, <1>1, <2>1, <2>3, <3>1, StreamStays
    <2>4. CASE tcp' = d /\ ~tcp.xfer_closed
      <3>1. tcp'.rc # "ok"
        BY Zenon, <1>3, <2>2, <2>4 DEF Reason
      <3>2. QED BY Zenon, <1>1, <2>1, <2>2, <2>4, <3>1, StreamStays
    <2>5. QED BY Zenon, <2>1, <2>3, <2>4
  <1>14. CASE tcp_shutdown_finish
    <2>1. /\ tcp.listed /\ tcp' = Abort(tcp, "cancel")
          /\ UNCHANGED <<delivered, wire>>
      BY Zenon, <1>14 DEF tcp_shutdown_finish, Idle
    <2>2. QED BY Zenon, <1>1, <1>2, <1>3, <2>1, StreamAbort
  <1>15. ASSUME NEW seg \in PeerSegments, tcp_rx(seg) PROVE StreamInv'
    BY Zenon, <1>1, <1>15, StreamRx
  <1>16. CASE peer_receive
    <2>1. UNCHANGED <<tcp, delivered, wire>>
      BY Zenon, <1>16 DEF peer_receive
    <2>2. QED BY Zenon, <1>1, <2>1 DEF StreamInv
  <1>17. CASE UNCHANGED vars
    <2>1. UNCHANGED <<tcp, delivered, wire>>
      BY Zenon, <1>17 DEF vars
    <2>2. QED BY Zenon, <1>1, <2>1 DEF StreamInv
  <1>18. QED
    BY Zenon, <1>4, <1>5, <1>6, <1>7, <1>8, <1>9, <1>10, <1>11, <1>12,
       <1>13, <1>14, <1>15, <1>16, <1>17 DEF Next

-----------------------------------------------------------------------------
(* The third invariant holds for every peer whose SYN does not arrive      *)
(* before ours has been transmitted, and every stream shorter than         *)
(* half of the sequence space.                                             *)
THEOREM StreamInvariant ==
    ASSUME PeerSyn # "early", ShortStream PROVE Spec => []StreamInv
  <1>1. Init => StreamInv
    BY StreamInit
  <1>2. StreamInv /\ [Next]_vars => StreamInv'
    BY StreamNext
  <1>3. QED BY <1>1, <1>2, PTL DEF Spec

(* What the application receives is the beginning of such a stream, in     *)
(* order and without gap or repetition, and rcv_ack counts it.             *)
THEOREM DeliveryInOrder ==
    ASSUME PeerSyn # "early", ShortStream PROVE Spec => []StreamInOrder
  <1>1. StreamInv => StreamInOrder
    <2> SUFFICES ASSUME StreamInv PROVE StreamInOrder
      OBVIOUS
    <2>1. /\ DOMAIN delivered = 1..Len(delivered) /\ Len(delivered) \in Nat
          /\ tcp \in Connection
      BY LenProperties DEF StreamInv, StateInv, QuietInv, TypeOK
    <2>2. \A i \in DOMAIN delivered : delivered[i] = i
      BY Zenon, <2>1 DEF StreamInv
    <2>3. tcp.listed /\ "SYN" \in tcp.state.rcvd /\ ~tcp.xfer_closed
            => Sub(tcp.rcv_ack, PeerISS) = Len(delivered) + 1
      BY Zenon DEF StreamInv, ReceivingOK, Received
    <2>4. Len(delivered) + 1 = 1 + Len(delivered)
      BY <2>1
    <2>5. QED BY Zenon, <2>2, <2>3, <2>4 DEF StreamInOrder
  <1>2. QED BY <1>1, StreamInvariant, PTL

(* The application hears of a normal end (tcp_close with reason 0) only    *)
(* after it has been given the whole of such a stream.                     *)
THEOREM EndIsTheEnd ==
    ASSUME PeerSyn # "early", ShortStream PROVE Spec => []NoSilentTruncation
  <1>1. StreamInv => NoSilentTruncation
    BY DEF StreamInv, NoSilentTruncation
  <1>2. QED BY <1>1, StreamInvariant, PTL

(* The right edge of the receive window never moves left of one that was   *)
(* advertised.                                                             *)
THEOREM WindowNeverShrinks ==
    ASSUME PeerSyn # "early", ShortStream PROVE Spec => []WindowKept
  <1>1. StreamInv => WindowKept
    BY Zenon DEF StreamInv, WindowKept, Received
  <1>2. QED BY <1>1, StreamInvariant, PTL
=============================================================================
