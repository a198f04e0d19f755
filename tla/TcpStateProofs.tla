--------------------------- MODULE TcpStateProofs ---------------------------
(***************************************************************************)
(* What the functions of tcp.c, as modelled in module TcpConn, return and  *)
(* preserve: the lemmas on which the invariance proofs rest.  The first    *)
(* two invariants of module TcpInv are preserved by every action; type     *)
(* correctness and the theorems about deleted connections, the flags, the  *)
(* timers and the pending operations follow.                               *)
(***************************************************************************)
EXTENDS TcpInv, ListFacts

(* Sequence number arithmetic stays within the sequence space. *)
LEMMA SeqNoType ==
    \A a \in Int, b \in Int : Add(a, b) \in SeqNo /\ Sub(a, b) \in SeqNo
  BY SeqSpaceAssumption DEF SeqNo, Add, Sub

(* Sequence numbers are integers. *)
LEMMA SeqNoInt == SeqNo \subseteq Int
  BY DEF SeqNo

(* The sequence number after s is at distance one, as tcp_close relies on. *)
LEMMA NextSeqNo == \A s \in SeqNo : Sub(Add(s, 1), s) = 1
  BY SeqSpaceAssumption DEF SeqNo, Add, Sub

(* The counters of pending operations and the helpers return naturals. *)
LEMMA SmallTypes ==
    \A m \in Nat, n \in Nat :
       /\ pending_get(n) \in Nat /\ pending_put(n) \in Nat
       /\ Minimum(m, n) \in Nat /\ Maximum(m, n) \in Nat
       /\ Maximum(0, m - n) \in Nat
  BY DEF pending_get, pending_put, Minimum, Maximum

(* The fields of a connection have their types. *)
LEMMA ConnectionFields ==
    ASSUME NEW c \in Connection
    PROVE  /\ c.listed \in BOOLEAN /\ c.rc \in Reasons
           /\ c.state \in [sent : SUBSET Flags, acked : SUBSET Flags,
                           rcvd : SUBSET Flags]
           /\ c.xfer_closed \in BOOLEAN /\ c.ack_pending \in BOOLEAN
           /\ c.sack_enabled \in BOOLEAN
           /\ c.snd_seq \in SeqNo /\ c.snd_sent \in Nat /\ c.snd_win \in Nat
           /\ c.rcv_ack \in SeqNo /\ c.rcv_win \in Nat
           /\ c.rcv_scale \in {1, WindowScale}
           /\ c.tx_queue \in Seq(Nat) /\ c.tx_pos \in Nat
           /\ c.rx_queue \in Seq(QueuedPacket)
           /\ c.process \in BOOLEAN /\ c.timer \in BOOLEAN /\ c.count \in Nat
           /\ c.keepalive \in BOOLEAN /\ c.wait \in BOOLEAN
           /\ c.pending_flags \in Nat /\ c.pending_data \in Nat
  BY DEF Connection

(* d differs from c at most in the fields named by "fields" *)
Fields == {"listed", "rc", "state", "xfer_closed", "ack_pending",
           "sack_enabled", "snd_seq", "snd_sent", "snd_win", "rcv_ack",
           "rcv_win", "rcv_scale", "tx_queue", "tx_pos", "rx_queue", "process",
           "timer", "count", "keepalive", "wait", "pending_flags",
           "pending_data"}

Same(c, d, fields) == \A f \in Fields \ fields : d[f] = c[f]

(* A change of a change is a change of the fields of both. *)
LEMMA SameTransitive ==
    ASSUME NEW c, NEW d, NEW e, NEW A, NEW B, NEW C,
           Same(c, d, A), Same(d, e, B), A \subseteq C, B \subseteq C
    PROVE  Same(c, e, C)
  BY DEF Same

(* stop_timer touches only the timer it stops. *)
LEMMA StopTimer ==
    ASSUME NEW c \in Connection
    PROVE  /\ stop_timer(c) \in Connection
           /\ ~stop_timer(c).timer
           /\ Same(c, stop_timer(c), {"timer", "count"})
  <1>1. pending_put(c.count) \in Nat
    BY Zenon, SmallTypes, ConnectionFields
  <1>2. CASE c.timer
    BY Zenon, <1>1, <1>2 DEF stop_timer, Connection, Same, Fields
  <1>3. CASE ~c.timer
    BY <1>3 DEF stop_timer, Connection, Same, Fields
  <1>4. QED BY <1>2, <1>3

(* What tcp_xmit_sack would send is counted by a natural number. *)
LEMMA XmitLengths ==
    ASSUME NEW c \in Connection, TxQueueOK(c)
    PROVE  TxLen(c) \in Nat /\ tcp_xmit_win(c) \in Nat /\ XmitSeqLen(c) \in Nat
  <1>1. TxLen(c) \in Nat
    <2>1. CASE c.tx_queue = <<>>
      BY <2>1 DEF TxLen
    <2>2. CASE c.tx_queue # <<>>
      <3> DEFINE q == c.tx_queue
      <3>1. q \in Seq(Nat) /\ c.tx_pos \in Nat
        BY ConnectionFields
      <3>2. Len(q) \in 1..Len(q)
        BY <3>1, <2>2, EmptySeq
      <3>3. q[Len(q)] \in Nat /\ q[Len(q)] > c.tx_pos
        BY <3>1, <3>2 DEF TxQueueOK
      <3>4. TxLen(c) = q[Len(q)] - c.tx_pos
        BY <2>2 DEF TxLen
      <3> HIDE DEF q
      <3>5. QED BY <3>1, <3>3, <3>4
    <2>3. QED BY <2>1, <2>2
  <1>2. tcp_xmit_win(c) \in Nat
    BY Zenon, ConnectionFields, TcpConnAssumption, SmallTypes DEF tcp_xmit_win
  <1>3. Minimum(tcp_xmit_win(c), TxLen(c)) \in Nat
    BY <1>1, <1>2, SmallTypes
  <1>4. QED BY <1>1, <1>2, <1>3 DEF XmitSeqLen

(* A connection that is closed, or whose FIN has been acknowledged, has    *)
(* nothing to send; before our SYN is acknowledged it is all there is.     *)
LEMMA XmitSeqLenValue ==
    ASSUME NEW c \in Connection, TxQueueOK(c)
    PROVE  /\ c.state = TCP_CLOSED => XmitSeqLen(c) = 0
           /\ "FIN" \in c.state.sent \cap c.state.acked
                 /\ "SYN" \in c.state.acked => XmitSeqLen(c) = 0
           /\ "SYN" \in c.state.sent \ c.state.acked => XmitSeqLen(c) = 1
  <1>1. TxLen(c) \in Nat
    BY XmitLengths
  <1>2. ~TCP_CAN_SEND_DATA(c.state) => Minimum(tcp_xmit_win(c), TxLen(c)) = 0
    BY <1>1 DEF tcp_xmit_win, Minimum
  <1>3. ASSUME c.state = TCP_CLOSED PROVE XmitSeqLen(c) = 0
    BY <1>2, <1>3
    DEF XmitSeqLen, TCP_CAN_SEND_DATA, TCP_FLAGS_SENDING, TCP_CLOSED, State
  <1>4. ASSUME "FIN" \in c.state.sent \cap c.state.acked, "SYN" \in c.state.acked
        PROVE  XmitSeqLen(c) = 0
    BY <1>2, <1>4 DEF XmitSeqLen, TCP_CAN_SEND_DATA, TCP_FLAGS_SENDING
  <1>5. ASSUME "SYN" \in c.state.sent \ c.state.acked PROVE XmitSeqLen(c) = 1
    BY <1>2, <1>5 DEF XmitSeqLen, TCP_CAN_SEND_DATA, TCP_FLAGS_SENDING
  <1>6. QED BY <1>3, <1>4, <1>5

(* A loop over a queue passes between none and all of its entries, and the *)
(* entry it stops at is the first one it has to stop at.                   *)
LEMMA PrecedingBounds ==
    ASSUME NEW n \in Nat, NEW q, Len(q) = n, NEW stop \in SUBSET (1..n)
    PROVE  /\ Preceding(q, stop) \in 0..n
           /\ Preceding(q, stop) < n => Preceding(q, stop) + 1 \in stop
  <1> DEFINE first == {i \in stop : \A j \in 1..(i - 1) : j \notin stop}
             i     == CHOOSE i \in first : TRUE
  <1>1. CASE first = {}
    <2>1. Preceding(q, stop) = n
      BY Zenon, <1>1 DEF Preceding
    <2>2. QED BY <2>1
  <1>2. CASE first # {}
    <2>1. Preceding(q, stop) = i - 1
      BY Zenon, <1>2 DEF Preceding
    <2>2. i \in first
      BY Zenon, <1>2
    <2>3. i \in stop /\ i \in 1..n
      BY Zenon, <2>2
    <2> HIDE DEF i
    <2>4. QED BY <2>1, <2>3
  <1>3. QED BY Zenon, <1>1, <1>2

(* In an ordered queue every buffer after the first one that is kept is    *)
(* kept.                                                                   *)
LEMMA KeptAreSuffix ==
    ASSUME NEW q \in Seq(Nat), NEW p \in Nat,
           \A i, j \in 1..Len(q) : i <= j => q[i] <= q[j]
    PROVE  LET gone == Preceding(q, {i \in DOMAIN q : q[i] > p})
           IN  /\ gone \in 0..Len(q)
               /\ \A i \in (gone + 1)..Len(q) : q[i] > p
  <1> DEFINE S    == {i \in DOMAIN q : q[i] > p}
             gone == Preceding(q, S)
  <1>1. Len(q) \in Nat /\ DOMAIN q = 1..Len(q)
    BY LenProperties
  <1>2. S \in SUBSET (1..Len(q))
    BY <1>1
  <1>3. gone \in 0..Len(q) /\ (gone < Len(q) => gone + 1 \in S)
    BY Zenon, <1>1, <1>2, PrecedingBounds
  <1> HIDE DEF gone
  <1>4. ASSUME NEW i \in (gone + 1)..Len(q) PROVE q[i] > p
    <2>1. gone + 1 \in 1..Len(q) /\ i \in 1..Len(q) /\ gone + 1 <= i
      BY <1>1, <1>3
    <2>2. q[gone + 1] > p /\ q[gone + 1] <= q[i]
      BY <1>1, <1>3, <2>1
    <2>3. q[gone + 1] \in Nat /\ q[i] \in Nat
      BY <2>1, ElementOfSeq
    <2>4. QED BY <2>2, <2>3
  <1>5. QED BY Zenon, <1>3, <1>4 DEF gone

(* What is left of an ordered queue without its first entries can be       *)
(* searched as the whole can.                                              *)
LEMMA SearchableSuffix ==
    ASSUME NEW q \in Seq(Nat), NEW k \in 0..Len(q), Searchable(q),
           \A i, j \in 1..Len(q) : i <= j => q[i] <= q[j]
    PROVE  Searchable(SubSeq(q, k + 1, Len(q)))
  <1> DEFINE s == SubSeq(q, k + 1, Len(q))
  <1>1. /\ Len(q) \in Nat /\ k \in Nat /\ k <= Len(q)
        /\ \A i \in 1..Len(q) : q[i] \in Nat
    BY LenProperties, ElementOfSeq
  <1>2. /\ s \in Seq(Nat) /\ Len(s) = Len(q) - k
        /\ \A i \in 1..Len(s) : s[i] = q[k + i]
    <2>1. \A i \in (k + 1)..Len(q) : q[i] \in Nat
      BY <1>1
    <2>2. /\ s \in Seq(Nat)
          /\ Len(s) = IF k + 1 <= Len(q) THEN Len(q) - (k + 1) + 1 ELSE 0
      BY <1>1, <2>1, SubSeqProperties
    <2>3. \A i \in 1..(Len(q) - (k + 1) + 1) : s[i] = q[(k + 1) + i - 1]
      BY <1>1, <2>1, SubSeqProperties
    <2> HIDE DEF s
    <2>4. QED BY <1>1, <2>2, <2>3
  <1> HIDE DEF s
  <1> SUFFICES ASSUME s # <<>>, NEW p \in 0..(s[Len(s)] - 1)
               PROVE  \E n \in 1..Len(s) :
                         s[n] > p /\ \A j \in 1..(n - 1) : s[j] <= p
    BY Zenon DEF Searchable, s
  <1>3. /\ Len(s) \in 1..Len(s) /\ k < Len(q) /\ q # <<>>
        /\ s[Len(s)] = q[Len(q)] /\ p \in Nat
    <2>1. Len(s) \in Nat \ {0}
      BY Zenon, <1>2, EmptySeq
    <2>2. Len(s) \in 1..Len(s) /\ k < Len(q) /\ k + Len(s) = Len(q)
      BY <1>1, <1>2, <2>1
    <2>3. s[Len(s)] = q[k + Len(s)]
      BY Zenon, <1>2, <2>2
    <2>4. q # <<>>
      BY <1>1, <2>2
    <2>5. QED BY SMTT(30), <2>2, <2>3, <2>4
  <1>4. PICK n \in 1..Len(q) : q[n] > p /\ \A j \in 1..(n - 1) : q[j] <= p
    BY Zenon, <1>3 DEF Searchable
  <1>5. CASE n <= k
    <2>1. /\ 1 \in 1..Len(s) /\ s[1] = q[k + 1] /\ k + 1 \in 1..Len(q)
          /\ n <= k + 1
      BY <1>1, <1>2, <1>3, <1>5
    <2>2. q[n] <= q[k + 1]
      BY Zenon, <2>1
    <2>3. s[1] > p /\ \A j \in 1..(1 - 1) : s[j] <= p
      BY <1>1, <1>2, <1>4, <2>1, <2>2
    <2>4. QED BY Zenon, <2>1, <2>3
  <1>6. CASE n > k
    <2>1. n - k \in 1..Len(s) /\ k + (n - k) = n
      BY <1>1, <1>2, <1>6
    <2>2. s[n - k] = q[n]
      BY Zenon, <1>2, <2>1
    <2>3. ASSUME NEW j \in 1..((n - k) - 1) PROVE s[j] <= p
      <3>1. j \in 1..Len(s) /\ k + j \in 1..(n - 1)
        BY <1>1, <1>2, <1>6
      <3>2. s[j] = q[k + j] /\ q[k + j] <= p
        BY Zenon, <1>2, <1>4, <3>1
      <3>3. QED BY Zenon, <3>2
    <2>4. QED BY Zenon, <1>4, <2>1, <2>2, <2>3
  <1>7. QED BY <1>1, <1>5, <1>6

(* And so can it with one more entry at the end. *)
LEMMA SearchableAppend ==
    ASSUME NEW q \in Seq(Nat), NEW e \in Nat, Searchable(q),
           \A i, j \in 1..Len(q) : i <= j => q[i] <= q[j]
    PROVE  Searchable(Append(q, e))
  <1> DEFINE s == Append(q, e)
  <1>1. Len(q) \in Nat /\ q \in [1..Len(q) -> Nat]
    BY LenProperties
  <1>2. /\ Len(s) = Len(q) + 1 /\ s[Len(q) + 1] = e
        /\ \A i \in 1..Len(q) : s[i] = q[i]
    BY AppendProperties
  <1> HIDE DEF s
  <1> SUFFICES ASSUME NEW p \in 0..(s[Len(s)] - 1)
               PROVE  \E n \in 1..Len(s) :
                         s[n] > p /\ \A j \in 1..(n - 1) : s[j] <= p
    BY Zenon DEF Searchable, s
  <1>3. p \in Nat /\ p < e
    BY <1>2
  <1>4. CASE q # <<>> /\ q[Len(q)] > p
    <2>1. p \in 0..(q[Len(q)] - 1)
      BY <1>1, <1>3, <1>4
    <2>2. PICK n \in 1..Len(q) : q[n] > p /\ \A j \in 1..(n - 1) : q[j] <= p
      BY Zenon, <1>4, <2>1 DEF Searchable
    <2>3. n \in 1..Len(s) /\ s[n] = q[n]
      BY <1>1, <1>2
    <2>4. \A j \in 1..(n - 1) : s[j] <= p
      BY <1>1, <1>2, <2>2
    <2>5. QED BY Zenon, <2>2, <2>3, <2>4
  <1>5. CASE q = <<>> \/ ~(q[Len(q)] > p)
    <2>1. \A j \in 1..Len(q) : q[j] <= p
      <3> SUFFICES ASSUME NEW j \in 1..Len(q) PROVE q[j] <= p
        OBVIOUS
      <3>1. Len(q) \in 1..Len(q) /\ j <= Len(q) /\ q # <<>>
        BY <1>1
      <3>2. q[j] <= q[Len(q)]
        BY Zenon, <3>1
      <3>3. QED BY <1>1, <1>3, <1>5, <3>1, <3>2
    <2>2. Len(q) + 1 \in 1..Len(s) /\ s[Len(q) + 1] > p
      BY <1>1, <1>2, <1>3
    <2>3. \A j \in 1..((Len(q) + 1) - 1) : s[j] <= p
      BY <1>1, <1>2, <2>1
    <2>4. QED BY Zenon, <2>2, <2>3
  <1>6. QED BY Zenon, <1>4, <1>5

(* Removing acknowledged bytes keeps the transmit queue in order and the   *)
(* count of its buffers exact.                                             *)
LEMMA ProcessTxQueue ==
    ASSUME NEW c \in Connection, NEW len \in Nat, TxQueueOK(c),
           c.pending_data = Len(c.tx_queue)
    PROVE  LET d == tcp_process_tx_queue(c, len)
           IN  /\ d \in Connection
               /\ TxQueueOK(d)
               /\ d.pending_data = Len(d.tx_queue)
               /\ c.tx_queue = <<>> => d.tx_queue = <<>>
               /\ Same(c, d, {"tx_pos", "tx_queue", "pending_data"})
  <1> DEFINE q    == c.tx_queue
             pos  == c.tx_pos + Minimum(len, TxLen(c))
             gone == Preceding(q, {i \in DOMAIN q : q[i] > pos})
             left == SubSeq(q, gone + 1, Len(q))
             data == Maximum(0, c.pending_data - gone)
             d    == tcp_process_tx_queue(c, len)
  <1>1. q \in Seq(Nat) /\ c.tx_pos \in Nat /\ Len(q) \in Nat
    BY ConnectionFields, LenProperties
  <1>2. pos \in Nat
    <2>1. TxLen(c) \in Nat
      BY XmitLengths
    <2>2. Minimum(len, TxLen(c)) \in Nat
      BY Zenon, <2>1, SmallTypes
    <2>3. QED BY <1>1, <2>2
  <1>3. \A i, j \in 1..Len(q) : i <= j => q[i] <= q[j]
    BY DEF TxQueueOK
  <1>4. gone \in 0..Len(q) /\ \A i \in (gone + 1)..Len(q) : q[i] > pos
    BY Zenon, <1>1, <1>2, <1>3, KeptAreSuffix
  <1> HIDE DEF q, pos, gone
  <1>5. \A i \in (gone + 1)..Len(q) : q[i] \in Nat
    BY <1>1, <1>4, ElementOfSeq
  <1>6. /\ left \in Seq(Nat) /\ Len(left) = Len(q) - gone
        /\ \A i \in 1..Len(left) : left[i] = q[gone + i]
    BY <1>1, <1>4, <1>5, SubSeqProperties
  <1>size. gone \in Nat /\ gone <= Len(q) /\ Len(left) = Len(q) - gone
    BY <1>1, <1>4, <1>6
  <1>7. data = Len(left) /\ data \in Nat
    <2>1. c.pending_data = Len(q)
      BY DEF q
    <2>2. QED BY <1>1, <1>size, <2>1 DEF Maximum
  <1>8. d = [c EXCEPT !.tx_pos = pos, !.tx_queue = left, !.pending_data = data]
    BY DEF tcp_process_tx_queue, q, pos, gone
  <1> HIDE DEF left, data, d
  <1>typed. left \in Seq(Nat) /\ pos \in Nat /\ data \in Nat
    BY <1>2, <1>6, <1>7
  <1>9. /\ d \in Connection /\ d.tx_queue = left /\ d.tx_pos = pos
        /\ d.pending_data = data
        /\ Same(c, d, {"tx_pos", "tx_queue", "pending_data"})
    BY Zenon, <1>typed, <1>8 DEF Connection, Same, Fields
  <1>10. TxQueueOK(d)
    <2>1. \A i \in 1..Len(left) : gone + i \in (gone + 1)..Len(q) /\ gone + i \in 1..Len(q)
      BY <1>1, <1>4, <1>6
    <2>2. \A i \in 1..Len(left) : left[i] > pos
      BY <1>4, <1>6, <2>1
    <2>3. \A i, j \in 1..Len(left) : i <= j => left[i] <= left[j]
      <3>1. TAKE i, j \in 1..Len(left)
      <3>2. HAVE i <= j
      <3>3. gone + i <= gone + j
        BY <1>1, <1>size, <3>2
      <3>4. left[i] = q[gone + i] /\ left[j] = q[gone + j]
        BY <1>6
      <3>5. QED BY <1>3, <2>1, <3>3, <3>4
    <2>4. Searchable(left)
      <3>1. Searchable(q)
        BY DEF TxQueueOK, q
      <3>2. QED BY Zenon, <1>1, <1>3, <1>4, <3>1, SearchableSuffix DEF left
    <2>5. QED BY <1>9, <2>2, <2>3, <2>4 DEF TxQueueOK
  <1>11. ASSUME c.tx_queue = <<>> PROVE d.tx_queue = <<>>
    <2>1. Len(q) = 0
      BY <1>11 DEF q
    <2>2. Len(left) = 0
      BY <1>1, <1>size, <2>1
    <2>3. QED BY <1>6, <1>9, <2>2, EmptySeq
  <1>12. QED BY <1>7, <1>9, <1>10, <1>11 DEF d

-----------------------------------------------------------------------------
(* Discarding a packet only shortens the receive queue. *)
LEMMA Discard ==
    ASSUME NEW c \in Connection
    PROVE  LET d == tcp_discard(c)
           IN  /\ d \in Connection
               /\ c.rx_queue = <<>> => d.rx_queue = <<>>
               /\ Same(c, d, {"rx_queue"})
  <1>1. CASE c.rx_queue = <<>>
    BY <1>1 DEF tcp_discard, Same
  <1>2. CASE c.rx_queue # <<>>
    <2>1. c.rx_queue \in Seq(QueuedPacket)
      BY ConnectionFields
    <2>2. Len(c.rx_queue) \in Nat
      BY <2>1, LenProperties
    <2>3. \A i \in 1..(Len(c.rx_queue) - 1) : c.rx_queue[i] \in QueuedPacket
      BY <2>1, <2>2, ElementOfSeq
    <2> DEFINE front == SubSeq(c.rx_queue, 1, Len(c.rx_queue) - 1)
    <2>4. front \in Seq(QueuedPacket)
      BY <2>2, <2>3, SubSeqProperties
    <2>5. tcp_discard(c) = [c EXCEPT !.rx_queue = front]
      BY <1>2 DEF tcp_discard
    <2> HIDE DEF front
    <2>6. QED BY ZenonT(30), <1>2, <2>4, <2>5, Zenon DEF Connection, Same,
                 Fields
  <1>3. QED BY <1>1, <1>2

(* Expanding the receive window changes nothing else, and never shrinks it. *)
LEMMA Expand ==
    ASSUME NEW c \in Connection, NEW app_win \in Nat
    PROVE  LET d == ExpandWindow(c, app_win)
           IN  /\ d \in Connection
               /\ d.rcv_win >= c.rcv_win
               /\ Same(c, d, {"rcv_win"})
  <1> DEFINE app == IF c.xfer_closed THEN TCP_MAX_WINDOW_SIZE
                    ELSE Minimum(app_win, TCP_MAX_WINDOW_SIZE)
             max == Minimum(app, WindowField * c.rcv_scale)
             win == Maximum(c.rcv_win, max - (max % WindowAlign))
  <1>1. app \in Nat
    BY Zenon, TcpConnAssumption, SmallTypes
  <1>2. WindowField * c.rcv_scale \in Nat
    <2>1. WindowField \in Nat /\ c.rcv_scale \in Nat
      BY TcpConnAssumption, ConnectionFields
    <2>2. QED BY <2>1
  <1>3. max \in Nat
    BY Zenon, <1>1, <1>2, SmallTypes
  <1> HIDE DEF max
  <1>4. max - (max % WindowAlign) \in Nat
    BY <1>3, TcpConnAssumption
  <1>5. win \in Nat /\ win >= c.rcv_win
    BY <1>4, ConnectionFields DEF Maximum
  <1>6. ExpandWindow(c, app_win) = [c EXCEPT !.rcv_win = win]
    BY DEF ExpandWindow, max
  <1> HIDE DEF win
  <1>7. QED BY ZenonT(30), <1>5, <1>6 DEF Connection, Same, Fields

(* The parts of the result of a transmission attempt. *)
LEMMA ResultParts ==
    ASSUME NEW c, NEW built \in BOOLEAN, NEW sent \in BOOLEAN
    PROVE  LET x == Result(c, built, sent)
           IN  x.c = c /\ x.built \in BOOLEAN /\ x.sent \in BOOLEAN
  BY DEF Result

(* The fields a transmission attempt may change *)
XmitFields == {"snd_sent", "timer", "rcv_win", "ack_pending", "rx_queue"}

(* What a transmission attempt does to the connection. *)
LEMMA XmitSack ==
    ASSUME NEW c \in Connection, NEW env \in Environments, TxQueueOK(c)
    PROVE  LET x == tcp_xmit_sack(c, env)
           IN  /\ x.c \in Connection /\ x.built \in BOOLEAN /\ x.sent \in BOOLEAN
               /\ c.rx_queue = <<>> => x.c.rx_queue = <<>>
               /\ x.c.timer => c.timer \/ XmitSeqLen(c) > 0
               /\ x.c.snd_sent = IF c.timer THEN c.snd_sent ELSE XmitSeqLen(c)
               /\ x.sent => ~c.timer
               /\ Same(c, x.c, XmitFields)
  <1> DEFINE seq_len == XmitSeqLen(c)
             sized   == [c EXCEPT !.snd_sent = seq_len, !.timer = seq_len > 0]
             alloced == IF env.fate = "squeezed" THEN tcp_discard(sized)
                        ELSE sized
             opened  == ExpandWindow(alloced, env.app_win)
             acked   == [opened EXCEPT !.ack_pending = FALSE]
             x       == tcp_xmit_sack(c, env)
  <1>1. seq_len \in Nat /\ env.app_win \in Nat
    BY Zenon, XmitLengths, TcpConnAssumption DEF Environments
  <1> DEFINE Good1(d) == /\ d \in Connection
                         /\ c.rx_queue = <<>> => d.rx_queue = <<>>
                         /\ d.timer => XmitSeqLen(c) > 0
                         /\ d.snd_sent = XmitSeqLen(c)
                         /\ Same(c, d, XmitFields)
  <1>2. Good1(sized)
    <2>1. (seq_len > 0) \in BOOLEAN
      OBVIOUS
    <2> HIDE DEF seq_len
    <2>2. QED BY Zenon, <1>1, <2>1
              DEF Connection, Same, Fields, XmitFields, seq_len
  <1> HIDE DEF sized
  <1>3. Good1(alloced)
    <2>1. CASE env.fate # "squeezed"
      BY <1>2, <2>1
    <2>2. CASE env.fate = "squeezed"
      <3> DEFINE d == tcp_discard(sized)
      <3>1. /\ d \in Connection /\ Same(sized, d, {"rx_queue"})
            /\ sized.rx_queue = <<>> => d.rx_queue = <<>>
        BY <1>2, Discard
      <3> HIDE DEF d
      <3>2. d.timer = sized.timer /\ d.snd_sent = sized.snd_sent
        BY <3>1 DEF Same, Fields
      <3>3. Same(c, d, XmitFields)
        BY <1>2, <3>1, SameTransitive DEF XmitFields
      <3>4. alloced = d
        BY <2>2 DEF d
      <3>5. QED BY <1>2, <3>1, <3>2, <3>3, <3>4
    <2>3. QED BY <2>1, <2>2
  <1> HIDE DEF alloced
  <1>4. Good1(opened)
    <2>1. opened \in Connection /\ Same(alloced, opened, {"rcv_win"})
      BY Zenon, <1>1, <1>3, Expand
    <2> HIDE DEF opened
    <2>2. /\ opened.timer = alloced.timer /\ opened.snd_sent = alloced.snd_sent
          /\ opened.rx_queue = alloced.rx_queue
      BY <2>1 DEF Same, Fields
    <2>3. Same(c, opened, XmitFields)
      BY <1>3, <2>1, SameTransitive DEF XmitFields
    <2>4. QED BY <1>3, <2>1, <2>2, <2>3
  <1> HIDE DEF opened
  <1>5. Good1(acked)
    BY ZenonT(30), <1>4 DEF Connection, Same, Fields, XmitFields
  <1> HIDE DEF acked
  <1>6. CASE c.timer
    BY <1>6 DEF tcp_xmit_sack, Result, Same
  <1>7. CASE ~c.timer
    <2>1. \/ x = Result(sized, FALSE, FALSE)
          \/ x = Result(opened, TRUE, FALSE)
          \/ x = Result(acked, TRUE, TRUE)
      BY Zenon, <1>7 DEF tcp_xmit_sack, sized, alloced, opened, acked
    <2> HIDE DEF x
    <2>2. x.c \in {sized, opened, acked} /\ x.built \in BOOLEAN
          /\ x.sent \in BOOLEAN
      <3> DEFINE ok(r, d) == r.c = d /\ r.built \in BOOLEAN /\ r.sent \in BOOLEAN
      <3>1. ok(Result(sized, FALSE, FALSE), sized)
        BY ResultParts, Zenon
      <3>2. ok(Result(opened, TRUE, FALSE), opened)
        BY ResultParts, Zenon
      <3>3. ok(Result(acked, TRUE, TRUE), acked)
        BY ResultParts, Zenon
      <3>4. QED BY <2>1, <3>1, <3>2, <3>3, Zenon
    <2>3. Good1(x.c)
      BY Zenon, <2>2, <1>2, <1>4, <1>5
    <2>4. QED BY <1>7, <2>2, <2>3 DEF x
  <1>8. QED BY <1>6, <1>7

(* A transmission attempt keeps a connection well formed; for a deleted    *)
(* one it starts nothing again.                                            *)
LEMMA XmitSackOK ==
    ASSUME NEW c, NEW env \in Environments, ConnOK(c)
    PROVE  ConnOK(tcp_xmit_sack(c, env).c)
  <1> DEFINE d == tcp_xmit_sack(c, env).c
  <1>1. c \in Connection /\ TxQueueOK(c)
    BY DEF ConnOK
  <1>2. /\ d \in Connection
        /\ c.rx_queue = <<>> => d.rx_queue = <<>>
        /\ d.timer => c.timer \/ XmitSeqLen(c) > 0
        /\ Same(c, d, XmitFields)
    BY <1>1, XmitSack
  <1> HIDE DEF d
  <1>3. /\ d.listed = c.listed /\ d.state = c.state /\ d.rc = c.rc
        /\ d.xfer_closed = c.xfer_closed
        /\ d.tx_queue = c.tx_queue /\ d.tx_pos = c.tx_pos
        /\ d.pending_flags = c.pending_flags /\ d.pending_data = c.pending_data
        /\ d.keepalive = c.keepalive /\ d.wait = c.wait
        /\ d.process = c.process
    BY <1>2 DEF Same, Fields, XmitFields
  <1>4. TxQueueOK(d) /\ PendingBounded(d) /\ RxAndReasonOK(d)
    BY <1>2, <1>3 DEF ConnOK, TxQueueOK, PendingBounded, RxAndReasonOK
  <1>5. ASSUME ~c.listed PROVE Quiet(d)
    <2>1. c.state = TCP_CLOSED /\ Quiet(c)
      BY <1>5 DEF ConnOK
    <2>2. XmitSeqLen(c) = 0
      BY <1>1, <2>1, XmitSeqLenValue
    <2>3. QED BY <1>2, <1>3, <2>1, <2>2 DEF Quiet
  <1>6. QED BY <1>2, <1>3, <1>4, <1>5 DEF ConnOK, d

-----------------------------------------------------------------------------
(* Sending the FIN, if all data has been acknowledged. *)
LEMMA StartFinEffect ==
    ASSUME NEW c \in Connection
    PROVE  LET d == StartFin(c)
           IN  /\ d \in Connection
               /\ Same(c, d, {"state", "pending_flags"})
               /\ d.state.acked = c.state.acked /\ d.state.rcvd = c.state.rcvd
               /\ \/ /\ d = c
                     /\ c.tx_queue # <<>> \/ "FIN" \in c.state.sent
                  \/ /\ "FIN" \notin c.state.sent
                     /\ c.tx_queue = <<>>
                     /\ d.state.sent = c.state.sent \cup {"FIN"}
                     /\ d.pending_flags = c.pending_flags + 1
  <1>1. CASE ~(c.tx_queue = <<>> /\ "FIN" \notin c.state.sent)
    BY <1>1 DEF StartFin, Same
  <1>2. CASE c.tx_queue = <<>> /\ "FIN" \notin c.state.sent
    <2> DEFINE sent == c.state.sent \cup {"FIN"}
               d    == StartFin(c)
    <2>1. d = [c EXCEPT !.state.sent = sent,
                        !.pending_flags = c.pending_flags + 1]
      BY <1>2 DEF StartFin, pending_get
    <2>2. sent \in SUBSET Flags /\ c.pending_flags + 1 \in Nat
      BY ConnectionFields DEF Flags
    <2> HIDE DEF sent, d
    <2>3. /\ d \in Connection /\ Same(c, d, {"state", "pending_flags"})
          /\ d.state.acked = c.state.acked /\ d.state.rcvd = c.state.rcvd
          /\ d.state.sent = sent /\ d.pending_flags = c.pending_flags + 1
      BY Zenon, <2>1, <2>2 DEF Connection, Same, Fields
    <2>4. QED BY <1>2, <2>3 DEF sent, d
  <1>3. QED BY <1>1, <1>2

(* The fields an acknowledgement may change *)
AckFields == {"snd_win", "keepalive", "timer", "count", "pending_flags",
              "snd_seq", "snd_sent", "tx_queue", "tx_pos", "pending_data",
              "state"}

(* c becomes d by an acknowledgement of something new *)
AckEffect(c, ack, d) ==
    LET f == TCP_FLAGS_SENDING(c.state) \cap {"SYN", "FIN"}
        p == IF f # {} THEN pending_put(c.pending_flags) ELSE c.pending_flags
    IN  /\ d \in Connection /\ Same(c, d, AckFields)
        /\ TxQueueOK(d) /\ d.pending_data = Len(d.tx_queue)
        /\ c.tx_queue = <<>> => d.tx_queue = <<>>
        /\ ~d.timer /\ d.snd_sent = 0 /\ d.snd_seq = ack
        /\ d.state.acked = c.state.acked \cup f
        /\ d.state.rcvd = c.state.rcvd
        /\ \/ d.state.sent = c.state.sent /\ d.pending_flags = p
           \/ /\ c.xfer_closed /\ "FIN" \notin c.state.sent
              /\ d.tx_queue = <<>>
              /\ d.state.sent = c.state.sent \cup {"FIN"}
              /\ d.pending_flags = p + 1

(* An acknowledgement of something new acknowledges a flag, data or both,  *)
(* stops the retransmission timer and starts the FIN of a closed           *)
(* connection that has nothing left to send.                               *)
LEMMA RxAckEffect ==
    ASSUME NEW c, ConnOK(c), NEW ack \in SeqNo, NEW win \in Nat,
           ~AckOutOfRange(c, ack), Sub(ack, c.snd_seq) > 0
    PROVE  AckEffect(c, ack, tcp_rx_ack(c, ack, win))
  <1> DEFINE ack_len == Sub(ack, c.snd_seq)
             f == TCP_FLAGS_SENDING(c.state) \cap {"SYN", "FIN"}
             p == IF f # {} THEN pending_put(c.pending_flags)
                  ELSE c.pending_flags
             k == c.keepalive \/ "FIN" \notin c.state.sent
             heard == [c EXCEPT !.snd_win = win, !.keepalive = k]
             timed == stop_timer(heard)
             stopped == [timed EXCEPT !.pending_flags = p, !.snd_seq = ack,
                                      !.snd_sent = 0]
             len == IF f # {} THEN ack_len - 1 ELSE ack_len
             drained == tcp_process_tx_queue(stopped, len)
             acks == c.state.acked \cup f
             acked == [drained EXCEPT !.state.acked = acks]
             d == tcp_rx_ack(c, ack, win)
  <1>1. c \in Connection /\ TxQueueOK(c) /\ c.pending_data = Len(c.tx_queue)
    BY DEF ConnOK, PendingBounded
  <1>2. /\ ack_len \in Nat /\ ack_len > 0 /\ p \in Nat
        /\ f \in SUBSET Flags /\ acks \in SUBSET Flags
    <2>snd. c.snd_seq \in SeqNo
      BY <1>1, ConnectionFields
    <2>int. ack \in Int /\ c.snd_seq \in Int
      BY <2>snd DEF SeqNo
    <2>1. ack_len \in SeqNo
      BY <2>int, SeqNoType
    <2>2. c.pending_flags \in Nat /\ c.state.acked \in SUBSET Flags
      BY <1>1, ConnectionFields
    <2>3. p \in Nat
      BY Zenon, <2>2, SmallTypes
    <2>4. f \in SUBSET Flags /\ acks \in SUBSET Flags
      BY <2>2 DEF Flags
    <2>5. QED BY <2>1, <2>3, <2>4, SeqSpaceAssumption DEF SeqNo
  <1>3. k \in BOOLEAN
    OBVIOUS
  <1>4. len \in Nat
    BY <1>2
  <1>5. d = IF c.xfer_closed THEN StartFin(acked) ELSE acked
    <2>1. Sub(ack, c.snd_seq) # 0
      BY <1>2
    <2>2. QED BY <2>1, Zenon DEF tcp_rx_ack
  <1> HIDE DEF ack_len, f, p, k, len, acks, d
  <1>6. heard \in Connection /\ Same(c, heard, AckFields)
        /\ heard.tx_queue = c.tx_queue /\ heard.tx_pos = c.tx_pos
        /\ heard.pending_data = c.pending_data /\ heard.state = c.state
    BY Zenon, <1>1, <1>3 DEF Connection, Same, Fields, AckFields
  <1> HIDE DEF heard
  <1>7. /\ timed \in Connection /\ ~timed.timer
        /\ Same(heard, timed, {"timer", "count"})
    BY <1>6, StopTimer
  <1> HIDE DEF timed
  <1>8. /\ stopped \in Connection /\ ~stopped.timer
        /\ stopped.pending_flags = p /\ stopped.snd_seq = ack
        /\ stopped.snd_sent = 0
        /\ Same(timed, stopped, {"pending_flags", "snd_seq", "snd_sent"})
    BY Zenon, <1>2, <1>7 DEF Connection, Same, Fields
  <1> HIDE DEF stopped
  <1>9. /\ Same(c, stopped, AckFields) /\ stopped.state = c.state
        /\ stopped.tx_queue = c.tx_queue /\ stopped.tx_pos = c.tx_pos
        /\ stopped.pending_data = c.pending_data
    <2>1. Same(heard, stopped, {"timer", "count", "pending_flags", "snd_seq",
                                "snd_sent"})
      BY <1>7, <1>8, SameTransitive
    <2>2. Same(c, stopped, AckFields)
      BY <1>6, <2>1, SameTransitive DEF AckFields
    <2>3. QED BY <1>6, <2>1, <2>2 DEF Same, Fields
  <1>10. TxQueueOK(stopped) /\ stopped.pending_data = Len(stopped.tx_queue)
    BY <1>1, <1>9 DEF TxQueueOK
  <1>11. /\ drained \in Connection /\ TxQueueOK(drained)
         /\ drained.pending_data = Len(drained.tx_queue)
         /\ c.tx_queue = <<>> => drained.tx_queue = <<>>
         /\ Same(stopped, drained, {"tx_pos", "tx_queue", "pending_data"})
    BY <1>4, <1>8, <1>9, <1>10, ProcessTxQueue
  <1> HIDE DEF drained
  <1>12. /\ Same(c, drained, AckFields) /\ drained.state = c.state
         /\ ~drained.timer /\ drained.snd_sent = 0 /\ drained.snd_seq = ack
         /\ drained.pending_flags = p
    <2>1. Same(c, drained, AckFields)
      BY <1>9, <1>11, SameTransitive DEF AckFields
    <2>2. QED BY <1>8, <1>9, <1>11, <2>1 DEF Same, Fields
  <1>13. /\ acked \in Connection
         /\ acked.state.acked = acks /\ acked.state.sent = c.state.sent
         /\ acked.state.rcvd = c.state.rcvd
         /\ Same(drained, acked, {"state"})
    BY Zenon, <1>2, <1>11, <1>12 DEF Connection, Same, Fields
  <1> HIDE DEF acked
  <1>14. /\ Same(c, acked, AckFields)
         /\ ~acked.timer /\ acked.snd_sent = 0 /\ acked.snd_seq = ack
         /\ acked.pending_flags = p /\ acked.tx_queue = drained.tx_queue
         /\ acked.tx_pos = drained.tx_pos
         /\ acked.pending_data = drained.pending_data
    <2>1. Same(c, acked, AckFields)
      BY <1>12, <1>13, SameTransitive DEF AckFields
    <2>2. QED BY <1>12, <1>13, <2>1 DEF Same, Fields
  <1>15. TxQueueOK(acked)
    BY <1>11, <1>14 DEF TxQueueOK
  <1>16. CASE ~c.xfer_closed
    BY ZenonT(30), <1>5, <1>11, <1>13, <1>14, <1>15, <1>16
    DEF f, p, acks, d, AckEffect
  <1>17. CASE c.xfer_closed
    <2> DEFINE e == StartFin(acked)
    <2>1. /\ e \in Connection /\ Same(acked, e, {"state", "pending_flags"})
          /\ e.state.acked = acks /\ e.state.rcvd = c.state.rcvd
          /\ \/ e = acked
             \/ /\ "FIN" \notin c.state.sent
                /\ acked.tx_queue = <<>>
                /\ e.state.sent = c.state.sent \cup {"FIN"}
                /\ e.pending_flags = p + 1
      BY <1>13, <1>14, StartFinEffect
    <2>2. d = e
      BY <1>5, <1>17
    <2> HIDE DEF e
    <2>3. Same(c, e, AckFields)
      BY <1>14, <2>1, SameTransitive DEF AckFields
    <2>4. /\ ~e.timer /\ e.snd_sent = 0 /\ e.snd_seq = ack
          /\ e.tx_queue = acked.tx_queue /\ e.tx_pos = acked.tx_pos
          /\ e.pending_data = acked.pending_data
      BY <1>14, <2>1 DEF Same, Fields
    <2>5. TxQueueOK(e)
      BY <1>15, <2>4 DEF TxQueueOK
    <2>6. QED
      BY ZenonT(30), <1>11, <1>13, <1>14, <1>17, <2>1, <2>2, <2>3, <2>4, <2>5
      DEF f, p, acks, d, AckEffect
  <1>18. QED BY <1>16, <1>17

(* An acknowledgement of nothing new leaves all but the window and the     *)
(* keepalive timer alone.                                                  *)
LEMMA RxAckHeard ==
    ASSUME NEW c \in Connection, NEW ack, NEW win \in Nat,
           AckOutOfRange(c, ack) \/ Sub(ack, c.snd_seq) = 0
    PROVE  LET d == tcp_rx_ack(c, ack, win)
           IN  /\ d \in Connection
               /\ Same(c, d, {"snd_win", "keepalive"})
               /\ AckOutOfRange(c, ack) => d = c
  <1> DEFINE k == c.keepalive \/ "FIN" \notin c.state.sent
             d == tcp_rx_ack(c, ack, win)
  <1>1. CASE AckOutOfRange(c, ack)
    <2>1. d = c
      BY <1>1, Zenon DEF tcp_rx_ack
    <2>2. QED BY <2>1 DEF Same
  <1>2. CASE ~AckOutOfRange(c, ack)
    <2>1. d = [c EXCEPT !.snd_win = win, !.keepalive = k]
      BY <1>2, Zenon DEF tcp_rx_ack
    <2>2. k \in BOOLEAN
      OBVIOUS
    <2> HIDE DEF k, d
    <2>3. d \in Connection /\ Same(c, d, {"snd_win", "keepalive"})
      BY Zenon, <2>1, <2>2 DEF Connection, Same, Fields
    <2>4. QED BY <1>2, <2>3 DEF d
  <1>3. QED BY <1>1, <1>2

(* Acknowledgements keep a connection well formed. *)
LEMMA RxAckOK ==
    ASSUME NEW c, ConnOK(c), c.listed, NEW ack \in SeqNo, NEW win \in Nat
    PROVE  LET d == tcp_rx_ack(c, ack, win)
           IN  /\ ConnOK(d) /\ Same(c, d, AckFields)
               /\ d.state.rcvd = c.state.rcvd
  <1> DEFINE d == tcp_rx_ack(c, ack, win)
  <1>1. c \in Connection
    BY DEF ConnOK
  <1>2. CASE AckOutOfRange(c, ack) \/ Sub(ack, c.snd_seq) = 0
    <2>1. d \in Connection /\ Same(c, d, {"snd_win", "keepalive"})
      BY <1>1, <1>2, RxAckHeard
    <2> HIDE DEF d
    <2>2. Same(c, d, AckFields)
      BY <2>1 DEF Same, AckFields
    <2>3. /\ d.listed = c.listed /\ d.state = c.state /\ d.rc = c.rc
          /\ d.xfer_closed = c.xfer_closed
          /\ d.tx_queue = c.tx_queue /\ d.tx_pos = c.tx_pos
          /\ d.rx_queue = c.rx_queue
          /\ d.pending_flags = c.pending_flags
          /\ d.pending_data = c.pending_data
      BY Zenon, <2>1 DEF Same, Fields
    <2>4. TxQueueOK(d) /\ PendingBounded(d) /\ RxAndReasonOK(d)
      BY Zenon, <2>3 DEF ConnOK, TxQueueOK, PendingBounded, RxAndReasonOK
    <2>5. QED BY <2>1, <2>2, <2>3, <2>4 DEF ConnOK, d
  <1>3. CASE ~AckOutOfRange(c, ack) /\ Sub(ack, c.snd_seq) # 0
    <2> DEFINE f == TCP_FLAGS_SENDING(c.state) \cap {"SYN", "FIN"}
               p == IF f # {} THEN pending_put(c.pending_flags)
                    ELSE c.pending_flags
    <2>1. Sub(ack, c.snd_seq) > 0
      <3>1. c.snd_seq \in Int /\ ack \in Int
        BY <1>1, ConnectionFields DEF SeqNo
      <3>2. Sub(ack, c.snd_seq) \in SeqNo
        BY <3>1, SeqNoType
      <3>3. QED BY <1>3, <3>2 DEF SeqNo
    <2>2. AckEffect(c, ack, d)
      BY <1>3, <2>1, RxAckEffect
    <2> HIDE DEF d
    <2>3. p \in Nat /\ p <= c.pending_flags
      BY <1>1, ConnectionFields DEF pending_put
    <2>4. /\ d.listed = c.listed /\ d.xfer_closed = c.xfer_closed
          /\ d.rc = c.rc /\ d.rx_queue = c.rx_queue
      BY Zenon, <2>2 DEF AckEffect, Same, Fields, AckFields
    <2>new. /\ d \in Connection /\ Same(c, d, AckFields)
           /\ TxQueueOK(d) /\ d.pending_data = Len(d.tx_queue)
           /\ d.state.rcvd = c.state.rcvd
           /\ \/ d.state.sent = c.state.sent /\ d.pending_flags = p
              \/ /\ "FIN" \notin c.state.sent
                 /\ d.state.sent = c.state.sent \cup {"FIN"}
                 /\ d.pending_flags = p + 1
      BY <2>2, Zenon DEF AckEffect
    <2>5. c.pending_flags <= IF "FIN" \in c.state.sent THEN 2 ELSE 1
      BY DEF ConnOK, PendingBounded
    <2>6. c.pending_flags \in Nat /\ d.pending_flags \in Nat
      BY <1>1, <2>new, ConnectionFields
    <2> HIDE DEF p
    <2>7. PendingBounded(d)
      BY <2>new, <2>3, <2>5, <2>6 DEF PendingBounded
    <2>8. RxAndReasonOK(d)
      BY <2>new, <2>4 DEF ConnOK, RxAndReasonOK
    <2>9. QED BY <2>new, <2>4, <2>7, <2>8 DEF ConnOK, d
  <1>4. QED BY <1>2, <1>3

-----------------------------------------------------------------------------
(* Deletion leaves nothing behind. *)
LEMMA DeletedIsOK ==
    ASSUME NEW c \in Connection, c.pending_data = Len(c.tx_queue),
           c.pending_flags <= 2, c.rc # "none"
    PROVE  ConnOK(Deleted(c)) /\ ~Deleted(c).listed
           /\ Deleted(c).rc = c.rc /\ Deleted(c).rcv_ack = c.rcv_ack
  <1> DEFINE data    == Maximum(0, c.pending_data - Len(c.tx_queue))
             flags   == pending_put(pending_put(c.pending_flags))
             drained == [c EXCEPT !.pending_data = data,
                                  !.pending_flags = flags,
                                  !.rx_queue = <<>>, !.tx_queue = <<>>]
             timed   == stop_timer(drained)
             d       == Deleted(c)
  <1>1. d = [timed EXCEPT
               !.state = TCP_CLOSED, !.process = FALSE,
               !.keepalive = FALSE, !.wait = FALSE, !.listed = FALSE]
    BY Zenon DEF Deleted
  <1>2. data = 0 /\ flags = 0
    <2>1. c.pending_flags \in Nat /\ c.pending_data \in Nat
      BY ConnectionFields
    <2>2. QED BY <2>1 DEF Maximum, pending_put
  <1> HIDE DEF data, flags, d
  <1>3. /\ drained \in Connection
        /\ drained.pending_data = 0 /\ drained.pending_flags = 0
        /\ drained.rx_queue = <<>> /\ drained.tx_queue = <<>>
        /\ drained.rc = c.rc /\ drained.rcv_ack = c.rcv_ack
    <2>1. <<>> \in Seq(Nat) /\ <<>> \in Seq(QueuedPacket)
      BY EmptySeq
    <2>2. drained \in Connection
      BY Zenon, <1>2, <2>1 DEF Connection
    <2>3. QED BY ZenonT(30), <1>2, <2>2 DEF Connection
  <1> HIDE DEF drained
  <1>4. /\ timed \in Connection /\ ~timed.timer
        /\ Same(drained, timed, {"timer", "count"})
    BY <1>3, StopTimer
  <1> HIDE DEF timed
  <1>5. /\ timed.pending_data = 0 /\ timed.pending_flags = 0
        /\ timed.rx_queue = <<>> /\ timed.tx_queue = <<>>
        /\ timed.rc = c.rc /\ timed.rcv_ack = c.rcv_ack
    BY <1>3, <1>4 DEF Same, Fields
  <1>6. TCP_CLOSED \in [sent : SUBSET Flags, acked : SUBSET Flags,
                        rcvd : SUBSET Flags]
    BY DEF TCP_CLOSED, State, Flags
  <1>7. /\ d \in Connection /\ d.state = TCP_CLOSED
        /\ ~d.process /\ ~d.keepalive /\ ~d.wait /\ ~d.listed /\ ~d.timer
        /\ d.pending_data = 0 /\ d.pending_flags = 0
        /\ d.rx_queue = <<>> /\ d.tx_queue = <<>>
        /\ d.rc = c.rc /\ d.rcv_ack = c.rcv_ack
    BY ZenonT(30), <1>1, <1>4, <1>5, <1>6 DEF Connection
  <1>8. Len(d.tx_queue) = 0
    BY <1>7
  <1>9. TxQueueOK(d) /\ PendingBounded(d) /\ RxAndReasonOK(d) /\ Quiet(d)
    BY <1>7, <1>8 DEF TxQueueOK, Searchable, PendingBounded, RxAndReasonOK, Quiet
  <1>10. QED BY <1>7, <1>9 DEF ConnOK, d

(* Transmitting keeps the connection live, also when the network has seen  *)
(* more of our sequence space.                                             *)
LEMMA XmitSackLive ==
    ASSUME NEW c, NEW env \in Environments, ConnOK(c),
           NEW n \in Nat, NEW m \in Nat, LiveOK(c, n),
           m = n \/ (tcp_xmit_sack(c, env).sent /\ m >= n)
    PROVE  LiveOK(tcp_xmit_sack(c, env).c, m)
  <1> DEFINE x == tcp_xmit_sack(c, env)
             d == x.c
  <1>1. c \in Connection /\ TxQueueOK(c)
    BY DEF ConnOK
  <1>2. /\ d \in Connection
        /\ d.timer => c.timer \/ XmitSeqLen(c) > 0
        /\ d.snd_sent = IF c.timer THEN c.snd_sent ELSE XmitSeqLen(c)
        /\ x.sent => ~c.timer
        /\ Same(c, d, XmitFields)
    BY <1>1, XmitSack
  <1>3. m = n \/ (x.sent /\ m >= n)
    OBVIOUS
  <1> HIDE DEF x
  <1>4. /\ d.state = c.state /\ d.xfer_closed = c.xfer_closed
        /\ d.pending_flags = c.pending_flags /\ d.wait = c.wait
        /\ d.snd_seq = c.snd_seq
    BY Zenon, <1>2 DEF Same, Fields, XmitFields
  <1> HIDE DEF d
  <1>5. d.timer => "FIN" \notin d.state.acked
    <2>1. SUFFICES ASSUME d.timer, "FIN" \in c.state.acked PROVE FALSE
      BY <1>4
    <2>2. "FIN" \in c.state.sent \cap c.state.acked /\ "SYN" \in c.state.acked
      BY <2>1 DEF LiveOK, StateOK
    <2>3. XmitSeqLen(c) = 0
      BY ZenonT(30), <1>1, <2>2, XmitSeqLenValue
    <2>4. QED BY <1>2, <2>1, <2>3 DEF LiveOK
  <1>6. ASSUME "SYN" \notin d.state.acked, m > 0 PROVE d.snd_sent = 1
    <2>1. "SYN" \in c.state.sent \ c.state.acked
      BY ZenonT(30), <1>4, <1>6 DEF LiveOK, StateOK
    <2>2. XmitSeqLen(c) = 1
      BY <1>1, <2>1, XmitSeqLenValue
    <2>3. n > 0 => c.snd_sent = 1
      BY <2>1 DEF LiveOK
    <2>4. QED BY ZenonT(30), <1>2, <1>3, <1>6, <2>2, <2>3
  <1>7. "SYN" \in d.state.rcvd => m > 0
    BY <1>3, <1>4 DEF LiveOK
  <1>8. QED BY Zenon, <1>4, <1>5, <1>6, <1>7 DEF LiveOK, d, x

(* Acknowledgements keep the connection live. *)
LEMMA RxAckLive ==
    ASSUME NEW c, ConnOK(c), NEW n \in Nat, LiveOK(c, n),
           NEW ack \in SeqNo, NEW win \in Nat
    PROVE  LET d == tcp_rx_ack(c, ack, win)
           IN  /\ LiveOK(d, n)
               /\ c.state.acked \subseteq d.state.acked
               /\ ~AckOutOfRange(c, ack) /\ Sub(ack, c.snd_seq) > 0
                    => "SYN" \in d.state.acked
  <1> DEFINE d == tcp_rx_ack(c, ack, win)
  <1>1. c \in Connection
    BY DEF ConnOK
  <1>2. CASE AckOutOfRange(c, ack) \/ Sub(ack, c.snd_seq) = 0
    <2>1. d \in Connection /\ Same(c, d, {"snd_win", "keepalive"})
      BY <1>1, <1>2, RxAckHeard
    <2> HIDE DEF d
    <2>2. /\ d.state = c.state /\ d.xfer_closed = c.xfer_closed
          /\ d.pending_flags = c.pending_flags /\ d.wait = c.wait
          /\ d.snd_seq = c.snd_seq /\ d.snd_sent = c.snd_sent
          /\ d.timer = c.timer
      BY <2>1 DEF Same, Fields
    <2>3. LiveOK(d, n)
      BY Zenon, <2>2 DEF LiveOK
    <2>4. QED BY <1>2, <2>2, <2>3 DEF d
  <1>3. CASE ~AckOutOfRange(c, ack) /\ Sub(ack, c.snd_seq) # 0
    <2> DEFINE f == TCP_FLAGS_SENDING(c.state) \cap {"SYN", "FIN"}
               p == IF f # {} THEN pending_put(c.pending_flags)
                    ELSE c.pending_flags
    <2>1. Sub(ack, c.snd_seq) > 0
      <3>1. c.snd_seq \in Int /\ ack \in Int
        BY <1>1, ConnectionFields DEF SeqNo
      <3>2. Sub(ack, c.snd_seq) \in SeqNo
        BY <3>1, SeqNoType
      <3>3. QED BY <1>3, <3>2 DEF SeqNo
    <2>2. AckEffect(c, ack, d)
      BY <1>3, <2>1, RxAckEffect
    <2> HIDE DEF d
    <2>3. /\ d \in Connection /\ Same(c, d, AckFields) /\ ~d.timer
          /\ d.state.acked = c.state.acked \cup f
          /\ d.state.rcvd = c.state.rcvd
          /\ \/ d.state.sent = c.state.sent /\ d.pending_flags = p
             \/ /\ c.xfer_closed /\ "FIN" \notin c.state.sent
                /\ d.state.sent = c.state.sent \cup {"FIN"}
                /\ d.pending_flags = p + 1
      BY <2>2, Zenon DEF AckEffect
    <2>4. d.xfer_closed = c.xfer_closed /\ d.wait = c.wait
      BY Zenon, <2>3 DEF Same, Fields, AckFields
    <2>5. /\ "SYN" \in f <=> "SYN" \notin c.state.acked
          /\ "FIN" \in f <=> "FIN" \in c.state.sent \ c.state.acked
          /\ f \subseteq {"SYN", "FIN"}
      BY Zenon DEF LiveOK, StateOK, TCP_FLAGS_SENDING
    <2>6. "SYN" \in d.state.acked
      BY <2>3, <2>5
    <2>7. p = 0
      <3>1. c.pending_flags = One("SYN" \notin c.state.acked)
                              + One("FIN" \in c.state.sent \ c.state.acked)
        BY DEF LiveOK
      <3>2. CASE f = {}
        <4>1. c.pending_flags = 0
          BY <2>5, <3>1, <3>2 DEF One
        <4>2. QED BY <3>2, <4>1
      <3>3. CASE f # {}
        <4>1. "SYN" \in f \/ "FIN" \in f
          BY Zenon, <2>5, <3>3
        <4>2. ~("SYN" \in f /\ "FIN" \in f)
          BY <2>5 DEF LiveOK, StateOK
        <4>3. c.pending_flags = 1
          BY <2>5, <3>1, <4>1, <4>2 DEF One
        <4>4. QED BY <3>3, <4>3 DEF pending_put
      <3>4. QED BY <3>2, <3>3
    <2> HIDE DEF f, p
    <2>8. StateOK(d.state)
      BY Zenon, <2>3, <2>5, <2>6 DEF LiveOK, StateOK
    <2>9. d.pending_flags = One("SYN" \notin d.state.acked)
                            + One("FIN" \in d.state.sent \ d.state.acked)
      <3>1. One("SYN" \notin d.state.acked) = 0
        BY <2>6 DEF One
      <3>2. CASE d.state.sent = c.state.sent /\ d.pending_flags = p
        <4>1. "FIN" \notin d.state.sent \ d.state.acked
          BY <2>3, <2>5, <3>2
        <4>2. QED BY <2>7, <3>1, <3>2, <4>1 DEF One
      <3>3. CASE /\ c.xfer_closed /\ "FIN" \notin c.state.sent
                 /\ d.state.sent = c.state.sent \cup {"FIN"}
                 /\ d.pending_flags = p + 1
        <4>1. "FIN" \in d.state.sent \ d.state.acked
          BY ZenonT(30), <2>3, <2>5, <3>3 DEF LiveOK, StateOK
        <4>2. QED BY ZenonT(30), <2>7, <3>1, <3>3, <4>1 DEF One
      <3>4. QED BY <2>3, <3>2, <3>3
    <2>10. d.wait => TCP_CLOSED_GRACEFULLY(d.state)
      BY ZenonT(30), <2>3, <2>4 DEF LiveOK, TCP_CLOSED_GRACEFULLY
    <2>11. "FIN" \in d.state.sent => d.xfer_closed
      BY ZenonT(30), <2>3, <2>4 DEF LiveOK
    <2>12. LiveOK(d, n)
      BY ZenonT(30), <2>3, <2>4, <2>6, <2>8, <2>9, <2>10, <2>11 DEF LiveOK
    <2>13. QED BY <2>3, <2>6, <2>12 DEF d
  <1>4. QED BY <1>2, <1>3

(* Starting the FIN keeps a connection well formed ...                     *)
LEMMA StartFinOK ==
    ASSUME NEW c, ConnOK(c), c.listed
    PROVE  ConnOK(StartFin(c))
  <1> DEFINE d == StartFin(c)
  <1>1. c \in Connection
    BY DEF ConnOK
  <1>2. /\ d \in Connection
        /\ Same(c, d, {"state", "pending_flags"})
        /\ d.state.acked = c.state.acked /\ d.state.rcvd = c.state.rcvd
        /\ \/ d = c
           \/ /\ "FIN" \notin c.state.sent
              /\ d.state.sent = c.state.sent \cup {"FIN"}
              /\ d.pending_flags = c.pending_flags + 1
    BY <1>1, StartFinEffect
  <1> HIDE DEF d
  <1>3. CASE d = c
    BY Zenon, <1>3 DEF d
  <1>4. CASE /\ "FIN" \notin c.state.sent
             /\ d.state.sent = c.state.sent \cup {"FIN"}
             /\ d.pending_flags = c.pending_flags + 1
    <2>1. /\ d.listed = c.listed /\ d.rc = c.rc
          /\ d.xfer_closed = c.xfer_closed
          /\ d.tx_queue = c.tx_queue /\ d.tx_pos = c.tx_pos
          /\ d.rx_queue = c.rx_queue /\ d.pending_data = c.pending_data
      BY Zenon, <1>2 DEF Same, Fields
    <2>2. c.pending_flags \in Nat /\ c.pending_flags <= 1
      BY ZenonT(30), <1>1, <1>4, ConnectionFields DEF ConnOK, PendingBounded
    <2>3. TxQueueOK(d) /\ PendingBounded(d) /\ RxAndReasonOK(d)
      BY SMTT(30), <1>2, <1>4, <2>1, <2>2
      DEF ConnOK, TxQueueOK, PendingBounded, RxAndReasonOK
    <2>4. QED BY <1>2, <2>1, <2>3 DEF ConnOK, d
  <1>5. QED BY <1>2, <1>3, <1>4

(* ... and live, once the application has closed it.                       *)
LEMMA StartFinLive ==
    ASSUME NEW c, ConnOK(c), NEW n \in Nat, LiveOK(c, n), c.xfer_closed,
           "SYN" \in c.state.acked
    PROVE  LiveOK(StartFin(c), n)
  <1> DEFINE d == StartFin(c)
  <1>1. c \in Connection
    BY DEF ConnOK
  <1>2. /\ d \in Connection
        /\ Same(c, d, {"state", "pending_flags"})
        /\ d.state.acked = c.state.acked /\ d.state.rcvd = c.state.rcvd
        /\ \/ d = c
           \/ /\ "FIN" \notin c.state.sent
              /\ d.state.sent = c.state.sent \cup {"FIN"}
              /\ d.pending_flags = c.pending_flags + 1
    BY <1>1, StartFinEffect
  <1> HIDE DEF d
  <1>3. CASE d = c
    BY ZenonT(30), <1>3 DEF d
  <1>4. CASE /\ "FIN" \notin c.state.sent
             /\ d.state.sent = c.state.sent \cup {"FIN"}
             /\ d.pending_flags = c.pending_flags + 1
    <2>1. /\ d.xfer_closed = c.xfer_closed /\ d.wait = c.wait
          /\ d.timer = c.timer
      BY Zenon, <1>2 DEF Same, Fields
    <2>2. "FIN" \notin c.state.acked /\ StateOK(d.state)
      BY Zenon, <1>2, <1>4 DEF LiveOK, StateOK
    <2>3. c.pending_flags = 0
      BY <1>4 DEF LiveOK, One
    <2>4. d.pending_flags = One("SYN" \notin d.state.acked)
                            + One("FIN" \in d.state.sent \ d.state.acked)
      BY ZenonT(30), <1>2, <1>4, <2>2, <2>3 DEF One
    <2>5. d.wait => TCP_CLOSED_GRACEFULLY(d.state)
      BY <1>2, <2>1 DEF LiveOK, TCP_CLOSED_GRACEFULLY
    <2>6. d.timer => "FIN" \notin d.state.acked
      BY ZenonT(30), <1>2, <2>1, <2>2
    <2>7. d.xfer_closed /\ "SYN" \in d.state.rcvd /\ n > 0
      BY ZenonT(30), <1>2, <2>1 DEF LiveOK
    <2>8. QED BY ZenonT(30), <1>2, <2>2, <2>4, <2>5, <2>6, <2>7 DEF LiveOK, d
  <1>5. QED BY Zenon, <1>2, <1>3, <1>4

(* tcp_close deletes the connection if the peer's SYN has not been         *)
(* received, and otherwise leaves it well formed, closed to the            *)
(* application.                                                            *)
LEMMA CloseOK ==
    ASSUME NEW c, ConnOK(c), c.listed, NEW rc \in Reasons \ {"none"}
    PROVE  LET d == tcp_close(c, rc)
           IN  /\ ConnOK(d) /\ d.rc # "none" /\ d.rcv_ack = c.rcv_ack
               /\ "SYN" \notin c.state.rcvd => ~d.listed
               /\ "SYN" \in c.state.rcvd =>
                    d.listed /\ d.state.rcvd = c.state.rcvd
  <1> DEFINE why      == IF c.xfer_closed THEN c.rc ELSE rc
             closed   == [c EXCEPT !.xfer_closed = TRUE, !.rc = why]
             next     == Add(c.snd_seq, 1)
             pretend  == IF "SYN" \in c.state.acked THEN closed
                         ELSE tcp_rx_ack(closed, next, 0)
             quiet    == [pretend EXCEPT !.keepalive = FALSE]
             finished == StartFin(quiet)
             proc     == quiet.process \/ finished # quiet
             d        == tcp_close(c, rc)
  <1>1. c \in Connection
    BY Zenon DEF ConnOK
  <1>2. why \in Reasons /\ why # "none" /\ next \in SeqNo
    <2>1. c.snd_seq \in Int /\ c.rc \in Reasons
      BY <1>1, ConnectionFields DEF SeqNo
    <2>2. next \in SeqNo
      BY <2>1, SeqNoType
    <2>3. QED BY <2>1, <2>2 DEF ConnOK, RxAndReasonOK
  <1>3. d = IF "SYN" \notin c.state.rcvd THEN Deleted(closed)
            ELSE [finished EXCEPT !.process = proc]
    BY Zenon DEF tcp_close
  <1> HIDE DEF why, next, d
  <1>4. /\ closed \in Connection /\ closed.rc = why /\ closed.xfer_closed
        /\ Same(c, closed, {"xfer_closed", "rc"})
    BY Zenon, <1>1, <1>2 DEF Connection, Same, Fields
  <1> HIDE DEF closed
  <1>5. /\ closed.listed /\ closed.state = c.state /\ closed.rcv_ack = c.rcv_ack
        /\ closed.tx_queue = c.tx_queue /\ closed.tx_pos = c.tx_pos
        /\ closed.rx_queue = c.rx_queue
        /\ closed.pending_data = c.pending_data
        /\ closed.pending_flags = c.pending_flags
    BY <1>4 DEF Same, Fields
  <1>6. ConnOK(closed)
    BY <1>2, <1>4, <1>5
    DEF ConnOK, TxQueueOK, PendingBounded, RxAndReasonOK
  <1>7. CASE "SYN" \notin c.state.rcvd
    <2>1. closed.pending_data = Len(closed.tx_queue) /\ closed.pending_flags <= 2
      <3>1. closed.pending_flags \in Nat
        BY <1>4, ConnectionFields
      <3>2. QED BY SMTT(30), <1>6, <3>1 DEF ConnOK, PendingBounded
    <2>2. /\ ConnOK(Deleted(closed)) /\ ~Deleted(closed).listed
          /\ Deleted(closed).rc = why /\ Deleted(closed).rcv_ack = c.rcv_ack
      BY ZenonT(30), <1>2, <1>4, <1>5, <2>1, DeletedIsOK
    <2>3. QED BY Zenon, <1>2, <1>3, <1>7, <2>2 DEF d
  <1>8. CASE "SYN" \in c.state.rcvd
    <2>1. /\ ConnOK(pretend) /\ Same(closed, pretend, AckFields)
          /\ pretend.state.rcvd = c.state.rcvd
      <3>1. CASE "SYN" \in c.state.acked
        BY Zenon, <1>5, <1>6, <3>1 DEF Same
      <3>2. CASE "SYN" \notin c.state.acked
        BY <1>2, <1>5, <1>6, <3>2, RxAckOK
      <3>3. QED BY <3>1, <3>2
    <2> HIDE DEF pretend
    <2>2. /\ pretend.listed /\ pretend.rc = why /\ pretend.rcv_ack = c.rcv_ack
          /\ pretend \in Connection
      BY <1>4, <1>5, <2>1 DEF Same, Fields, AckFields, ConnOK
    <2>3. quiet \in Connection /\ Same(pretend, quiet, {"keepalive"})
      BY Zenon, <2>2 DEF Connection, Same, Fields
    <2> HIDE DEF quiet
    <2>4. /\ quiet.listed /\ quiet.state = pretend.state
          /\ quiet.rc = why /\ quiet.rcv_ack = c.rcv_ack
          /\ quiet.tx_queue = pretend.tx_queue /\ quiet.tx_pos = pretend.tx_pos
          /\ quiet.rx_queue = pretend.rx_queue
          /\ quiet.pending_data = pretend.pending_data
          /\ quiet.pending_flags = pretend.pending_flags
      BY ZenonT(30), <2>2, <2>3 DEF Same, Fields
    <2>5. ConnOK(quiet)
      BY ZenonT(30), <1>2, <2>1, <2>3, <2>4
      DEF ConnOK, TxQueueOK, PendingBounded, RxAndReasonOK
    <2>6. /\ ConnOK(finished) /\ finished \in Connection
          /\ Same(quiet, finished, {"state", "pending_flags"})
          /\ finished.state.rcvd = quiet.state.rcvd
      BY ZenonT(30), <2>3, <2>4, <2>5, StartFinOK, StartFinEffect
    <2> HIDE DEF finished
    <2>7. /\ finished.listed /\ finished.rc = why
          /\ finished.rcv_ack = c.rcv_ack
      BY <2>4, <2>6 DEF Same, Fields
    <2>8. d = [finished EXCEPT !.process = proc] /\ proc \in BOOLEAN
      BY <1>3, <1>8, <2>3, ConnectionFields
    <2> HIDE DEF proc
    <2>9. d \in Connection /\ Same(finished, d, {"process"})
      BY Zenon, <2>6, <2>8 DEF Connection, Same, Fields
    <2>10. /\ d.listed /\ d.state = finished.state
           /\ d.rc = why /\ d.rcv_ack = c.rcv_ack
           /\ d.tx_queue = finished.tx_queue /\ d.tx_pos = finished.tx_pos
           /\ d.rx_queue = finished.rx_queue
           /\ d.pending_data = finished.pending_data
           /\ d.pending_flags = finished.pending_flags
      BY ZenonT(30), <2>7, <2>9 DEF Same, Fields
    <2>11. ConnOK(d)
      BY ZenonT(30), <1>2, <2>6, <2>9, <2>10
      DEF ConnOK, TxQueueOK, PendingBounded, RxAndReasonOK
    <2>12. QED BY ZenonT(30), <1>2, <1>8, <2>1, <2>4, <2>6, <2>10, <2>11 DEF d
  <1>9. QED BY <1>7, <1>8

(* Closing a connection whose peer has sent its SYN keeps it live: if our  *)
(* own SYN is outstanding, pretending its acknowledgement is in range.     *)
LEMMA CloseLive ==
    ASSUME NEW c, ConnOK(c), c.listed, NEW n \in Nat, LiveOK(c, n),
           "SYN" \in c.state.rcvd, NEW rc \in Reasons \ {"none"}
    PROVE  LET d == tcp_close(c, rc)
           IN  LiveOK(d, n) /\ "SYN" \in d.state.acked
  <1> DEFINE why      == IF c.xfer_closed THEN c.rc ELSE rc
             closed   == [c EXCEPT !.xfer_closed = TRUE, !.rc = why]
             next     == Add(c.snd_seq, 1)
             pretend  == IF "SYN" \in c.state.acked THEN closed
                         ELSE tcp_rx_ack(closed, next, 0)
             quiet    == [pretend EXCEPT !.keepalive = FALSE]
             finished == StartFin(quiet)
             proc     == quiet.process \/ finished # quiet
             d        == tcp_close(c, rc)
  <1>1. c \in Connection
    BY DEF ConnOK
  <1>2. why \in Reasons /\ why # "none" /\ next \in SeqNo
    <2>1. c.snd_seq \in Int /\ c.rc \in Reasons
      BY <1>1, ConnectionFields DEF SeqNo
    <2>2. next \in SeqNo
      BY <2>1, SeqNoType
    <2>3. QED BY Zenon, <2>1, <2>2 DEF ConnOK, RxAndReasonOK
  <1>3. d = [finished EXCEPT !.process = proc]
    BY Zenon DEF tcp_close
  <1> HIDE DEF why, d
  <1>4. /\ closed \in Connection /\ closed.rc = why /\ closed.xfer_closed
        /\ Same(c, closed, {"xfer_closed", "rc"})
    BY Zenon, <1>1, <1>2 DEF Connection, Same, Fields
  <1> HIDE DEF closed
  <1>5. /\ closed.listed /\ closed.state = c.state /\ closed.wait = c.wait
        /\ closed.tx_queue = c.tx_queue /\ closed.tx_pos = c.tx_pos
        /\ closed.rx_queue = c.rx_queue /\ closed.timer = c.timer
        /\ closed.snd_seq = c.snd_seq /\ closed.snd_sent = c.snd_sent
        /\ closed.pending_data = c.pending_data
        /\ closed.pending_flags = c.pending_flags
    BY ZenonT(30), <1>4 DEF Same, Fields
  <1>6. ConnOK(closed)
    BY ZenonT(30), <1>2, <1>4, <1>5
    DEF ConnOK, TxQueueOK, PendingBounded, RxAndReasonOK
  <1>7. LiveOK(closed, n)
    BY ZenonT(30), <1>4, <1>5 DEF LiveOK
  <1>8. /\ ConnOK(pretend) /\ LiveOK(pretend, n)
        /\ "SYN" \in pretend.state.acked
        /\ Same(closed, pretend, AckFields)
    <2>1. CASE "SYN" \in c.state.acked
      BY ZenonT(30), <1>5, <1>6, <1>7, <2>1 DEF Same
    <2>2. CASE "SYN" \notin c.state.acked
      <3>1. closed.snd_sent = 1
        BY ZenonT(30), <1>7, <2>2, <1>5 DEF LiveOK
      <3>2. Sub(next, closed.snd_seq) = 1
        BY <1>1, <1>5, ConnectionFields, NextSeqNo
      <3>3. ~AckOutOfRange(closed, next)
        BY <3>1, <3>2 DEF AckOutOfRange
      <3> HIDE DEF next
      <3>4. pretend = tcp_rx_ack(closed, next, 0)
        BY Zenon, <2>2
      <3>5. LiveOK(pretend, n) /\ "SYN" \in pretend.state.acked
        BY SMTT(30), <1>2, <1>6, <1>7, <3>2, <3>3, <3>4, RxAckLive
      <3>6. ConnOK(pretend) /\ Same(closed, pretend, AckFields)
        BY ZenonT(90), <1>2, <1>5, <1>6, <3>4, RxAckOK
      <3>7. QED BY ZenonT(30), <3>5, <3>6
    <2>3. QED BY <2>1, <2>2
  <1> HIDE DEF pretend, next
  <1>9. /\ pretend.listed /\ pretend.xfer_closed /\ pretend.rc = why
        /\ pretend \in Connection
    BY <1>4, <1>5, <1>8 DEF Same, Fields, AckFields, ConnOK
  <1>10. quiet \in Connection /\ Same(pretend, quiet, {"keepalive"})
    BY Zenon, <1>9 DEF Connection, Same, Fields
  <1> HIDE DEF quiet
  <1>11. /\ quiet.listed /\ quiet.state = pretend.state /\ quiet.rc = why
         /\ quiet.xfer_closed /\ quiet.wait = pretend.wait
         /\ quiet.timer = pretend.timer
         /\ quiet.snd_seq = pretend.snd_seq /\ quiet.snd_sent = pretend.snd_sent
         /\ quiet.tx_queue = pretend.tx_queue /\ quiet.tx_pos = pretend.tx_pos
         /\ quiet.rx_queue = pretend.rx_queue
         /\ quiet.pending_data = pretend.pending_data
         /\ quiet.pending_flags = pretend.pending_flags
    BY ZenonT(30), <1>9, <1>10 DEF Same, Fields
  <1>12. ConnOK(quiet)
    BY ZenonT(30), <1>2, <1>8, <1>10, <1>11
    DEF ConnOK, TxQueueOK, PendingBounded, RxAndReasonOK
  <1>13. LiveOK(quiet, n)
    BY ZenonT(30), <1>8, <1>9, <1>11 DEF LiveOK
  <1>14. /\ LiveOK(finished, n) /\ finished \in Connection
         /\ finished.state.acked = quiet.state.acked
    BY ZenonT(30), <1>8, <1>10, <1>11, <1>12, <1>13, StartFinLive, StartFinEffect
  <1> HIDE DEF finished
  <1>15. proc \in BOOLEAN
    BY <1>10, ConnectionFields
  <1> HIDE DEF proc
  <1>16. /\ d.state = finished.state /\ d.xfer_closed = finished.xfer_closed
         /\ d.pending_flags = finished.pending_flags
         /\ d.timer = finished.timer /\ d.wait = finished.wait
         /\ d.snd_seq = finished.snd_seq /\ d.snd_sent = finished.snd_sent
    BY ZenonT(30), <1>3, <1>14, <1>15 DEF Connection
  <1>17. LiveOK(d, n)
    BY ZenonT(30), <1>14, <1>16 DEF LiveOK
  <1>18. QED BY ZenonT(30), <1>8, <1>11, <1>14, <1>16, <1>17 DEF d

(* Aborting deletes the connection whatever its state. *)
LEMMA AbortOK ==
    ASSUME NEW c \in Connection, c.pending_data = Len(c.tx_queue),
           c.pending_flags <= 2, c.xfer_closed => c.rc # "none",
           NEW rc \in Reasons \ {"none"}
    PROVE  /\ ConnOK(Abort(c, rc)) /\ ~Abort(c, rc).listed
           /\ Abort(c, rc).rc # "none" /\ Abort(c, rc).rcv_ack = c.rcv_ack
  <1> DEFINE reset  == [c EXCEPT !.state = TCP_CLOSED]
             why    == IF reset.xfer_closed THEN reset.rc ELSE rc
             closed == [reset EXCEPT !.xfer_closed = TRUE, !.rc = why]
  <1>1. TCP_CLOSED \in [sent : SUBSET Flags, acked : SUBSET Flags,
                        rcvd : SUBSET Flags]
        /\ TCP_CLOSED.rcvd = {}
    BY DEF TCP_CLOSED, State, Flags
  <1>2. /\ reset \in Connection /\ reset.state = TCP_CLOSED
        /\ Same(c, reset, {"state"})
    BY Zenon, <1>1 DEF Connection, Same, Fields
  <1>3. "SYN" \notin reset.state.rcvd
    BY <1>1, <1>2
  <1>4. Abort(c, rc) = Deleted(closed)
    BY <1>3, Zenon DEF Abort, tcp_close
  <1> HIDE DEF reset
  <1>5. why \in Reasons /\ why # "none"
    BY <1>2, ConnectionFields DEF Same, Fields
  <1> HIDE DEF why
  <1>6. /\ closed \in Connection /\ closed.rc = why
        /\ Same(reset, closed, {"xfer_closed", "rc"})
    BY Zenon, <1>2, <1>5 DEF Connection, Same, Fields
  <1> HIDE DEF closed
  <1>7. /\ closed.pending_data = c.pending_data
        /\ closed.pending_flags = c.pending_flags
        /\ closed.tx_queue = c.tx_queue /\ closed.rcv_ack = c.rcv_ack
    BY <1>2, <1>6 DEF Same, Fields
  <1>8. QED BY ZenonT(30), <1>4, <1>5, <1>6, <1>7, DeletedIsOK

-----------------------------------------------------------------------------
(* Fields that neither invariant speaks of, for a listed connection *)
HarmlessFields == {"ack_pending", "sack_enabled", "snd_win", "rcv_ack",
                   "rcv_win", "rcv_scale", "count", "process", "keepalive"}

(* Changing them changes nothing that matters here. *)
LEMMA Harmless ==
    ASSUME NEW c, ConnOK(c), c.listed, NEW d \in Connection,
           Same(c, d, HarmlessFields)
    PROVE  /\ ConnOK(d) /\ d.listed
           /\ \A n \in Nat : LiveOK(c, n) => LiveOK(d, n)
           /\ d.state = c.state /\ d.xfer_closed = c.xfer_closed
           /\ d.rx_queue = c.rx_queue /\ d.rc = c.rc
           /\ d.tx_queue = c.tx_queue /\ d.tx_pos = c.tx_pos
  <1>1. /\ d.listed = c.listed /\ d.state = c.state /\ d.rc = c.rc
        /\ d.xfer_closed = c.xfer_closed
        /\ d.tx_queue = c.tx_queue /\ d.tx_pos = c.tx_pos
        /\ d.rx_queue = c.rx_queue /\ d.timer = c.timer /\ d.wait = c.wait
        /\ d.snd_seq = c.snd_seq /\ d.snd_sent = c.snd_sent
        /\ d.pending_flags = c.pending_flags
        /\ d.pending_data = c.pending_data
    BY Zenon DEF Same, Fields, HarmlessFields
  <1>2. ConnOK(d)
    BY ZenonT(30), <1>1 DEF ConnOK, TxQueueOK, PendingBounded, RxAndReasonOK
  <1>3. ASSUME NEW n \in Nat, LiveOK(c, n) PROVE LiveOK(d, n)
    BY Zenon, <1>1, <1>3 DEF LiveOK
  <1>4. QED BY <1>1, <1>2, <1>3

(* Consuming received sequence space. *)
LEMMA RxSeq ==
    ASSUME NEW c \in Connection, NEW len \in Nat
    PROVE  LET d == tcp_rx_seq(c, len)
           IN  /\ d \in Connection
               /\ Same(c, d, {"rcv_ack", "rcv_win", "ack_pending"})
  <1> DEFINE ack == Add(c.rcv_ack, len)
             win == Maximum(0, c.rcv_win - len)
             d   == tcp_rx_seq(c, len)
  <1>1. ack \in SeqNo /\ win \in Nat
    <2>1. c.rcv_ack \in Int /\ c.rcv_win \in Nat
      BY ConnectionFields DEF SeqNo
    <2>2. ack \in SeqNo
      BY <2>1, SeqNoType
    <2>3. win \in Nat
      BY <2>1 DEF Maximum
    <2>4. QED BY <2>2, <2>3
  <1>2. d = [c EXCEPT !.rcv_ack = ack, !.rcv_win = win, !.ack_pending = TRUE]
    BY DEF tcp_rx_seq
  <1> HIDE DEF ack, win, d
  <1>3. /\ d \in Connection
        /\ Same(c, d, {"rcv_ack", "rcv_win", "ack_pending"})
    BY Zenon, <1>1, <1>2 DEF Connection, Same, Fields
  <1>4. QED BY <1>3 DEF d

(* It changes only fields that neither invariant speaks of. *)
LEMMA RxSeqOK ==
    ASSUME NEW c, ConnOK(c), c.listed, NEW len \in Nat
    PROVE  LET d == tcp_rx_seq(c, len)
           IN  /\ ConnOK(d) /\ d.listed
               /\ \A n \in Nat : LiveOK(c, n) => LiveOK(d, n)
               /\ d.state = c.state /\ d.xfer_closed = c.xfer_closed
               /\ d.rx_queue = c.rx_queue /\ d.rc = c.rc
               /\ d.tx_queue = c.tx_queue /\ d.tx_pos = c.tx_pos
  <1> DEFINE d == tcp_rx_seq(c, len)
  <1>1. c \in Connection
    BY DEF ConnOK
  <1>2. d \in Connection /\ Same(c, d, {"rcv_ack", "rcv_win", "ack_pending"})
    BY Zenon, <1>1, RxSeq
  <1> HIDE DEF d
  <1>3. Same(c, d, HarmlessFields)
    BY Zenon, <1>2 DEF Same, HarmlessFields
  <1>4. QED BY <1>2, <1>3, Harmless DEF d

(* The segments that tcp_rx can be given *)
Segments == [flags : SUBSET Flags, seq : SeqNo, pos : Nat, len : Nat,
             ack : SeqNo, win : Nat, spopt : BOOLEAN]

(* The state changes of a received SYN or FIN keep the connection well     *)
(* formed, and live if the network has seen our own SYN.                   *)
LEMMA MarkReceived ==
    ASSUME NEW c, ConnOK(c), c.listed, NEW d \in Connection,
           Same(c, d, {"state"}), d.state.acked = c.state.acked,
           \/ /\ d.state.sent = c.state.sent \cup {"ACK"}
              /\ d.state.rcvd = c.state.rcvd \cup {"SYN"}
           \/ /\ d.state.sent = c.state.sent
              /\ d.state.rcvd = c.state.rcvd \cup {"FIN"}
              /\ "SYN" \in c.state.rcvd
    PROVE  /\ ConnOK(d) /\ d.listed
           /\ \A n \in Nat : n > 0 /\ LiveOK(c, n) => LiveOK(d, n)
  <1>1. /\ d.listed = c.listed /\ d.rc = c.rc
        /\ d.xfer_closed = c.xfer_closed
        /\ d.tx_queue = c.tx_queue /\ d.tx_pos = c.tx_pos
        /\ d.rx_queue = c.rx_queue /\ d.timer = c.timer /\ d.wait = c.wait
        /\ d.snd_seq = c.snd_seq /\ d.snd_sent = c.snd_sent
        /\ d.pending_flags = c.pending_flags
        /\ d.pending_data = c.pending_data
    BY Zenon DEF Same, Fields
  <1>2. "FIN" \in d.state.sent <=> "FIN" \in c.state.sent
    OBVIOUS
  <1>3. ConnOK(d)
    BY ZenonT(30), <1>1, <1>2 DEF ConnOK, TxQueueOK, PendingBounded,
       RxAndReasonOK
  <1>4. ASSUME NEW n \in Nat, n > 0, LiveOK(c, n) PROVE LiveOK(d, n)
    <2>1. StateOK(d.state)
      BY ZenonT(30), <1>4 DEF LiveOK, StateOK
    <2>2. d.pending_flags = One("SYN" \notin d.state.acked)
                            + One("FIN" \in d.state.sent \ d.state.acked)
      BY ZenonT(30), <1>1, <1>2, <1>4 DEF LiveOK, One
    <2>3. d.wait => TCP_CLOSED_GRACEFULLY(d.state)
      BY ZenonT(30), <1>1, <1>4 DEF LiveOK, TCP_CLOSED_GRACEFULLY
    <2>4. QED BY ZenonT(30), <1>1, <1>2, <1>4, <2>1, <2>2, <2>3 DEF LiveOK
  <1>5. QED BY <1>1, <1>3, <1>4

(* After a SYN segment the peer's SYN is received. *)
LEMMA RxSyn ==
    ASSUME NEW c, ConnOK(c), c.listed, NEW seg \in Segments
    PROVE  LET d == tcp_rx_syn(c, seg)
           IN  /\ ConnOK(d) /\ d.listed
               /\ \A n \in Nat : n > 0 /\ LiveOK(c, n) => LiveOK(d, n)
               /\ "SYN" \in d.state.rcvd /\ d.state.acked = c.state.acked
               /\ c.state.rcvd \subseteq d.state.rcvd
               /\ d.state.rcvd \subseteq c.state.rcvd \cup {"SYN"}
  <1> DEFINE first  == "SYN" \notin c.state.rcvd
             synced == IF first
                       THEN [c EXCEPT !.rcv_ack = seg.seq,
                                      !.sack_enabled = seg.spopt,
                                      !.rcv_scale = WindowScale]
                       ELSE c
             acked  == tcp_rx_seq(synced, 1)
             marked == [acked EXCEPT !.state.sent = @ \cup {"ACK"},
                                     !.state.rcvd = @ \cup {"SYN"}]
             d      == tcp_rx_syn(c, seg)
  <1>1. c \in Connection
    BY DEF ConnOK
  <1>2. seg.seq \in SeqNo /\ seg.spopt \in BOOLEAN
    BY DEF Segments
  <1>3. d = IF seg.seq # synced.rcv_ack THEN synced ELSE marked
    BY Zenon DEF tcp_rx_syn
  <1> HIDE DEF d
  <1>4. /\ synced \in Connection /\ Same(c, synced, HarmlessFields)
        /\ first => synced.rcv_ack = seg.seq
    <2>1. CASE first
      BY Zenon, <1>1, <1>2, <2>1 DEF Connection, Same, Fields, HarmlessFields
    <2>2. CASE ~first
      BY ZenonT(30), <1>1, <2>2 DEF Same
    <2>3. QED BY <2>1, <2>2
  <1> HIDE DEF synced
  <1>5. /\ ConnOK(synced) /\ synced.listed /\ synced.state = c.state
        /\ \A n \in Nat : LiveOK(c, n) => LiveOK(synced, n)
    BY <1>4, Harmless
  <1>6. /\ ConnOK(acked) /\ acked.listed /\ acked.state = c.state
        /\ \A n \in Nat : LiveOK(c, n) => LiveOK(acked, n)
    BY <1>5, RxSeqOK
  <1> HIDE DEF acked
  <1>7. acked \in Connection
    BY <1>6 DEF ConnOK
  <1>8. /\ marked \in Connection /\ Same(acked, marked, {"state"})
        /\ marked.state.acked = c.state.acked
        /\ marked.state.sent = acked.state.sent \cup {"ACK"}
        /\ marked.state.rcvd = acked.state.rcvd \cup {"SYN"}
    BY Zenon, <1>6, <1>7 DEF Connection, Same, Fields, Flags
  <1> HIDE DEF marked
  <1>9. /\ ConnOK(marked) /\ marked.listed
        /\ \A n \in Nat : n > 0 /\ LiveOK(acked, n) => LiveOK(marked, n)
    BY ZenonT(30), <1>6, <1>8, MarkReceived
  <1>10. CASE seg.seq # synced.rcv_ack
    BY SMTT(30), <1>3, <1>4, <1>5, <1>10 DEF d
  <1>11. CASE seg.seq = synced.rcv_ack
    BY ZenonT(30), <1>3, <1>6, <1>8, <1>9, <1>11 DEF d
  <1>12. QED BY <1>10, <1>11

(* Enqueuing a packet only adds it to the receive queue of a connection    *)
(* that has received the peer's SYN.                                       *)
LEMMA RxEnqueue ==
    ASSUME NEW c, ConnOK(c), c.listed, NEW seq \in SeqNo, NEW seg \in Segments
    PROVE  LET d == tcp_rx_enqueue(c, seq, seg)
           IN  /\ ConnOK(d) /\ d.listed /\ d.state = c.state
               /\ \A n \in Nat : LiveOK(c, n) => LiveOK(d, n)
               /\ d.xfer_closed = c.xfer_closed /\ d.rc = c.rc
  <1> DEFINE q      == c.rx_queue
             fin    == "FIN" \in seg.flags
             nxt    == Add(seq, seg.len + IF fin THEN 1 ELSE 0)
             entry  == [seq |-> seq, nxt |-> nxt, fin |-> fin,
                        pos |-> seg.pos, len |-> seg.len]
             S      == {i \in DOMAIN q : tcp_cmp(seq, q[i].seq) < 0}
             passed == Preceding(q, S)
             longer == SubSeq(q, 1, passed) \o <<entry>>
                       \o SubSeq(q, passed + 1, Len(q))
             d      == tcp_rx_enqueue(c, seq, seg)
  <1>1. c \in Connection
    BY DEF ConnOK
  <1>2. entry \in QueuedPacket
    <2>1. seq \in Int /\ seg.len \in Nat /\ seg.pos \in Nat
      BY DEF Segments, SeqNo
    <2>2. nxt \in SeqNo
      BY <2>1, SeqNoType
    <2>3. fin \in BOOLEAN
      OBVIOUS
    <2> HIDE DEF nxt, fin
    <2>4. QED BY <2>1, <2>2, <2>3 DEF QueuedPacket
  <1>3. q \in Seq(QueuedPacket) /\ Len(q) \in Nat /\ DOMAIN q = 1..Len(q)
    BY <1>1, ConnectionFields, LenProperties
  <1>4. passed \in Nat /\ passed <= Len(q)
    <2>1. S \in SUBSET (1..Len(q))
      BY <1>3
    <2> HIDE DEF S
    <2>2. passed \in 0..Len(q)
      BY Zenon, <1>3, <2>1, PrecedingBounds
    <2>3. QED BY <1>3, <2>2
  <1>5. \/ d = c
        \/ "SYN" \in c.state.rcvd /\ d = [c EXCEPT !.rx_queue = longer]
    BY Zenon DEF tcp_rx_enqueue
  <1> HIDE DEF q, entry, passed, d
  <1>6. longer \in Seq(QueuedPacket)
    <2> DEFINE front == SubSeq(q, 1, passed)
               back  == SubSeq(q, passed + 1, Len(q))
    <2>2. longer = front \o <<entry>> \o back
      OBVIOUS
    <2>3. \A i \in 1..passed : q[i] \in QueuedPacket
      BY <1>3, <1>4, ElementOfSeq
    <2>4. \A i \in (passed + 1)..Len(q) : q[i] \in QueuedPacket
      BY <1>3, <1>4, ElementOfSeq
    <2>5. front \in Seq(QueuedPacket)
      BY <1>4, <2>3, SubSeqProperties
    <2>6. back \in Seq(QueuedPacket)
      BY <1>3, <1>4, <2>4, SubSeqProperties
    <2>7. <<entry>> \in Seq(QueuedPacket)
      BY <1>2
    <2> HIDE DEF front, back
    <2>8. front \o <<entry>> \in Seq(QueuedPacket)
      BY <2>5, <2>7, ConcatProperties
    <2>9. QED BY Zenon, <2>2, <2>6, <2>8, ConcatProperties
  <1> HIDE DEF longer
  <1>7. CASE d = c
    BY <1>7 DEF d
  <1>8. CASE "SYN" \in c.state.rcvd /\ d = [c EXCEPT !.rx_queue = longer]
    <2>1. d \in Connection /\ Same(c, d, {"rx_queue"})
      BY Zenon, <1>1, <1>6, <1>8 DEF Connection, Same, Fields
    <2>2. /\ d.listed = c.listed /\ d.state = c.state /\ d.rc = c.rc
          /\ d.xfer_closed = c.xfer_closed
          /\ d.tx_queue = c.tx_queue /\ d.tx_pos = c.tx_pos
          /\ d.timer = c.timer /\ d.wait = c.wait
          /\ d.snd_seq = c.snd_seq /\ d.snd_sent = c.snd_sent
          /\ d.pending_flags = c.pending_flags
          /\ d.pending_data = c.pending_data
      BY Zenon, <2>1 DEF Same, Fields
    <2>3. ConnOK(d)
      BY ZenonT(30), <1>8, <2>1, <2>2 DEF ConnOK, TxQueueOK, PendingBounded,
         RxAndReasonOK
    <2>4. ASSUME NEW n \in Nat, LiveOK(c, n) PROVE LiveOK(d, n)
      BY ZenonT(30), <2>2, <2>4 DEF LiveOK
    <2>5. QED BY <2>2, <2>3, <2>4 DEF d
  <1>9. QED BY <1>5, <1>7, <1>8

(* Acknowledging received data. *)
LEMMA RxData ==
    ASSUME NEW c, ConnOK(c), c.listed, NEW q \in QueuedPacket
    PROVE  LET d == tcp_rx_data(c, q)
           IN  /\ ConnOK(d) /\ d.listed /\ d.state = c.state
               /\ \A n \in Nat : LiveOK(c, n) => LiveOK(d, n)
               /\ d.xfer_closed = c.xfer_closed /\ d.rc = c.rc
               /\ d.rx_queue = c.rx_queue
               /\ d.tx_queue = c.tx_queue /\ d.tx_pos = c.tx_pos
  <1>1. AlreadyRcvd(c, q) \in Nat /\ q.len \in Nat
    <2>1. c.rcv_ack \in Int /\ q.seq \in Int /\ q.len \in Nat
      BY ConnectionFields DEF ConnOK, QueuedPacket, SeqNo
    <2>2. AlreadyRcvd(c, q) \in SeqNo
      BY Zenon, <2>1, SeqNoType DEF AlreadyRcvd
    <2>3. QED BY <2>1, <2>2 DEF SeqNo
  <1>2. CASE AlreadyRcvd(c, q) >= q.len
    BY Zenon, <1>2 DEF tcp_rx_data
  <1>3. CASE ~(AlreadyRcvd(c, q) >= q.len)
    <2>1. q.len - AlreadyRcvd(c, q) \in Nat
      BY <1>1, <1>3
    <2>2. tcp_rx_data(c, q) = tcp_rx_seq(c, q.len - AlreadyRcvd(c, q))
      BY ZenonT(30), <1>3, Zenon DEF tcp_rx_data
    <2>3. QED BY <2>1, <2>2, RxSeqOK
  <1>4. QED BY <1>2, <1>3

(* A received FIN closes the connection, which stays listed. *)
LEMMA RxFin ==
    ASSUME NEW c, ConnOK(c), c.listed, "SYN" \in c.state.rcvd, NEW seq
    PROVE  LET d == tcp_rx_fin(c, seq)
           IN  /\ ConnOK(d) /\ d.listed
               /\ c.state.rcvd \subseteq d.state.rcvd
               /\ d.state.rcvd \subseteq c.state.rcvd \cup {"FIN"}
               /\ \A n \in Nat : LiveOK(c, n) =>
                     LiveOK(d, n) /\ (SettledOK(c) => SettledOK(d))
  <1> DEFINE acked  == tcp_rx_seq(c, 1)
             marked == [acked EXCEPT !.state.rcvd = @ \cup {"FIN"}]
             d      == tcp_rx_fin(c, seq)
  <1>1. CASE seq # c.rcv_ack
    BY ZenonT(30), <1>1 DEF tcp_rx_fin
  <1>2. CASE seq = c.rcv_ack
    <2>1. d = tcp_close(marked, "ok")
      BY <1>2, Zenon DEF tcp_rx_fin
    <2> HIDE DEF d
    <2>2. /\ ConnOK(acked) /\ acked.listed /\ acked.state = c.state
          /\ \A n \in Nat : LiveOK(c, n) => LiveOK(acked, n)
      BY Zenon, RxSeqOK
    <2> HIDE DEF acked
    <2>3. acked \in Connection
      BY <2>2 DEF ConnOK
    <2>4. /\ marked \in Connection /\ Same(acked, marked, {"state"})
          /\ marked.state.acked = c.state.acked
          /\ marked.state.sent = acked.state.sent
          /\ marked.state.rcvd = acked.state.rcvd \cup {"FIN"}
      BY Zenon, <2>2, <2>3 DEF Connection, Same, Fields, Flags
    <2> HIDE DEF marked
    <2>5. /\ ConnOK(marked) /\ marked.listed
          /\ \A n \in Nat : n > 0 /\ LiveOK(acked, n) => LiveOK(marked, n)
      BY ZenonT(30), <2>2, <2>4, MarkReceived
    <2>6. "SYN" \in marked.state.rcvd /\ "ok" \in Reasons \ {"none"}
      BY <2>2, <2>4 DEF Reasons
    <2>7. ConnOK(d) /\ d.listed /\ d.state.rcvd = marked.state.rcvd
      BY ZenonT(30), <2>1, <2>5, <2>6, CloseOK
    <2>8. ASSUME NEW n \in Nat, LiveOK(c, n)
          PROVE  LiveOK(d, n) /\ "SYN" \in d.state.acked
      <3>1. n > 0
        BY <2>8 DEF LiveOK
      <3>2. LiveOK(marked, n)
        BY ZenonT(30), <2>2, <2>5, <2>8, <3>1
      <3>3. QED BY ZenonT(30), <2>1, <2>5, <2>6, <3>2, CloseLive
    <2>9. "SYN" \in d.state.rcvd
      BY ZenonT(30), <2>6, <2>7
    <2>10. /\ c.state.rcvd \subseteq d.state.rcvd
           /\ d.state.rcvd \subseteq c.state.rcvd \cup {"FIN"}
      BY Zenon, <2>2, <2>4, <2>7
    <2>11. ASSUME NEW n \in Nat, LiveOK(c, n)
           PROVE  LiveOK(d, n) /\ SettledOK(d)
      BY Zenon, <2>8, <2>9, <2>11 DEF SettledOK
    <2>12. QED BY Zenon, <2>7, <2>10, <2>11 DEF d
  <1>3. QED BY <1>1, <1>2

(* What a transmission attempt leaves alone. *)
LEMMA XmitKeeps ==
    ASSUME NEW c \in Connection, NEW env \in Environments, TxQueueOK(c)
    PROVE  LET x == tcp_xmit_sack(c, env)
           IN  /\ x.built \in BOOLEAN /\ x.sent \in BOOLEAN
               /\ x.c.listed = c.listed /\ x.c.state = c.state
               /\ x.c.rc = c.rc /\ x.c.xfer_closed = c.xfer_closed
  <1>1. /\ Same(c, tcp_xmit_sack(c, env).c, XmitFields)
        /\ tcp_xmit_sack(c, env).built \in BOOLEAN
        /\ tcp_xmit_sack(c, env).sent \in BOOLEAN
    BY Zenon, XmitSack
  <1>2. QED BY ZenonT(30), <1>1 DEF Same, Fields, XmitFields

(* The connection after a new buffer has been queued *)
Queued(c, len) ==
    [c EXCEPT !.tx_queue = Append(@, TxEnd(c) + len),
              !.pending_data = pending_get(@)]

(* A new buffer goes to the end of the transmit queue, and is counted. *)
LEMMA Deliver ==
    ASSUME NEW c, ConnOK(c), c.listed, NEW len \in Nat, len > 0
    PROVE  LET d == Queued(c, len)
           IN  /\ ConnOK(d) /\ d.listed /\ d.state = c.state /\ d.rc = c.rc
               /\ d.xfer_closed = c.xfer_closed
               /\ \A n \in Nat : LiveOK(c, n) => LiveOK(d, n)
  <1> DEFINE q == c.tx_queue
             e == TxEnd(c) + len
             d == Queued(c, len)
  <1>1. c \in Connection /\ TxQueueOK(c)
    BY Zenon DEF ConnOK
  <1>2. q \in Seq(Nat) /\ Len(q) \in Nat /\ c.tx_pos \in Nat
    BY <1>1, ConnectionFields, LenProperties
  <1>3. TxLen(c) \in Nat
    BY <1>1, XmitLengths
  <1>4. e \in Nat /\ e > c.tx_pos /\ (q # <<>> => e >= q[Len(q)])
    <2>1. q = <<>> \/ TxLen(c) = q[Len(q)] - c.tx_pos
      BY DEF TxLen
    <2>2. q = <<>> \/ q[Len(q)] \in Nat
      BY SMTT(30), <1>2
    <2>3. TxEnd(c) = c.tx_pos + TxLen(c) /\ q = c.tx_queue
      BY Zenon DEF TxEnd
    <2> HIDE DEF q
    <2>4. TxEnd(c) \in Nat /\ TxEnd(c) >= c.tx_pos
      BY <1>2, <1>3, <2>3
    <2>5. q # <<>> => TxEnd(c) = q[Len(q)]
      BY SMTT(30), <1>2, <2>1, <2>2, <2>3
    <2>6. QED BY SMTT(30), <1>2, <2>2, <2>4, <2>5
  <1>5. c.pending_data \in Nat /\ pending_get(c.pending_data) = Len(q) + 1
    BY <1>1, ConnectionFields DEF ConnOK, PendingBounded, pending_get
  <1>6. d = [c EXCEPT !.tx_queue = Append(q, e),
                      !.pending_data = pending_get(c.pending_data)]
    BY Zenon DEF Queued
  <1> HIDE DEF e, d
  <1>7. /\ Append(q, e) \in Seq(Nat) /\ Len(Append(q, e)) = Len(q) + 1
        /\ \A i \in 1..Len(q) : Append(q, e)[i] = q[i]
        /\ Append(q, e)[Len(q) + 1] = e
    BY SMTT(30), <1>2, <1>4, AppendProperties
  <1>8. d \in Connection /\ Same(c, d, {"tx_queue", "pending_data"})
        /\ d.tx_queue = Append(q, e) /\ d.pending_data = Len(q) + 1
    <2> DEFINE longer == Append(q, e)
               data   == pending_get(c.pending_data)
    <2>1. longer \in Seq(Nat) /\ data \in Nat /\ data = Len(q) + 1
      BY <1>2, <1>5, <1>7
    <2>2. d = [c EXCEPT !.tx_queue = longer, !.pending_data = data]
      BY <1>6
    <2> HIDE DEF longer, data
    <2>3. d \in Connection /\ Same(c, d, {"tx_queue", "pending_data"})
          /\ d.tx_queue = longer /\ d.pending_data = data
      BY Zenon, <1>1, <2>1, <2>2 DEF Connection, Same, Fields
    <2>4. QED BY <2>1, <2>3 DEF longer
  <1>9. /\ d.listed = c.listed /\ d.state = c.state /\ d.rc = c.rc
        /\ d.xfer_closed = c.xfer_closed
        /\ d.rx_queue = c.rx_queue /\ d.tx_pos = c.tx_pos
        /\ d.timer = c.timer /\ d.wait = c.wait
        /\ d.snd_seq = c.snd_seq /\ d.snd_sent = c.snd_sent
        /\ d.pending_flags = c.pending_flags
    BY Zenon, <1>8 DEF Same, Fields
  <1>10. TxQueueOK(d)
    <2> DEFINE a == Append(q, e)
    <2>1. \A i \in 1..(Len(q) + 1) : a[i] > c.tx_pos
      BY SMTT(30), <1>1, <1>2, <1>4, <1>7 DEF TxQueueOK
    <2>2. \A i \in 1..Len(q) : q[i] <= e
      <3>1. ASSUME NEW i \in 1..Len(q) PROVE q[i] <= e
        <4>1. q[i] <= q[Len(q)] /\ q # <<>>
          BY <1>1, <1>2 DEF TxQueueOK
        <4>2. q[i] \in Nat /\ q[Len(q)] \in Nat
          BY <1>2
        <4>3. QED BY <1>4, <4>1, <4>2
      <3>2. QED BY <3>1
    <2>3. \A i, j \in 1..(Len(q) + 1) : i <= j => a[i] <= a[j]
      BY SMTT(30), <1>1, <1>2, <1>4, <1>7, <2>2 DEF TxQueueOK
    <2>4. Searchable(a)
      <3>1. /\ Searchable(q)
            /\ \A i, j \in 1..Len(q) : i <= j => q[i] <= q[j]
        BY <1>1 DEF TxQueueOK
      <3> HIDE DEF q
      <3>2. QED BY Zenon, <1>2, <1>4, <3>1, SearchableAppend
    <2> HIDE DEF a
    <2>5. QED BY ZenonT(30), <1>7, <1>8, <1>9, <2>1, <2>3, <2>4 DEF TxQueueOK, a
  <1>11. ConnOK(d)
    BY ZenonT(30), <1>7, <1>8, <1>9, <1>10 DEF ConnOK, PendingBounded,
       RxAndReasonOK
  <1>12. ASSUME NEW n \in Nat, LiveOK(c, n) PROVE LiveOK(d, n)
    BY ZenonT(30), <1>9, <1>12 DEF LiveOK
  <1>13. QED BY <1>9, <1>11, <1>12 DEF d

(* Whatever the application does when it is called leaves the connection   *)
(* well formed, and listed once the peer's SYN has been received.          *)
LEMMA ReactOK ==
    ASSUME NEW c, ConnOK(c), c.listed, NEW env \in Environments,
           NEW r \in Reactions(c)
    PROVE  LET x == React(c, r, env)
           IN  /\ ConnOK(x.c) /\ x.sent \in BOOLEAN
               /\ x.c.rc = "none" => x.c.listed
               /\ "SYN" \in c.state.rcvd =>
                     x.c.listed /\ x.c.state.rcvd = c.state.rcvd
  <1> DEFINE x == React(c, r, env)
  <1>1. c \in Connection /\ TxQueueOK(c) /\ c.xfer_closed \in BOOLEAN
    BY ConnectionFields DEF ConnOK
  <1>2. \/ r.op = "none" \/ r.op = "alloc" \/ r.op = "close"
        \/ r.op = "send" /\ r.len \in Nat /\ r.len > 0
    <2>1. TxBytes - TxEnd(c) \in Int
      BY SMTT(30), <1>1, XmitLengths, ConnectionFields, TcpConnAssumption
         DEF TxEnd
    <2>2. QED BY <2>1 DEF Reactions
  <1>3. CASE r.op = "none"
    <2>1. x = Result(c, FALSE, FALSE)
      BY <1>3 DEF React
    <2>2. x.c = c /\ x.sent \in BOOLEAN
      BY ZenonT(30), <2>1, ResultParts
    <2>3. QED BY <2>2
  <1>4. CASE r.op = "alloc"
    <2>1. x = Result(tcp_discard(c), FALSE, FALSE)
      BY <1>4 DEF React
    <2>2. x.c = tcp_discard(c) /\ x.sent \in BOOLEAN
      BY ZenonT(30), <2>1, ResultParts
    <2>3. /\ tcp_discard(c) \in Connection
          /\ c.rx_queue = <<>> => tcp_discard(c).rx_queue = <<>>
          /\ Same(c, tcp_discard(c), {"rx_queue"})
      BY <1>1, Discard
    <2> DEFINE d == tcp_discard(c)
    <2> HIDE DEF d, x
    <2>4. /\ d.listed = c.listed /\ d.state = c.state /\ d.rc = c.rc
          /\ d.xfer_closed = c.xfer_closed
          /\ d.tx_queue = c.tx_queue /\ d.tx_pos = c.tx_pos
          /\ d.pending_flags = c.pending_flags
          /\ d.pending_data = c.pending_data
      BY Zenon, <2>3 DEF Same, Fields, d
    <2>5. ConnOK(d)
      BY ZenonT(30), <2>3, <2>4 DEF ConnOK, TxQueueOK, PendingBounded,
         RxAndReasonOK, d
    <2>6. QED BY <2>2, <2>4, <2>5 DEF d, x
  <1>5. CASE r.op = "send" /\ r.len \in Nat /\ r.len > 0
    <2>1. x = tcp_xmit_sack(Queued(c, r.len), env)
      BY <1>5 DEF React, tcp_xfer_deliver, Queued
    <2>2. /\ ConnOK(Queued(c, r.len)) /\ Queued(c, r.len).listed
          /\ Queued(c, r.len).state = c.state
      BY <1>5, Deliver
    <2> DEFINE d == Queued(c, r.len)
    <2> HIDE DEF d
    <2>3. d \in Connection /\ TxQueueOK(d)
      BY <2>2 DEF ConnOK, d
    <2>4. ConnOK(tcp_xmit_sack(d, env).c)
      BY ZenonT(30), <2>2, XmitSackOK DEF d
    <2>5. /\ tcp_xmit_sack(d, env).sent \in BOOLEAN
          /\ tcp_xmit_sack(d, env).c.listed = d.listed
          /\ tcp_xmit_sack(d, env).c.state = d.state
      BY ZenonT(30), <2>3, XmitKeeps
    <2>6. QED BY <2>1, <2>2, <2>4, <2>5 DEF d
  <1>6. CASE r.op = "close"
    <2>1. x = tcp_xmit_sack(tcp_close(c, "app"), env)
      BY <1>6 DEF React, tcp_xfer_close
    <2> DEFINE d == tcp_close(c, "app")
    <2>2. "app" \in Reasons \ {"none"}
      BY DEF Reasons
    <2>3. /\ ConnOK(d) /\ d.rc # "none"
          /\ "SYN" \in c.state.rcvd => d.listed /\ d.state.rcvd = c.state.rcvd
      BY ZenonT(30), <2>2, CloseOK
    <2> HIDE DEF d
    <2>4. d \in Connection /\ TxQueueOK(d)
      BY <2>3 DEF ConnOK
    <2>5. ConnOK(tcp_xmit_sack(d, env).c)
      BY ZenonT(30), <2>3, XmitSackOK
    <2>6. /\ tcp_xmit_sack(d, env).sent \in BOOLEAN
          /\ tcp_xmit_sack(d, env).c.listed = d.listed
          /\ tcp_xmit_sack(d, env).c.state = d.state
          /\ tcp_xmit_sack(d, env).c.rc = d.rc
      BY <2>4, XmitKeeps
    <2>7. QED BY <2>1, <2>3, <2>5, <2>6 DEF d
  <1>7. QED BY ZenonT(30), <1>2, <1>3, <1>4, <1>5, <1>6

(* The same for the second invariant, when a transmission may have told    *)
(* the network of sequence space up to m.                                  *)
LEMMA ReactLive ==
    ASSUME NEW c, ConnOK(c), c.listed, NEW env \in Environments,
           NEW r \in Reactions(c), NEW n \in Nat, NEW m \in Nat, LiveOK(c, n),
           m = n \/ (React(c, r, env).sent /\ m >= n),
           React(c, r, env).c.listed
    PROVE  /\ LiveOK(React(c, r, env).c, m)
           /\ SettledOK(c) => SettledOK(React(c, r, env).c)
  <1> DEFINE x == React(c, r, env)
  <1>1. c \in Connection /\ TxQueueOK(c) /\ c.xfer_closed \in BOOLEAN
    BY Zenon, ConnectionFields DEF ConnOK
  <1>2. \/ r.op = "none" \/ r.op = "alloc" \/ r.op = "close"
        \/ r.op = "send" /\ r.len \in Nat /\ r.len > 0
    <2>1. TxBytes - TxEnd(c) \in Int
      BY SMTT(90), <1>1, XmitLengths, ConnectionFields, TcpConnAssumption
         DEF TxEnd
    <2>2. QED BY SMTT(30), <2>1 DEF Reactions
  <1>3. CASE r.op = "none"
    <2>1. x = Result(c, FALSE, FALSE)
      BY <1>3 DEF React
    <2>2. x.c = c /\ ~x.sent
      BY <2>1 DEF Result
    <2>3. QED BY <2>2
  <1>4. CASE r.op = "alloc"
    <2> DEFINE d == tcp_discard(c)
    <2>1. x = Result(d, FALSE, FALSE)
      BY <1>4 DEF React
    <2>2. x.c = d /\ ~x.sent
      BY SMTT(30), <2>1 DEF Result
    <2>3. Same(c, d, {"rx_queue"})
      BY ZenonT(30), <1>1, Discard
    <2> HIDE DEF d, x
    <2>4. /\ d.state = c.state /\ d.xfer_closed = c.xfer_closed
          /\ d.timer = c.timer /\ d.wait = c.wait
          /\ d.snd_seq = c.snd_seq /\ d.snd_sent = c.snd_sent
          /\ d.pending_flags = c.pending_flags
      BY ZenonT(30), <2>3 DEF Same, Fields
    <2>5. LiveOK(d, n) /\ (SettledOK(c) => SettledOK(d))
      BY ZenonT(30), <2>4 DEF LiveOK, SettledOK
    <2>6. QED BY <2>2, <2>5 DEF x
  <1>5. CASE r.op = "send" /\ r.len \in Nat /\ r.len > 0
    <2> DEFINE d == Queued(c, r.len)
    <2>1. x = tcp_xmit_sack(d, env)
      BY <1>5 DEF React, tcp_xfer_deliver, Queued
    <2>2. ConnOK(d) /\ d.state = c.state /\ LiveOK(d, n)
      BY <1>5, Deliver
    <2> HIDE DEF d
    <2>3. d \in Connection /\ TxQueueOK(d)
      BY <2>2 DEF ConnOK
    <2>4. LiveOK(tcp_xmit_sack(d, env).c, m)
      BY ZenonT(30), <2>1, <2>2, XmitSackLive
    <2>5. tcp_xmit_sack(d, env).c.state = d.state
      BY ZenonT(30), <2>3, XmitKeeps
    <2>6. QED BY ZenonT(30), <2>1, <2>2, <2>4, <2>5 DEF SettledOK
  <1>6. CASE r.op = "close"
    <2> DEFINE d == tcp_close(c, "app")
    <2>1. x = tcp_xmit_sack(d, env)
      BY <1>6 DEF React, tcp_xfer_close
    <2>2. "app" \in Reasons \ {"none"}
      BY ZenonT(30) DEF Reasons
    <2>3. /\ ConnOK(d)
          /\ "SYN" \notin c.state.rcvd => ~d.listed
          /\ "SYN" \in c.state.rcvd => d.state.rcvd = c.state.rcvd
      BY ZenonT(30), <2>2, CloseOK
    <2>4. "SYN" \in c.state.rcvd => LiveOK(d, n) /\ "SYN" \in d.state.acked
      BY ZenonT(30), <2>2, CloseLive
    <2> HIDE DEF d
    <2>5. d \in Connection /\ TxQueueOK(d)
      BY ZenonT(30), <2>3 DEF ConnOK
    <2>6. /\ tcp_xmit_sack(d, env).c.listed = d.listed
          /\ tcp_xmit_sack(d, env).c.state = d.state
      BY ZenonT(30), <2>5, XmitKeeps
    <2>7. "SYN" \in c.state.rcvd
      BY ZenonT(30), <2>1, <2>3, <2>6
    <2>8. LiveOK(tcp_xmit_sack(d, env).c, m)
      BY Zenon, <2>1, <2>3, <2>4, <2>7, XmitSackLive
    <2>9. QED BY ZenonT(30), <2>1, <2>3, <2>4, <2>6, <2>7, <2>8 DEF SettledOK
  <1>7. QED BY ZenonT(30), <1>2, <1>3, <1>4, <1>5, <1>6

(* Adding and subtracting sequence numbers wraps at most once. *)
LEMMA SeqValues ==
    ASSUME NEW a \in SeqNo, NEW b \in SeqNo
    PROVE  /\ Add(a, b) = IF a + b < SeqSpace THEN a + b ELSE (a + b) - SeqSpace
           /\ Sub(a, b) = IF b <= a THEN a - b ELSE (a - b) + SeqSpace
           /\ Add(a, b) \in SeqNo /\ Sub(a, b) \in SeqNo
  <1>1. \A n \in Nat : n < SeqSpace => n % SeqSpace = n
    BY SeqSpaceAssumption
  <1>2. \A n \in Nat : SeqSpace <= n /\ n < 2 * SeqSpace
                         => n % SeqSpace = n - SeqSpace
    BY SeqSpaceAssumption
  <1>3. \A n \in Int : 0 - SeqSpace <= n /\ n < 0
                         => n % SeqSpace = n + SeqSpace
    BY SeqSpaceAssumption
  <1>4. a \in Nat /\ b \in Nat /\ a < SeqSpace /\ b < SeqSpace
        /\ a \in Int /\ b \in Int
    BY SeqSpaceAssumption DEF SeqNo
  <1>5. Add(a, b) = IF a + b < SeqSpace THEN a + b ELSE (a + b) - SeqSpace
    BY <1>1, <1>2, <1>4, SeqSpaceAssumption DEF Add
  <1>6. Sub(a, b) = IF b <= a THEN a - b ELSE (a - b) + SeqSpace
    BY <1>1, <1>3, <1>4, SeqSpaceAssumption DEF Sub
  <1>7. QED BY <1>4, <1>5, <1>6, SeqNoType

(* Units counted from a sequence number a: reading them back, taking their  *)
(* difference and adding more.                                             *)
LEMMA SeqDistance ==
    ASSUME NEW a \in SeqNo, NEW m \in SeqNo, NEW n \in SeqNo
    PROVE  /\ Sub(Add(a, n), a) = n
           /\ Add(a, Sub(m, a)) = m
           /\ Sub(Add(a, m), Add(a, n)) = IF n <= m THEN m - n
                                          ELSE (m - n) + SeqSpace
           /\ m + n < SeqSpace => Add(Add(a, m), n) = Add(a, m + n)
  <1> DEFINE s == Add(a, n)
             t == Add(a, m)
             d == Sub(m, a)
  <1>1. /\ s \in SeqNo /\ s = IF a + n < SeqSpace THEN a + n ELSE (a + n) - SeqSpace
        /\ t \in SeqNo /\ t = IF a + m < SeqSpace THEN a + m ELSE (a + m) - SeqSpace
        /\ d \in SeqNo /\ d = IF a <= m THEN m - a ELSE (m - a) + SeqSpace
    BY Zenon, SeqValues
  <1>2. /\ a \in Nat /\ m \in Nat /\ n \in Nat
        /\ a < SeqSpace /\ m < SeqSpace /\ n < SeqSpace /\ SeqSpace \in Nat
    BY SeqSpaceAssumption DEF SeqNo
  <1> HIDE DEF s, t, d
  <1>3. Sub(s, a) = n
    BY <1>1, <1>2, SeqValues
  <1>4. Add(a, d) = m
    BY <1>1, <1>2, SeqValues
  <1>5. Sub(t, s) = IF n <= m THEN m - n ELSE (m - n) + SeqSpace
    <2>1. s \in SeqNo /\ t \in SeqNo
      BY <1>1
    <2>2. Sub(t, s) = IF s <= t THEN t - s ELSE (t - s) + SeqSpace
      BY <2>1, SeqValues
    <2>3. QED BY <1>1, <1>2, <2>2
  <1>6. m + n < SeqSpace => Add(t, n) = Add(a, m + n)
    <2> SUFFICES ASSUME m + n < SeqSpace PROVE Add(t, n) = Add(a, m + n)
      OBVIOUS
    <2>1. m + n \in SeqNo
      BY <1>2 DEF SeqNo
    <2> DEFINE u == m + n
    <2>2. t \in SeqNo
      BY Zenon, <1>1
    <2> HIDE DEF u
    <2>3. Add(t, n) = IF t + n < SeqSpace THEN t + n ELSE (t + n) - SeqSpace
      BY Zenon, <2>2, SeqValues
    <2>4. Add(a, u) = IF a + u < SeqSpace THEN a + u ELSE (a + u) - SeqSpace
      <3>1. u \in SeqNo
        BY Zenon, <2>1 DEF u
      <3>2. QED BY Zenon, <3>1, SeqValues
    <2>5. QED BY <1>1, <1>2, <2>3, <2>4 DEF u
  <1>7. QED BY <1>3, <1>4, <1>5, <1>6 DEF s, t, d

(* Distances add up as long as they do not wrap. *)
LEMMA SeqAdvance ==
    ASSUME NEW a \in SeqNo, NEW m \in SeqNo, NEW k \in SeqNo,
           Sub(m, a) + Sub(k, m) < SeqSpace
    PROVE  Sub(k, a) = Sub(m, a) + Sub(k, m)
  <1>1. /\ Sub(m, a) = IF a <= m THEN m - a ELSE (m - a) + SeqSpace
        /\ Sub(k, m) = IF m <= k THEN k - m ELSE (k - m) + SeqSpace
        /\ Sub(k, a) = IF a <= k THEN k - a ELSE (k - a) + SeqSpace
    BY Zenon, SeqValues
  <1>2. /\ a \in Nat /\ m \in Nat /\ k \in Nat /\ SeqSpace \in Nat
        /\ a < SeqSpace /\ m < SeqSpace /\ k < SeqSpace
    BY SeqSpaceAssumption DEF SeqNo
  <1>3. QED BY <1>1, <1>2

(* Stopping timers, and starting TIME_WAIT in its state, is harmless. *)
LEMMA Retimed ==
    ASSUME NEW c, ConnOK(c), c.listed, NEW d \in Connection,
           Same(c, d, HarmlessFields \cup {"timer", "wait"}),
           d.timer => c.timer,
           d.wait => c.wait \/ TCP_CLOSED_GRACEFULLY(c.state)
    PROVE  /\ ConnOK(d) /\ d.listed /\ d.state = c.state /\ d.rc = c.rc
           /\ \A n \in Nat : LiveOK(c, n) => LiveOK(d, n)
  <1>1. /\ d.listed = c.listed /\ d.state = c.state /\ d.rc = c.rc
        /\ d.xfer_closed = c.xfer_closed
        /\ d.tx_queue = c.tx_queue /\ d.tx_pos = c.tx_pos
        /\ d.rx_queue = c.rx_queue
        /\ d.snd_seq = c.snd_seq /\ d.snd_sent = c.snd_sent
        /\ d.pending_flags = c.pending_flags
        /\ d.pending_data = c.pending_data
    BY Zenon DEF Same, Fields, HarmlessFields
  <1>2. ConnOK(d)
    BY <1>1 DEF ConnOK, TxQueueOK, PendingBounded, RxAndReasonOK
  <1>3. ASSUME NEW n \in Nat, LiveOK(c, n) PROVE LiveOK(d, n)
    BY Zenon, <1>1, <1>3 DEF LiveOK
  <1>4. QED BY <1>1, <1>2, <1>3

(* The connection after tcp_open *)
Opened(c) == [c EXCEPT !.listed = TRUE, !.state = TCP_SYN_SENT,
                       !.snd_seq = ISS, !.timer = TRUE,
                       !.pending_flags = pending_get(@)]

(* tcp_open turns the fresh connection into one that is sending its SYN. *)
LEMMA OpenOK ==
    ASSUME NEW c, ConnOK(c), ~c.listed, c.rc = "none"
    PROVE  /\ ConnOK(Opened(c)) /\ Opened(c).listed
           /\ LiveOK(Opened(c), 0) /\ SettledOK(Opened(c))
  <1> DEFINE d == Opened(c)
             p == pending_get(c.pending_flags)
  <1>1. c \in Connection /\ TxQueueOK(c) /\ Quiet(c) /\ ~c.xfer_closed
    BY Zenon, ConnectionFields DEF ConnOK, RxAndReasonOK
  <1>2. p \in Nat /\ p = 1
    BY SMTT(30), <1>1 DEF Quiet, pending_get
  <1>3. TCP_SYN_SENT \in [sent : SUBSET Flags, acked : SUBSET Flags,
                          rcvd : SUBSET Flags]
    BY DEF TCP_SYN_SENT, State, Flags
  <1>4. d = [c EXCEPT !.listed = TRUE, !.state = TCP_SYN_SENT, !.snd_seq = ISS,
                      !.timer = TRUE, !.pending_flags = p]
    BY Zenon DEF Opened
  <1> HIDE DEF d, p
  <1>5. /\ d \in Connection /\ d.listed /\ d.state = TCP_SYN_SENT
        /\ d.snd_seq = ISS /\ d.pending_flags = p
        /\ Same(c, d, {"listed", "state", "snd_seq", "timer", "pending_flags"})
    BY Zenon, <1>1, <1>2, <1>3, <1>4, TcpConnAssumption
    DEF Connection, Same, Fields
  <1>6. /\ d.tx_queue = c.tx_queue /\ d.tx_pos = c.tx_pos
        /\ d.rx_queue = c.rx_queue /\ d.pending_data = c.pending_data
        /\ d.xfer_closed = c.xfer_closed /\ d.wait = c.wait
    BY <1>5 DEF Same, Fields
  <1>7. /\ TCP_SYN_SENT.sent = {"SYN"} /\ TCP_SYN_SENT.acked = {}
        /\ TCP_SYN_SENT.rcvd = {}
    BY DEF TCP_SYN_SENT, State
  <1>8. ConnOK(d)
    <2>1. TxQueueOK(d)
      BY Zenon, <1>1, <1>6 DEF TxQueueOK
    <2>2. PendingBounded(d)
      BY SMTT(30), <1>2, <1>5, <1>6, <1>7 DEF PendingBounded, ConnOK
    <2>3. RxAndReasonOK(d)
      BY SMTT(30), <1>1, <1>6 DEF RxAndReasonOK, Quiet
    <2>4. QED BY ZenonT(30), <1>5, <2>1, <2>2, <2>3 DEF ConnOK
  <1>9. LiveOK(d, 0) /\ SettledOK(d)
    <2>1. d.state.sent = {"SYN"} /\ d.state.acked = {} /\ d.state.rcvd = {}
      BY Zenon, <1>5, <1>7
    <2>2. ~d.xfer_closed /\ ~d.wait
      BY Zenon, <1>1, <1>6 DEF Quiet
    <2>3. d.snd_seq = ISS /\ d.pending_flags = 1
      BY Zenon, <1>2, <1>5
    <2>4. StateOK(d.state) /\ SettledOK(d)
      BY <2>1 DEF StateOK, SettledOK
    <2>5. d.pending_flags = One("SYN" \notin d.state.acked)
                            + One("FIN" \in d.state.sent \ d.state.acked)
      BY <2>1, <2>3 DEF One
    <2>6. ~(0 > 0)
      OBVIOUS
    <2>7. LiveOK(d, 0)
      <3>1. /\ "FIN" \notin d.state.sent /\ "FIN" \notin d.state.acked
            /\ "SYN" \notin d.state.rcvd
        BY <2>1
      <3>2. QED BY Zenon, <2>2, <2>3, <2>4, <2>5, <2>6, <3>1 DEF LiveOK
    <2>8. QED BY Zenon, <2>4, <2>7
  <1>10. QED BY Zenon, <1>5, <1>8, <1>9 DEF d

(* Taking the packet at the head off the receive queue. *)
LEMMA Taken ==
    ASSUME NEW c, ConnOK(c), c.listed, c.rx_queue # <<>>
    PROVE  LET d == [c EXCEPT !.rx_queue = Tail(@)]
           IN  /\ ConnOK(d) /\ d.listed /\ d.state = c.state /\ d.rc = c.rc
               /\ d.xfer_closed = c.xfer_closed
               /\ d.tx_queue = c.tx_queue /\ d.tx_pos = c.tx_pos
               /\ \A n \in Nat : LiveOK(c, n) => LiveOK(d, n)
               /\ Head(c.rx_queue) \in QueuedPacket
  <1> DEFINE rest == Tail(c.rx_queue)
             d    == [c EXCEPT !.rx_queue = rest]
  <1>1. c \in Connection /\ c.rx_queue \in Seq(QueuedPacket)
    BY ConnectionFields DEF ConnOK
  <1>2. rest \in Seq(QueuedPacket) /\ Head(c.rx_queue) \in QueuedPacket
    BY <1>1, HeadTailProperties
  <1> HIDE DEF rest
  <1>3. d \in Connection /\ Same(c, d, {"rx_queue"})
    BY Zenon, <1>1, <1>2 DEF Connection, Same, Fields
  <1> HIDE DEF d
  <1>4. /\ d.listed = c.listed /\ d.state = c.state /\ d.rc = c.rc
        /\ d.xfer_closed = c.xfer_closed
        /\ d.tx_queue = c.tx_queue /\ d.tx_pos = c.tx_pos
        /\ d.timer = c.timer /\ d.wait = c.wait
        /\ d.snd_seq = c.snd_seq /\ d.snd_sent = c.snd_sent
        /\ d.pending_flags = c.pending_flags
        /\ d.pending_data = c.pending_data
    BY Zenon, <1>3 DEF Same, Fields
  <1>5. ConnOK(d)
    <2>1. "SYN" \in c.state.rcvd
      BY Zenon DEF ConnOK, RxAndReasonOK
    <2>2. QED
      BY ZenonT(30), <1>3, <1>4, <2>1 DEF ConnOK, TxQueueOK, PendingBounded,
         RxAndReasonOK
  <1>6. ASSUME NEW n \in Nat, LiveOK(c, n) PROVE LiveOK(d, n)
    BY Zenon, <1>4, <1>6 DEF LiveOK
  <1>7. QED BY Zenon, <1>2, <1>4, <1>5, <1>6 DEF d, rest

-----------------------------------------------------------------------------
(* The three stages of tcp_rx before the receive queue: the ACK, the       *)
(* forced acknowledgement of an unexpected segment, and the SYN            *)
RxAcked(c, seg) ==
    IF "ACK" \in seg.flags THEN tcp_rx_ack(c, seg.ack, seg.win) ELSE c

RxForced(c, seg) ==
    [c EXCEPT !.ack_pending = @ \/ ("SYN" \in c.state.rcvd
                                    /\ seg.seq # c.rcv_ack)]

RxSynced(c, seg) ==
    IF "SYN" \in seg.flags
    THEN tcp_rx_syn(RxForced(RxAcked(c, seg), seg), seg)
    ELSE RxForced(RxAcked(c, seg), seg)

(* Forcing an acknowledgement is harmless. *)
LEMMA RxForcedOK ==
    ASSUME NEW c, ConnOK(c), c.listed, NEW seg
    PROVE  LET d == RxForced(c, seg)
           IN  /\ ConnOK(d) /\ d.listed /\ d.state = c.state
               /\ \A n \in Nat : LiveOK(c, n) => LiveOK(d, n)
  <1> DEFINE force == c.ack_pending \/ ("SYN" \in c.state.rcvd
                                        /\ seg.seq # c.rcv_ack)
             d == RxForced(c, seg)
  <1>1. c \in Connection
    BY DEF ConnOK
  <1>2. c.ack_pending \in BOOLEAN
    BY <1>1, ConnectionFields
  <1>3. force \in BOOLEAN
    BY <1>2
  <1>4. d = [c EXCEPT !.ack_pending = force]
    BY Zenon DEF RxForced
  <1> HIDE DEF force, d
  <1>5. d \in Connection /\ Same(c, d, {"ack_pending"})
    BY Zenon, <1>1, <1>3, <1>4 DEF Connection, Same, Fields
  <1>6. Same(c, d, HarmlessFields)
    BY Zenon, <1>5 DEF Same, HarmlessFields
  <1>7. QED BY Zenon, <1>5, <1>6, Harmless DEF d

(* What tcp_rx does to the connection before it looks at the receive queue *)
(* keeps it well formed and listed, and forgets nothing received.          *)
LEMMA RxSyncedOK ==
    ASSUME NEW c, ConnOK(c), c.listed, NEW seg \in Segments
    PROVE  LET d == RxSynced(c, seg)
           IN  /\ ConnOK(d) /\ d.listed
               /\ c.state.rcvd \subseteq d.state.rcvd
               /\ d.state.rcvd \subseteq c.state.rcvd \cup {"SYN"}
               /\ "SYN" \in seg.flags => "SYN" \in d.state.rcvd
               /\ "SYN" \notin seg.flags => d.state.rcvd = c.state.rcvd
               /\ d.state.acked = RxAcked(c, seg).state.acked
  <1> DEFINE a == RxAcked(c, seg)
             f == RxForced(a, seg)
             d == RxSynced(c, seg)
  <1>1. seg.ack \in SeqNo /\ seg.win \in Nat
    BY DEF Segments
  <1>2. ConnOK(a) /\ a.listed /\ a.state.rcvd = c.state.rcvd
    <2>1. CASE "ACK" \notin seg.flags
      BY <2>1 DEF RxAcked
    <2>2. CASE "ACK" \in seg.flags
      <3>1. a = tcp_rx_ack(c, seg.ack, seg.win)
        BY <2>2 DEF RxAcked
      <3> HIDE DEF a
      <3>2. ConnOK(a) /\ Same(c, a, AckFields) /\ a.state.rcvd = c.state.rcvd
        BY ZenonT(30), <1>1, <3>1, RxAckOK
      <3>3. a.listed = c.listed
        BY Zenon, <3>2 DEF Same, Fields, AckFields
      <3>4. QED BY <3>2, <3>3
    <2>3. QED BY ZenonT(30), <2>1, <2>2
  <1> HIDE DEF a
  <1>3. ConnOK(f) /\ f.listed /\ f.state = a.state
    BY <1>2, RxForcedOK
  <1> HIDE DEF f
  <1>4. CASE "SYN" \notin seg.flags
    <2>1. d = f
      BY <1>4 DEF RxSynced, f, a
    <2>2. QED BY ZenonT(30), <1>2, <1>3, <1>4, <2>1 DEF a
  <1>5. CASE "SYN" \in seg.flags
    <2>1. d = tcp_rx_syn(f, seg)
      BY Zenon, <1>5 DEF RxSynced, f, a
    <2> HIDE DEF d
    <2>2. /\ ConnOK(d) /\ d.listed
          /\ "SYN" \in d.state.rcvd /\ d.state.acked = f.state.acked
          /\ f.state.rcvd \subseteq d.state.rcvd
          /\ d.state.rcvd \subseteq f.state.rcvd \cup {"SYN"}
      BY <1>3, <2>1, RxSyn
    <2>3. QED BY ZenonT(30), <1>2, <1>3, <1>5, <2>2 DEF a, d
  <1>6. QED BY Zenon, <1>4, <1>5

(* They keep it live, if a SYN arrives only after ours has been sent, and  *)
(* settled, if the peer's SYN is among what has been received.             *)
LEMMA RxSyncedLive ==
    ASSUME NEW c, ConnOK(c), c.listed, NEW seg \in Segments,
           NEW n \in Nat, LiveOK(c, n), SettledOK(c),
           "SYN" \in seg.flags => n > 0
    PROVE  LET d == RxSynced(c, seg)
           IN  /\ LiveOK(d, n)
               /\ "SYN" \in d.state.rcvd => SettledOK(d)
               /\ "ACK" \in seg.flags /\ ~AckOutOfRange(c, seg.ack)
                  /\ Sub(seg.ack, c.snd_seq) > 0 => "SYN" \in d.state.acked
  <1> DEFINE a == RxAcked(c, seg)
             f == RxForced(a, seg)
             d == RxSynced(c, seg)
  <1>1. seg.ack \in SeqNo /\ seg.win \in Nat
    BY Zenon DEF Segments
  <1>2. /\ ConnOK(a) /\ a.listed /\ LiveOK(a, n)
        /\ c.state.acked \subseteq a.state.acked
        /\ "ACK" \in seg.flags /\ ~AckOutOfRange(c, seg.ack)
           /\ Sub(seg.ack, c.snd_seq) > 0 => "SYN" \in a.state.acked
    <2>1. CASE "ACK" \notin seg.flags
      <3>1. a = c
        BY Zenon, <2>1 DEF RxAcked
      <3> HIDE DEF a
      <3>2. QED BY Zenon, <2>1, <3>1
    <2>2. CASE "ACK" \in seg.flags
      <3>1. a = tcp_rx_ack(c, seg.ack, seg.win)
        BY Zenon, <2>2 DEF RxAcked
      <3> HIDE DEF a
      <3>2. ConnOK(a) /\ Same(c, a, AckFields)
        BY <1>1, <3>1, RxAckOK
      <3>3. a.listed = c.listed
        BY Zenon, <3>2 DEF Same, Fields, AckFields
      <3>4. /\ LiveOK(a, n) /\ c.state.acked \subseteq a.state.acked
            /\ ~AckOutOfRange(c, seg.ack) /\ Sub(seg.ack, c.snd_seq) > 0
                 => "SYN" \in a.state.acked
        BY ZenonT(30), <1>1, <3>1, RxAckLive
      <3>5. QED BY Zenon, <3>2, <3>3, <3>4
    <2>3. QED BY Zenon, <2>1, <2>2
  <1> HIDE DEF a
  <1>3. ConnOK(f) /\ f.listed /\ LiveOK(f, n)
    BY Zenon, <1>2, RxForcedOK
  <1> HIDE DEF f
  <1>4. LiveOK(d, n)
    <2>1. CASE "SYN" \notin seg.flags
      BY <1>3, <2>1 DEF RxSynced, f, a
    <2>2. CASE "SYN" \in seg.flags
      <3>1. d = tcp_rx_syn(f, seg)
        BY Zenon, <2>2 DEF RxSynced, f, a
      <3>2. QED BY ZenonT(30), <1>3, <2>2, <3>1, RxSyn
    <2>3. QED BY Zenon, <2>1, <2>2
  <1>5. /\ d.state.acked = a.state.acked
        /\ d.state.rcvd \subseteq c.state.rcvd \cup {"SYN"}
    BY ZenonT(40), RxSyncedOK DEF a
  <1> HIDE DEF d
  <1>6. "FIN" \in d.state.rcvd => "SYN" \in d.state.acked
    BY <1>2, <1>5 DEF SettledOK
  <1>7. QED BY ZenonT(30), <1>2, <1>4, <1>5, <1>6 DEF SettledOK, d

-----------------------------------------------------------------------------
(* d is as good a connection as c *)
Kept(c, d) ==
    /\ ConnOK(d) /\ d.listed /\ d.state = c.state /\ d.rc = c.rc
    /\ \A n \in Nat : LiveOK(c, n) => LiveOK(d, n)

(* The changes that the timer callbacks, the transmission process and the  *)
(* end of tcp_rx make before they transmit.                                *)
LEMMA SmallChanges ==
    ASSUME NEW c, ConnOK(c), c.listed
    PROVE  /\ \A b \in BOOLEAN : Kept(c, [c EXCEPT !.process = b])
           /\ Kept(c, [c EXCEPT !.ack_pending = TRUE])
           /\ Kept(c, [c EXCEPT !.wait = FALSE])
           /\ Kept(c, [c EXCEPT !.timer = FALSE, !.count = @ + 1])
           /\ Kept(c, [c EXCEPT !.wait = @ \/ TCP_CLOSED_GRACEFULLY(c.state)])
  <1>1. c \in Connection /\ c.count \in Nat /\ c.wait \in BOOLEAN
    BY ConnectionFields DEF ConnOK
  <1>2. ASSUME NEW b \in BOOLEAN PROVE Kept(c, [c EXCEPT !.process = b])
    <2> DEFINE d == [c EXCEPT !.process = b]
    <2>1. d \in Connection /\ Same(c, d, HarmlessFields)
      BY Zenon, <1>1 DEF Connection, Same, Fields, HarmlessFields
    <2> HIDE DEF d
    <2>2. Kept(c, d)
      BY <2>1, Harmless DEF Kept
    <2>3. QED BY <2>2 DEF d
  <1>3. Kept(c, [c EXCEPT !.ack_pending = TRUE])
    <2> DEFINE d == [c EXCEPT !.ack_pending = TRUE]
    <2>1. d \in Connection /\ Same(c, d, HarmlessFields)
      BY Zenon, <1>1 DEF Connection, Same, Fields, HarmlessFields
    <2> HIDE DEF d
    <2>2. Kept(c, d)
      BY <2>1, Harmless DEF Kept
    <2>3. QED BY <2>2 DEF d
  <1>4. Kept(c, [c EXCEPT !.wait = FALSE])
    <2> DEFINE d == [c EXCEPT !.wait = FALSE]
    <2>1. /\ d \in Connection /\ d.timer = c.timer /\ d.wait = FALSE
          /\ Same(c, d, HarmlessFields \cup {"timer", "wait"})
      BY Zenon, <1>1 DEF Connection, Same, Fields, HarmlessFields
    <2> HIDE DEF d
    <2>2. Kept(c, d)
      BY <2>1, Retimed DEF Kept
    <2>3. QED BY <2>2 DEF d
  <1>5. Kept(c, [c EXCEPT !.timer = FALSE, !.count = @ + 1])
    <2> DEFINE k == c.count + 1
               d == [c EXCEPT !.timer = FALSE, !.count = k]
    <2>1. k \in Nat
      BY <1>1
    <2> HIDE DEF k
    <2>2. /\ d \in Connection /\ d.timer = FALSE /\ d.wait = c.wait
          /\ Same(c, d, HarmlessFields \cup {"timer", "wait"})
      BY Zenon, <1>1, <2>1 DEF Connection, Same, Fields, HarmlessFields
    <2> HIDE DEF d
    <2>3. Kept(c, d)
      BY <2>2, Retimed DEF Kept
    <2>4. QED BY <2>3 DEF d, k
  <1>6. Kept(c, [c EXCEPT !.wait = @ \/ TCP_CLOSED_GRACEFULLY(c.state)])
    <2> DEFINE w == c.wait \/ TCP_CLOSED_GRACEFULLY(c.state)
               d == [c EXCEPT !.wait = w]
    <2>1. w \in BOOLEAN
      BY <1>1 DEF TCP_CLOSED_GRACEFULLY
    <2> HIDE DEF w
    <2>2. /\ d \in Connection /\ d.timer = c.timer /\ d.wait = w
          /\ Same(c, d, HarmlessFields \cup {"timer", "wait"})
      BY Zenon, <1>1, <2>1 DEF Connection, Same, Fields, HarmlessFields
    <2> HIDE DEF d
    <2>3. Kept(c, d)
      BY Zenon, <2>2, Retimed DEF Kept, w
    <2>4. QED BY <2>3, Zenon DEF d, w
  <1>7. QED BY ZenonT(30), <1>2, <1>3, <1>4, <1>5, <1>6

(* Aborting a listed connection deletes it and tells the application why.  *)
LEMMA AbortListed ==
    ASSUME NEW c, ConnOK(c), c.listed, NEW rc \in Reasons \ {"none"}
    PROVE  /\ ConnOK(Abort(c, rc)) /\ ~Abort(c, rc).listed
           /\ Abort(c, rc).rc # "none"
  <1>1. /\ c \in Connection /\ c.pending_data = Len(c.tx_queue)
        /\ c.xfer_closed => c.rc # "none"
    BY DEF ConnOK, PendingBounded, RxAndReasonOK
  <1>2. c.pending_flags <= 2
    <2>1. c.pending_flags \in Nat
      BY ZenonT(40), <1>1, ConnectionFields
    <2>2. \/ c.pending_flags <= 2 \/ c.pending_flags <= 1
      BY DEF ConnOK, PendingBounded
    <2>3. QED BY <2>1, <2>2
  <1>3. QED BY ZenonT(30), <1>1, <1>2, AbortOK

(* Bytes delivered from a packet extend the application's data. *)
LEMMA DeliveredType ==
    ASSUME NEW s \in Seq(Nat), NEW p \in Nat, NEW k \in Nat, NEW len \in Nat,
           k < len
    PROVE  s \o [i \in 1..(len - k) |-> p + k + (i - 1)] \in Seq(Nat)
  <1> DEFINE n == len - k
             t == [i \in 1..n |-> p + k + (i - 1)]
  <1>1. n \in Nat
    OBVIOUS
  <1> HIDE DEF n
  <1>2. t \in [1..n -> Nat]
    BY <1>1
  <1> HIDE DEF t
  <1>3. t \in Seq(Nat)
    BY <1>1, <1>2
  <1>4. s \o t \in Seq(Nat)
    BY <1>3, ConcatProperties
  <1>5. QED BY <1>4 DEF t, n

(* Deleting leaves the reason alone. *)
LEMMA DeletedRc ==
    ASSUME NEW c \in Connection
    PROVE  /\ Deleted(c).rc = c.rc /\ Deleted(c).xfer_closed = c.xfer_closed
           /\ Deleted(c).tx_pos = c.tx_pos
  <1> DEFINE data    == Maximum(0, c.pending_data - Len(c.tx_queue))
             flags   == pending_put(pending_put(c.pending_flags))
             drained == [c EXCEPT !.pending_data = data,
                                  !.pending_flags = flags,
                                  !.rx_queue = <<>>, !.tx_queue = <<>>]
             stopped == stop_timer(drained)
  <1>1. data \in Nat /\ flags \in Nat
    <2>1. c.pending_data \in Nat /\ Len(c.tx_queue) \in Nat
          /\ c.pending_flags \in Nat
      BY ConnectionFields, LenProperties
    <2>2. QED BY Zenon, <2>1, SmallTypes
  <1>2. Deleted(c) = [stopped EXCEPT
           !.state = TCP_CLOSED, !.process = FALSE,
           !.keepalive = FALSE, !.wait = FALSE, !.listed = FALSE]
    BY Zenon DEF Deleted
  <1> HIDE DEF data, flags
  <1>3. <<>> \in Seq(QueuedPacket) /\ <<>> \in Seq(Nat)
    OBVIOUS
  <1>4. /\ drained \in Connection /\ drained.rc = c.rc
        /\ drained.xfer_closed = c.xfer_closed /\ drained.tx_pos = c.tx_pos
    BY Zenon, <1>1, <1>3 DEF Connection
  <1> HIDE DEF drained
  <1>5. /\ stopped \in Connection
        /\ Same(drained, stopped, {"timer", "count"})
    BY Zenon, <1>4, StopTimer
  <1> HIDE DEF stopped
  <1>6. /\ stopped.rc = c.rc /\ stopped.xfer_closed = c.xfer_closed
        /\ stopped.tx_pos = c.tx_pos
    BY Zenon, <1>4, <1>5 DEF Same, Fields
  <1>7. QED BY <1>2, <1>5, <1>6 DEF Connection

(* The application hears the reason it is closed with, unless it has been  *)
(* closed before.                                                          *)
Reason(c, rc) == IF c.xfer_closed THEN c.rc ELSE rc

(* Aborting tells the application the reason, once.  *)
LEMMA AbortReason ==
    ASSUME NEW c, ConnOK(c), NEW rc \in Reasons \ {"none"}
    PROVE  /\ Abort(c, rc).rc = Reason(c, rc) /\ Abort(c, rc).xfer_closed
           /\ Abort(c, rc).tx_pos = c.tx_pos
  <1> DEFINE reset  == [c EXCEPT !.state = TCP_CLOSED]
             why    == Reason(reset, rc)
             closed == [reset EXCEPT !.xfer_closed = TRUE, !.rc = why]
  <1>1. TCP_CLOSED \in [sent : SUBSET Flags, acked : SUBSET Flags,
                        rcvd : SUBSET Flags]
        /\ TCP_CLOSED.rcvd = {}
    BY DEF TCP_CLOSED, State, Flags
  <1>2. /\ reset \in Connection /\ reset.state = TCP_CLOSED
        /\ reset.xfer_closed = c.xfer_closed /\ reset.rc = c.rc
        /\ reset.tx_pos = c.tx_pos
    BY Zenon, <1>1 DEF Connection, ConnOK
  <1>3. "SYN" \notin reset.state.rcvd
    BY <1>1, <1>2
  <1>4. Abort(c, rc) = Deleted(closed)
    BY <1>3, Zenon DEF Abort, tcp_close, Reason
  <1> HIDE DEF reset
  <1>5. why \in Reasons /\ why = Reason(c, rc)
    BY <1>2, ConnectionFields DEF Reason
  <1> HIDE DEF why
  <1>6. /\ closed \in Connection /\ closed.rc = why /\ closed.xfer_closed
        /\ closed.tx_pos = c.tx_pos
    BY Zenon, <1>2, <1>5 DEF Connection
  <1> HIDE DEF closed
  <1>7. QED BY Zenon, <1>4, <1>5, <1>6, DeletedRc

-----------------------------------------------------------------------------
(* The actions *)


Wire == [nxt : Nat, est : BOOLEAN, edge : Nat]

(* What a segment tells the network only grows. *)
LEMMA AdvertiseType ==
    ASSUME NEW w \in Wire, NEW c \in Connection
    PROVE  LET v == Advertise(w, c)
           IN  /\ v \in Wire /\ v.nxt >= w.nxt
               /\ v.est => w.est \/ "ACK" \in c.state.sent
  <1> DEFINE acking == "ACK" \in TCP_FLAGS_SENDING(c.state)
             left   == Sub(c.rcv_ack, PeerISS)
             whole  == c.rcv_win - (c.rcv_win % c.rcv_scale)
             nxt    == Maximum(w.nxt, Sub(c.snd_seq, ISS) + c.snd_sent)
             edge   == IF acking THEN Maximum(w.edge, left + whole)
                       ELSE w.edge
             v      == Advertise(w, c)
  <1>1. /\ c.rcv_ack \in Int /\ c.snd_seq \in Int /\ ISS \in Int
        /\ PeerISS \in Int /\ c.rcv_win \in Nat /\ c.snd_sent \in Nat
        /\ c.rcv_scale \in Nat \ {0}
    BY SMTT(30), ConnectionFields, TcpConnAssumption, TcpAssumption DEF SeqNo
  <1>2. left \in Nat
    <2>1. left \in SeqNo
      BY <1>1, SeqNoType
    <2>2. QED BY <2>1 DEF SeqNo
  <1>3. Sub(c.snd_seq, ISS) \in Nat
    <2>1. Sub(c.snd_seq, ISS) \in SeqNo
      BY <1>1, SeqNoType
    <2>2. QED BY <2>1 DEF SeqNo
  <1>4. \A a \in Nat, n \in Nat \ {0} : a % n \in 0..a
    OBVIOUS
  <1>5. whole \in Nat
    <2>1. c.rcv_win % c.rcv_scale \in 0..c.rcv_win
      BY <1>1, <1>4
    <2>2. QED BY <1>1, <2>1
  <1>6. w.nxt \in Nat /\ w.edge \in Nat /\ w.est \in BOOLEAN
    BY DEF Wire
  <1>7. nxt \in Nat /\ nxt >= w.nxt
    BY <1>1, <1>3, <1>6 DEF Maximum
  <1> HIDE DEF left, whole
  <1>8. edge \in Nat
    BY <1>2, <1>5, <1>6 DEF Maximum
  <1>9. v = [nxt |-> nxt, est |-> w.est \/ acking, edge |-> edge]
    BY Zenon DEF Advertise, left, whole
  <1>10. acking => "ACK" \in c.state.sent
    BY DEF TCP_FLAGS_SENDING
  <1> HIDE DEF nxt, edge, acking, v
  <1>11. /\ v \in Wire /\ v.nxt >= w.nxt
         /\ v.est => w.est \/ "ACK" \in c.state.sent
    BY ZenonT(30), <1>6, <1>7, <1>8, <1>9, <1>10 DEF Wire
  <1>12. QED BY Zenon, <1>11 DEF v

(* Everything the peer can send is a segment. *)
LEMMA PeerSegmentsType ==
    ASSUME peer_rcv \in Nat, wire \in Wire
    PROVE  PeerSegments \subseteq Segments
  <1>1. ASSUME NEW flags \in SUBSET Flags, NEW u \in Nat, NEW n \in Nat,
               NEW a \in Nat, NEW w \in Nat
        PROVE  Segment(flags, u, n, a, w) \in Segments
    <2>1. PeerISS \in Int /\ ISS \in Int /\ SackPermitted \in BOOLEAN
      BY TcpConnAssumption, TcpAssumption DEF SeqNo
    <2>2. Add(PeerISS, u) \in SeqNo
      BY <2>1, SeqNoType
    <2>3. Add(ISS, a) \in SeqNo
      BY <2>1, SeqNoType
    <2>4. QED BY <2>1, <2>2, <2>3 DEF Segment, Segments
  <1>2. /\ RxBytes \in Nat /\ PeerWindows \subseteq Nat /\ wire.edge \in Nat
    BY TcpAssumption DEF Wire
  <1>3. /\ {"SYN"} \in SUBSET Flags /\ {"SYN", "ACK"} \in SUBSET Flags
        /\ {"RST", "ACK"} \in SUBSET Flags
        /\ \A fin \in {{}, {"FIN"}} : {"ACK"} \cup fin \in SUBSET Flags
    BY DEF Flags
  <1>4. SynSegments \subseteq Segments
    BY SMTT(30), <1>1, <1>2, <1>3 DEF SynSegments
  <1>5. DataSegments \subseteq Segments
    <2>1. ASSUME NEW fin \in {{}, {"FIN"}}, NEW u \in 1..(RxBytes + 2),
                 NEW n \in 0..RxBytes, NEW a \in 1..peer_rcv,
                 NEW w \in PeerWindows
          PROVE  Segment({"ACK"} \cup fin, u, n, a, w) \in Segments
      BY <1>1, <1>2, <1>3
    <2>2. QED BY <2>1 DEF DataSegments
  <1>6. ResetSegments \subseteq Segments
    <2>1. ASSUME NEW a \in {1}
          PROVE  [Segment({"RST", "ACK"}, 0, 0, a, 0) EXCEPT !.seq = 0]
                   \in Segments
      <3>1. Segment({"RST", "ACK"}, 0, 0, a, 0) \in Segments
        BY <1>1, <1>3
      <3>2. 0 \in SeqNo
        BY SeqSpaceAssumption DEF SeqNo
      <3>3. QED BY <3>1, <3>2 DEF Segments
    <2>2. ASSUME NEW u \in 1..Minimum(wire.edge, RxBytes + 2),
                 NEW a \in 1..peer_rcv, NEW w \in PeerWindows
          PROVE  Segment({"RST", "ACK"}, u, 0, a, w) \in Segments
      <3>1. u \in Nat
        BY <1>2 DEF Minimum
      <3>2. QED BY SMTT(30), <1>1, <1>2, <1>3, <3>1
    <2>3. QED BY <2>1, <2>2 DEF ResetSegments
  <1>7. QED BY ZenonT(30), <1>4, <1>5, <1>6 DEF PeerSegments

-----------------------------------------------------------------------------
(* What a transmission does to the network. *)
LEMMA TransmittedWire ==
    ASSUME wire \in Wire, NEW x, x.c \in Connection, x.sent \in BOOLEAN,
           NEW seq, Transmitted(x, seq)
    PROVE  /\ wire' \in Wire
           /\ wire'.nxt = wire.nxt \/ (x.sent /\ wire'.nxt >= wire.nxt)
           /\ wire'.est => wire.est \/ "ACK" \in x.c.state.sent
  <1>1. CASE ~x.sent
    BY <1>1 DEF Transmitted
  <1>2. CASE x.sent
    <2>1. wire' = Advertise(wire, x.c)
      BY <1>2 DEF Transmitted
    <2>2. QED BY ZenonT(30), <1>2, <2>1, AdvertiseType
  <1>3. QED BY Zenon, <1>1, <1>2

Locals == [seq : SeqNo, old_win : Nat]

(* A step that ends in a transmission attempt x keeps the first invariant. *)
LEMMA QuietTransmit ==
    ASSUME QuietInv, NEW x, x.c \in Connection, x.sent \in BOOLEAN, NEW seq,
           Transmitted(x, seq), ConnOK(tcp'), pc' # "idle" => tcp'.listed,
           pc' \in {"idle", "queue", "notify"}, rx' \in Locals,
           delivered' \in Seq(Nat), UNCHANGED <<shutting, peer_rcv>>
    PROVE  QuietInv'
  <1>1. wire \in Wire
    BY DEF QuietInv, TypeOK, Wire
  <1>2. wire' \in Wire
    BY ZenonT(30), <1>1, TransmittedWire
  <1>3. tcp' \in Connection
    BY DEF ConnOK
  <1>4. shutting' \in BOOLEAN /\ peer_rcv' \in Nat
    BY DEF QuietInv, TypeOK
  <1>5. TypeOK'
    BY Zenon, <1>2, <1>3, <1>4 DEF TypeOK, Wire, Locals
  <1>6. QED BY <1>5 DEF QuietInv

(* A step that only changes the connection keeps the first invariant. *)
LEMMA QuietLocal ==
    ASSUME QuietInv, ConnOK(tcp'), pc = "idle", UNCHANGED pc,
           shutting' \in BOOLEAN,
           UNCHANGED <<rx, delivered, wire, peer_rcv>>
    PROVE  QuietInv'
  <1>1. tcp' \in Connection
    BY DEF ConnOK
  <1>2. TypeOK'
    BY <1>1 DEF QuietInv, TypeOK
  <1>3. QED BY <1>2 DEF QuietInv

(* The initial connection is well formed. *)
LEMMA QuietInit == Init => QuietInv
  <1> SUFFICES ASSUME Init PROVE QuietInv
    BY Zenon
  <1>1. /\ TCP_CLOSED \in [sent : SUBSET Flags, acked : SUBSET Flags,
                           rcvd : SUBSET Flags]
        /\ "none" \in Reasons /\ 0 \in SeqNo
        /\ \A S : <<>> \in Seq(S)
    BY SMTT(30), SeqSpaceAssumption DEF TCP_CLOSED, State, Flags, Reasons,
       SeqNo
  <1>2. Fresh \in Connection
    BY ZenonT(30), <1>1 DEF Fresh, Connection
  <1>3. /\ Fresh.state = TCP_CLOSED /\ ~Fresh.listed /\ ~Fresh.xfer_closed
        /\ Fresh.tx_queue = <<>> /\ Fresh.rx_queue = <<>>
        /\ Fresh.pending_data = 0 /\ Fresh.pending_flags = 0
        /\ ~Fresh.timer /\ ~Fresh.keepalive /\ ~Fresh.wait /\ ~Fresh.process
    BY ZenonT(30) DEF Fresh
  <1>4. ConnOK(Fresh)
    BY SMTT(30), <1>2, <1>3
    DEF ConnOK, TxQueueOK, Searchable, PendingBounded, RxAndReasonOK, Quiet
  <1>5. TypeOK
    BY Zenon, <1>1, <1>2 DEF TypeOK, Init, NoLocals
  <1>6. QED BY <1>4, <1>5 DEF QuietInv, Init

(* Every action keeps the first invariant. *)
LEMMA QuietNext == QuietInv /\ [Next]_vars => QuietInv'
  <1> SUFFICES ASSUME QuietInv, [Next]_vars PROVE QuietInv'
    BY Zenon
  <1>1. /\ ConnOK(tcp) /\ tcp \in Connection /\ TxQueueOK(tcp)
        /\ wire \in Wire /\ rx \in Locals /\ delivered \in Seq(Nat)
        /\ shutting \in BOOLEAN /\ peer_rcv \in Nat
        /\ pc \in {"idle", "queue", "notify"} /\ (pc # "idle" => tcp.listed)
    BY DEF QuietInv, TypeOK, Wire, Locals, ConnOK
  <1>2. {"app", "ok", "timeout", "reset", "cancel"} \subseteq Reasons \ {"none"}
    BY DEF Reasons
  <1>3. NoLocals \in Locals
    BY SeqSpaceAssumption DEF NoLocals, Locals, SeqNo
  <1>4. CASE tcp_open
    <2>1. ConnOK(Opened(tcp))
      BY ZenonT(30), <1>1, <1>4, OpenOK DEF tcp_open
    <2>2. tcp' = Opened(tcp)
      BY <1>4 DEF tcp_open, Opened
    <2>3. QED BY ZenonT(30), <1>1, <1>4, <2>1, <2>2, QuietLocal DEF tcp_open
  <1>5. ASSUME NEW env \in Environments, process_step(env) PROVE QuietInv'
    <2> DEFINE d == [tcp EXCEPT !.process = FALSE]
               x == tcp_xmit_sack(d, env)
    <2>1. ConnOK(d)
      BY Zenon, <1>1, <1>5, SmallChanges DEF process_step, Idle, Kept
    <2>2. /\ pc = "idle" /\ tcp' = x.c /\ Transmitted(x, x.c.rcv_ack)
          /\ UNCHANGED <<pc, rx, delivered, shutting, peer_rcv>>
      BY ZenonT(30), <1>5 DEF process_step, Transmit, Idle
    <2> HIDE DEF d
    <2>3. ConnOK(x.c) /\ x.sent \in BOOLEAN /\ x.c \in Connection
      BY ZenonT(30), <2>1, XmitSackOK, XmitKeeps DEF ConnOK
    <2> HIDE DEF x
    <2>4. QED BY ZenonT(30), <1>1, <2>2, <2>3, QuietTransmit
  <1>6. ASSUME NEW env \in Environments, NEW over \in BOOLEAN,
               tcp_expired(over, env)
        PROVE  QuietInv'
    <2> DEFINE d == [tcp EXCEPT !.timer = FALSE, !.count = @ + 1]
               x == IF over THEN Result(Abort(d, "timeout"), FALSE, FALSE)
                    ELSE tcp_xmit_sack(d, env)
    <2>1. ConnOK(d) /\ d.listed
      BY Zenon, <1>1, <1>6, SmallChanges DEF tcp_expired, Idle, Kept
    <2>2. /\ pc = "idle" /\ tcp' = x.c /\ Transmitted(x, x.c.rcv_ack)
          /\ UNCHANGED <<pc, rx, delivered, shutting, peer_rcv>>
      BY Zenon, <1>6 DEF tcp_expired, Transmit, Idle
    <2> HIDE DEF d
    <2>3. ConnOK(x.c) /\ x.sent \in BOOLEAN
      <3>1. CASE over
        <4>1. ConnOK(Abort(d, "timeout"))
          BY <1>2, <2>1, AbortListed
        <4>2. QED BY <3>1, <4>1 DEF Result
      <3>2. CASE ~over
        <4>1. ConnOK(tcp_xmit_sack(d, env).c)
          BY ZenonT(30), <2>1, XmitSackOK
        <4>2. tcp_xmit_sack(d, env).sent \in BOOLEAN
          BY Zenon, <2>1, XmitKeeps DEF ConnOK
        <4>3. QED BY ZenonT(30), <3>2, <4>1, <4>2
      <3>3. QED BY Zenon, <3>1, <3>2
    <2> HIDE DEF x
    <2>4. x.c \in Connection
      BY <2>3 DEF ConnOK
    <2>5. QED BY ZenonT(30), <1>1, <2>2, <2>3, <2>4, QuietTransmit
  <1>7. ASSUME NEW env \in Environments, tcp_keepalive_expired(env)
        PROVE  QuietInv'
    <2> DEFINE d == [tcp EXCEPT !.ack_pending = TRUE]
               x == tcp_xmit_sack(d, env)
    <2>1. ConnOK(d)
      BY Zenon, <1>1, <1>7, SmallChanges DEF tcp_keepalive_expired, Idle, Kept
    <2>2. /\ pc = "idle" /\ tcp' = x.c /\ Transmitted(x, x.c.rcv_ack)
          /\ UNCHANGED <<pc, rx, delivered, shutting, peer_rcv>>
      BY ZenonT(30), <1>7 DEF tcp_keepalive_expired, Transmit, Idle
    <2> HIDE DEF d
    <2>3. ConnOK(x.c) /\ x.sent \in BOOLEAN /\ x.c \in Connection
      BY ZenonT(30), <2>1, XmitSackOK, XmitKeeps DEF ConnOK
    <2> HIDE DEF x
    <2>4. QED BY ZenonT(30), <1>1, <2>2, <2>3, QuietTransmit
  <1>8. ASSUME NEW env \in Environments, tcp_rx_finish(env) PROVE QuietInv'
    <2> DEFINE s == [tcp EXCEPT !.process = TRUE]
               x == IF tcp.rx_queue = <<>> THEN Result(s, FALSE, FALSE)
                    ELSE tcp_xmit_sack(tcp, env)
               c == [x.c EXCEPT !.wait = @ \/ TCP_CLOSED_GRACEFULLY(x.c.state)]
    <2>1. /\ pc = "queue" /\ tcp' = c /\ Transmitted(x, rx.seq)
          /\ pc' \in {"idle", "notify"} /\ rx' = NoLocals
          /\ UNCHANGED <<delivered, shutting, peer_rcv>>
      BY Zenon, <1>8 DEF tcp_rx_finish
    <2>2. ConnOK(x.c) /\ x.c.listed /\ x.sent \in BOOLEAN
      <3>1. tcp.listed
        BY <1>1, <2>1
      <3>2. ConnOK(s) /\ s.listed
        BY ZenonT(30), <1>1, <3>1, SmallChanges DEF Kept
      <3> HIDE DEF s
      <3>3. CASE tcp.rx_queue = <<>>
        BY <3>2, <3>3 DEF Result
      <3>4. CASE tcp.rx_queue # <<>>
        <4>1. ConnOK(tcp_xmit_sack(tcp, env).c)
          BY ZenonT(40), <1>1, XmitSackOK
        <4>2. /\ tcp_xmit_sack(tcp, env).sent \in BOOLEAN
              /\ tcp_xmit_sack(tcp, env).c.listed = tcp.listed
          BY <1>1, XmitKeeps
        <4>3. QED BY ZenonT(30), <3>1, <3>4, <4>1, <4>2
      <3>5. QED BY Zenon, <3>3, <3>4
    <2> HIDE DEF x
    <2>3. ConnOK(c) /\ c.listed
      BY Zenon, <2>2, SmallChanges DEF Kept
    <2> HIDE DEF c
    <2>4. x.c \in Connection
      BY <2>2 DEF ConnOK
    <2>5. QED BY ZenonT(30), <1>1, <1>3, <2>1, <2>2, <2>3, <2>4, QuietTransmit

  <1>9. ASSUME NEW env \in Environments, NEW r \in Reactions(tcp),
               app_step(r, env)
        PROVE  QuietInv'
    <2> DEFINE x == React(tcp, r, env)
    <2>1. /\ pc = "idle" /\ tcp.listed /\ tcp' = x.c
          /\ Transmitted(x, x.c.rcv_ack)
          /\ UNCHANGED <<pc, rx, delivered, shutting, peer_rcv>>
      BY ZenonT(30), <1>9 DEF app_step, Transmit, Idle
    <2>2. ConnOK(x.c) /\ x.sent \in BOOLEAN
      BY ZenonT(30), <1>1, <2>1, ReactOK
    <2> HIDE DEF x
    <2>3. x.c \in Connection
      BY ZenonT(30), <2>2 DEF ConnOK
    <2>4. QED BY ZenonT(30), <1>1, <2>1, <2>2, <2>3, QuietTransmit
  <1>10. ASSUME NEW env \in Environments, NEW r \in Reactions(tcp),
                tcp_process_rx_queue(r, env)
         PROVE  QuietInv'
    <2> DEFINE q     == Head(tcp.rx_queue)
               taken == [tcp EXCEPT !.rx_queue = Tail(@)]
               skip  == AlreadyRcvd(tcp, q)
               fresh == ~tcp.xfer_closed /\ skip < q.len
               data  == tcp_rx_data(taken, q)
               x     == React(data, r, env)
               c     == IF q.fin THEN tcp_rx_fin(x.c, Add(q.seq, q.len))
                        ELSE x.c
    <2>1. /\ pc = "queue" /\ tcp' = c /\ Transmitted(x, x.c.rcv_ack)
          /\ tcp.rx_queue # <<>>
          /\ delivered' = IF fresh
                          THEN delivered \o [i \in 1..(q.len - skip) |->
                                               q.pos + skip + (i - 1)]
                          ELSE delivered
          /\ UNCHANGED <<pc, rx, shutting, peer_rcv>>
      BY ZenonT(30), <1>10 DEF tcp_process_rx_queue, Applicable
    <2>2. /\ ConnOK(taken) /\ taken.listed /\ taken.state = tcp.state
          /\ taken.xfer_closed = tcp.xfer_closed
          /\ taken.tx_queue = tcp.tx_queue /\ taken.tx_pos = tcp.tx_pos
          /\ q \in QueuedPacket
      BY ZenonT(30), <1>1, <2>1, Taken
    <2>3. "SYN" \in tcp.state.rcvd
      BY ZenonT(30), <1>1, <2>1 DEF ConnOK, RxAndReasonOK
    <2>4. delivered' \in Seq(Nat)
      <3>1. q.pos \in Nat /\ q.len \in Nat /\ q.seq \in Int /\ tcp.rcv_ack \in Int
        <4>1. q.pos \in Nat /\ q.len \in Nat /\ q.seq \in SeqNo
          BY ZenonT(30), <2>2 DEF QueuedPacket
        <4>2. tcp.rcv_ack \in SeqNo
          BY ZenonT(30), <1>1, ConnectionFields
        <4>3. QED BY ZenonT(30), <4>1, <4>2, SeqNoInt
      <3>2. skip \in SeqNo
        BY <3>1, SeqNoType DEF AlreadyRcvd
      <3>3. skip \in Nat
        BY <3>2 DEF SeqNo
      <3> HIDE DEF skip, q
      <3>4. CASE fresh
        BY Zenon, <1>1, <2>1, <3>1, <3>3, <3>4, DeliveredType
      <3>5. CASE ~fresh
        BY ZenonT(30), <1>1, <2>1, <3>5
      <3>6. QED BY <3>4, <3>5
    <2> HIDE DEF q, taken, skip, fresh
    <2>5. /\ ConnOK(data) /\ data.listed /\ data.state = taken.state
          /\ data.xfer_closed = taken.xfer_closed
          /\ data.tx_queue = taken.tx_queue /\ data.tx_pos = taken.tx_pos
      BY ZenonT(30), <2>2, RxData
    <2> HIDE DEF data
    <2>6. r \in Reactions(data)
      BY ZenonT(30), <2>2, <2>5 DEF Reactions, TxEnd, TxLen
    <2>7. /\ ConnOK(x.c) /\ x.sent \in BOOLEAN
          /\ x.c.listed /\ x.c.state.rcvd = tcp.state.rcvd
      <3>1. "SYN" \in data.state.rcvd /\ data.state.rcvd = tcp.state.rcvd
        BY Zenon, <2>2, <2>3, <2>5
      <3>2. QED BY ZenonT(40), <2>5, <2>6, <3>1, ReactOK
    <2> HIDE DEF x
    <2>8. ConnOK(c) /\ c.listed
      <3>1. ConnOK(tcp_rx_fin(x.c, Add(q.seq, q.len)))
            /\ tcp_rx_fin(x.c, Add(q.seq, q.len)).listed
        BY ZenonT(30), <2>3, <2>7, RxFin
      <3>2. QED BY ZenonT(30), <2>7, <3>1
    <2> HIDE DEF c
    <2>9. x.c \in Connection
      BY <2>7 DEF ConnOK
    <2>10. QED BY ZenonT(30), <1>1, <2>1, <2>4, <2>7, <2>8, <2>9, QuietTransmit
  <1>11. ASSUME NEW env \in Environments, NEW r \in Reactions(tcp),
                xfer_window_changed(r, env)
         PROVE  QuietInv'
    <2> DEFINE x == React(tcp, r, env)
    <2>1. /\ pc = "notify" /\ pc' = "idle" /\ tcp' = x.c
          /\ Transmitted(x, x.c.rcv_ack)
          /\ UNCHANGED <<rx, delivered, shutting, peer_rcv>>
      BY ZenonT(30), <1>11 DEF xfer_window_changed, Transmit
    <2>2. ConnOK(x.c) /\ x.sent \in BOOLEAN
      BY ZenonT(30), <1>1, <2>1, ReactOK
    <2> HIDE DEF x
    <2>3. x.c \in Connection
      BY <2>2 DEF ConnOK
    <2>4. QED BY ZenonT(30), <1>1, <2>1, <2>2, <2>3, QuietTransmit
  <1>12. CASE tcp_wait_expired
    <2> DEFINE d == [tcp EXCEPT !.wait = FALSE]
    <2>1. ConnOK(d) /\ d.listed
      BY Zenon, <1>1, <1>12, SmallChanges DEF tcp_wait_expired, Idle, Kept
    <2>2. /\ tcp' = Abort(d, "ok") /\ pc = "idle"
          /\ UNCHANGED <<pc, rx, delivered, shutting, wire, peer_rcv>>
      BY <1>12 DEF tcp_wait_expired, Idle
    <2> HIDE DEF d
    <2>3. ConnOK(Abort(d, "ok"))
      BY ZenonT(30), <1>2, <2>1, AbortListed
    <2>4. QED BY ZenonT(30), <1>1, <2>2, <2>3, QuietLocal
  <1>13. CASE tcp_shutdown
    <2>1. ConnOK(tcp_close(tcp, "cancel"))
      BY ZenonT(30), <1>1, <1>2, <1>13, CloseOK DEF tcp_shutdown, Idle
    <2>2. tcp' = tcp \/ tcp' = tcp_close(tcp, "cancel")
      BY <1>13 DEF tcp_shutdown
    <2>3. /\ pc = "idle" /\ shutting' = TRUE
          /\ UNCHANGED <<pc, rx, delivered, wire, peer_rcv>>
      BY <1>13 DEF tcp_shutdown, Idle
    <2>4. QED BY ZenonT(30), <1>1, <2>1, <2>2, <2>3, QuietLocal
  <1>14. CASE tcp_shutdown_finish
    <2>1. /\ tcp.listed /\ tcp' = Abort(tcp, "cancel") /\ pc = "idle"
          /\ UNCHANGED <<pc, rx, delivered, shutting, wire, peer_rcv>>
      BY <1>14 DEF tcp_shutdown_finish, Idle
    <2>2. ConnOK(Abort(tcp, "cancel"))
      BY ZenonT(30), <1>1, <1>2, <2>1, AbortListed
    <2>3. QED BY ZenonT(30), <1>1, <2>1, <2>2, QuietLocal
  <1>15. ASSUME NEW seg \in PeerSegments, tcp_rx(seg) PROVE QuietInv'
    <2> DEFINE synced == RxSynced(tcp, seg)
               seq    == IF "SYN" \in seg.flags THEN Add(seg.seq, 1)
                         ELSE seg.seq
    <2>1. seg \in Segments
      BY ZenonT(30), <1>1, PeerSegmentsType
    <2>2. /\ pc = "idle" /\ tcp.listed
          /\ \/ tcp' = Abort(synced, "reset") /\ UNCHANGED <<pc, rx>>
             \/ /\ tcp' = tcp_rx_enqueue(synced, seq, seg)
                /\ pc' = "queue"
                /\ rx' = [seq |-> seq, old_win |-> tcp_xfer_window(tcp)]
          /\ UNCHANGED <<delivered, shutting, wire, peer_rcv>>
      BY <1>15 DEF tcp_rx, Idle, RxSynced, RxForced, RxAcked
    <2>3. seq \in SeqNo
      <3>1. seg.seq \in SeqNo /\ seg.seq \in Int
        BY <2>1 DEF Segments, SeqNo
      <3>2. Add(seg.seq, 1) \in SeqNo
        BY SMTT(30), <3>1, SeqNoType
      <3>3. QED BY <3>1, <3>2
    <2> HIDE DEF seq
    <2>4. ConnOK(synced) /\ synced.listed
      <3>1. ConnOK(tcp) /\ tcp.listed
        BY ZenonT(30), <1>1, <1>2, <2>2
      <3>2. QED BY Zenon, <2>1, <3>1, RxSyncedOK
    <2> HIDE DEF synced
    <2>5. ConnOK(Abort(synced, "reset"))
      BY ZenonT(30), <1>2, <2>4, AbortListed
    <2>6. /\ ConnOK(tcp_rx_enqueue(synced, seq, seg))
          /\ tcp_rx_enqueue(synced, seq, seg).listed
      BY ZenonT(30), <2>1, <2>3, <2>4, RxEnqueue
    <2>7. tcp_xfer_window(tcp) \in Nat
      BY ZenonT(30), <1>1, XmitLengths DEF tcp_xfer_window
    <2>8. /\ ConnOK(tcp') /\ (pc' # "idle" => tcp'.listed)
          /\ pc' \in {"idle", "queue"} /\ rx' \in Locals
      BY SMTT(30), <1>1, <2>2, <2>3, <2>5, <2>6, <2>7 DEF Locals
    <2>9. tcp' \in Connection
      BY ZenonT(30), <2>8 DEF ConnOK
    <2>10. TypeOK'
      BY ZenonT(30), <1>1, <2>2, <2>8, <2>9 DEF TypeOK, Wire, Locals
    <2>11. QED BY Zenon, <2>8, <2>10 DEF QuietInv
  <1>16. CASE peer_receive
    <2>1. peer_rcv' \in Nat
      BY SMTT(30), <1>1, <1>16 DEF peer_receive, Wire
    <2>2. QED BY ZenonT(30), <1>16, <2>1 DEF peer_receive, QuietInv, TypeOK
  <1>17. CASE UNCHANGED vars
    BY <1>17 DEF vars, QuietInv, TypeOK
  <1>18. QED
    BY ZenonT(30), <1>4, <1>5, <1>6, <1>7, <1>8, <1>9, <1>10, <1>11, <1>12,
       <1>13, <1>14,
       <1>15, <1>16, <1>17 DEF Next

(* Every variable always has its type, whatever the peer and the network   *)
(* do: no counter goes below zero and no sequence number leaves its space. *)
THEOREM TypeCorrect == Spec => []TypeOK
  <1>1. Init => QuietInv
    BY QuietInit
  <1>2. QuietInv /\ [Next]_vars => QuietInv'
    BY QuietNext
  <1>3. QuietInv => TypeOK
    BY DEF QuietInv
  <1>4. QED BY <1>1, <1>2, <1>3, PTL DEF Spec

(* A connection that tcp_close has removed from the list never has a       *)
(* timer, a process, a queued packet or a pending operation left.          *)
THEOREM DeletedStaysQuiet == Spec => []DeletedIsQuiet
  <1>1. Init => QuietInv
    BY QuietInit
  <1>2. QuietInv /\ [Next]_vars => QuietInv'
    BY ZenonT(30), QuietNext
  <1>3. QuietInv => DeletedIsQuiet
    BY Zenon DEF QuietInv, ConnOK, Quiet, DeletedIsQuiet
  <1>4. QED BY <1>1, <1>2, <1>3, PTL DEF Spec

(* The initial state satisfies the second invariant. *)
LEMMA StateInit == Init => StateInv
  <1> SUFFICES ASSUME Init PROVE StateInv
    OBVIOUS
  <1>1. QuietInv
    BY Zenon, QuietInit
  <1>2. ~tcp.listed /\ wire.nxt = 0 /\ ~wire.est /\ peer_rcv = 0
    BY DEF Init, Fresh
  <1>3. QED BY <1>1, <1>2 DEF StateInv

(* A step that ends in a transmission attempt x keeps the second invariant *)
(* if the connection it leaves is live and settled.                        *)
LEMMA StateTransmit ==
    ASSUME StateInv, QuietInv', NEW x, x.c \in Connection, x.sent \in BOOLEAN,
           NEW seq, Transmitted(x, seq), UNCHANGED peer_rcv, tcp.listed,
           tcp'.rc = "none" => tcp'.listed,
           tcp'.listed => LiveOK(tcp', wire'.nxt) /\ SettledOK(tcp'),
           tcp'.listed /\ "SYN" \in tcp.state.rcvd => "SYN" \in tcp'.state.rcvd,
           tcp'.listed /\ "ACK" \in x.c.state.sent => "SYN" \in tcp'.state.rcvd
    PROVE  StateInv'
  <1>1. wire \in Wire /\ wire.nxt \in Nat /\ peer_rcv \in Nat
        /\ peer_rcv <= wire.nxt
        /\ (wire.est => "SYN" \in tcp.state.rcvd)
    BY ZenonT(40) DEF StateInv, QuietInv, TypeOK, Wire
  <1>2. /\ wire' \in Wire
        /\ wire'.nxt = wire.nxt \/ (x.sent /\ wire'.nxt >= wire.nxt)
        /\ wire'.est => wire.est \/ "ACK" \in x.c.state.sent
    BY ZenonT(40), <1>1, TransmittedWire
  <1>3. peer_rcv' <= wire'.nxt
    <2>1. wire'.nxt \in Nat
      BY ZenonT(40), <1>2 DEF Wire
    <2>2. QED BY SMTT(30), <1>1, <1>2, <2>1
  <1>4. wire'.est /\ tcp'.listed => "SYN" \in tcp'.state.rcvd
    BY Zenon, <1>1, <1>2
  <1>5. QED BY ZenonT(40), <1>3, <1>4 DEF StateInv

(* A step that deletes the connection, or changes it without telling the   *)
(* network, keeps the second invariant.                                    *)
LEMMA StateLocal ==
    ASSUME StateInv, QuietInv', UNCHANGED <<wire, peer_rcv>>, tcp.listed,
           tcp'.rc = "none" => tcp'.listed,
           tcp'.listed => /\ LiveOK(tcp', wire.nxt) /\ SettledOK(tcp')
                          /\ tcp.state.rcvd \subseteq tcp'.state.rcvd
    PROVE  StateInv'
  BY DEF StateInv

(* A transmission attempt from a live and settled connection. *)
LEMMA XmitStep ==
    ASSUME StateInv, QuietInv', tcp.listed, NEW d, ConnOK(d), d.listed,
           d.state = tcp.state, LiveOK(d, wire.nxt), SettledOK(tcp),
           NEW env \in Environments, Transmit(tcp_xmit_sack(d, env)),
           UNCHANGED peer_rcv
    PROVE  StateInv'
  <1> DEFINE x == tcp_xmit_sack(d, env)
  <1>1. d \in Connection /\ TxQueueOK(d)
    BY Zenon DEF ConnOK
  <1>2. /\ x.sent \in BOOLEAN /\ x.c.listed = d.listed /\ x.c.state = d.state
    BY Zenon, <1>1, XmitKeeps
  <1>3. ConnOK(x.c)
    BY XmitSackOK
  <1>4. x.c \in Connection
    BY Zenon, <1>3 DEF ConnOK
  <1>5. tcp' = x.c /\ Transmitted(x, x.c.rcv_ack)
    BY ZenonT(40) DEF Transmit
  <1>6. wire \in Wire /\ wire.nxt \in Nat
    BY DEF StateInv, QuietInv, TypeOK, Wire
  <1>7. /\ wire' \in Wire
        /\ wire'.nxt = wire.nxt \/ (x.sent /\ wire'.nxt >= wire.nxt)
    <2> HIDE DEF x
    <2>1. QED BY ZenonT(30), <1>2, <1>4, <1>5, <1>6, TransmittedWire
  <1>8. wire'.nxt \in Nat
    BY <1>7 DEF Wire
  <1>9. LiveOK(x.c, wire'.nxt)
    BY ZenonT(30), <1>6, <1>7, <1>8, XmitSackLive
  <1> HIDE DEF x
  <1>10. SettledOK(x.c)
    BY ZenonT(30), <1>2 DEF SettledOK
  <1>11. "ACK" \in x.c.state.sent => "SYN" \in x.c.state.rcvd
    BY Zenon, <1>9 DEF LiveOK, StateOK
  <1>12. QED
    BY ZenonT(40), <1>2, <1>4, <1>5, <1>9, <1>10, <1>11, StateTransmit

(* The application's reaction to a call, or a step of its own. *)
LEMMA ReactStep ==
    ASSUME StateInv, QuietInv', tcp.listed, NEW env \in Environments,
           NEW r \in Reactions(tcp), Transmit(React(tcp, r, env)),
           UNCHANGED peer_rcv
    PROVE  StateInv'
  <1> DEFINE x == React(tcp, r, env)
  <1>1. /\ ConnOK(tcp) /\ wire \in Wire /\ wire.nxt \in Nat
        /\ LiveOK(tcp, wire.nxt) /\ SettledOK(tcp)
    BY Zenon DEF StateInv, QuietInv, TypeOK, Wire
  <1>2. /\ ConnOK(x.c) /\ x.sent \in BOOLEAN
        /\ x.c.rc = "none" => x.c.listed
        /\ "SYN" \in tcp.state.rcvd =>
              x.c.listed /\ x.c.state.rcvd = tcp.state.rcvd
    BY Zenon, <1>1, ReactOK
  <1>3. tcp' = x.c /\ Transmitted(x, x.c.rcv_ack)
    BY DEF Transmit
  <1>4. x.c \in Connection
    BY Zenon, <1>2 DEF ConnOK
  <1>5. /\ wire' \in Wire
        /\ wire'.nxt = wire.nxt \/ (x.sent /\ wire'.nxt >= wire.nxt)
    <2> HIDE DEF x
    <2>1. QED BY ZenonT(30), <1>1, <1>2, <1>3, <1>4, TransmittedWire
  <1>6. wire'.nxt \in Nat
    BY <1>5 DEF Wire
  <1>7. x.c.listed => LiveOK(x.c, wire'.nxt) /\ SettledOK(x.c)
    BY ZenonT(30), <1>1, <1>5, <1>6, ReactLive
  <1> HIDE DEF x
  <1>8. x.c.listed /\ "ACK" \in x.c.state.sent => "SYN" \in x.c.state.rcvd
    BY Zenon, <1>7 DEF LiveOK, StateOK
  <1>9. QED BY ZenonT(30), <1>2, <1>3, <1>4, <1>7, <1>8, StateTransmit

(* The segments a peer sends, in terms of what it and the network know. *)
LEMMA PeerSegmentKinds ==
    ASSUME PeerSyn # "early", wire \in Wire, peer_rcv \in Nat,
           peer_rcv <= wire.nxt, NEW seg \in PeerSegments
    PROVE  \/ "SYN" \in seg.flags /\ wire.nxt > 0
           \/ "SYN" \notin seg.flags /\ wire.est
           \/ /\ seg.flags = {"RST", "ACK"} /\ seg.ack = Add(ISS, 1)
              /\ "SYN" \notin tcp.state.rcvd
  <1>1. wire.nxt \in Nat
    BY Zenon DEF Wire
  <1>2. CASE seg \in SynSegments
    <2>1. CASE \E a \in {1} \cap 1..peer_rcv, w \in PeerWindows :
                  seg = Segment({"SYN", "ACK"}, 0, 0, a, w)
      <3>1. PICK a \in {1} \cap 1..peer_rcv, w \in PeerWindows :
                    seg = Segment({"SYN", "ACK"}, 0, 0, a, w)
        BY ZenonT(30), <2>1
      <3>2. "SYN" \in seg.flags
        BY ZenonT(30), <3>1 DEF Segment
      <3>3. 1 \in 1..peer_rcv
        BY ZenonT(30), <3>1
      <3>4. wire.nxt > 0
        BY SMTT(30), <1>1, <3>3
      <3>5. QED BY ZenonT(30), <3>2, <3>4
    <2>2. CASE /\ PeerSyn = "crossing" /\ wire.nxt > 0
               /\ \E w \in PeerWindows : seg = Segment({"SYN"}, 0, 0, 0, w)
      <3>1. PICK w \in PeerWindows : seg = Segment({"SYN"}, 0, 0, 0, w)
        BY ZenonT(30), <2>2
      <3>2. seg.flags = {"SYN"}
        BY ZenonT(30), <3>1 DEF Segment
      <3>3. "SYN" \in {"SYN"}
        OBVIOUS
      <3>4. QED BY <2>2, <3>2, <3>3
    <2>3. \/ \E a \in {1} \cap 1..peer_rcv, w \in PeerWindows :
                seg = Segment({"SYN", "ACK"}, 0, 0, a, w)
          \/ \E w \in IF PeerSyn = "early" \/ (PeerSyn = "crossing" /\ wire.nxt > 0)
                    THEN PeerWindows ELSE {} : seg = Segment({"SYN"}, 0, 0, 0, w)
      BY SMTT(30), <1>2 DEF SynSegments
    <2>4. QED BY ZenonT(30), <2>1, <2>2, <2>3
  <1>3. CASE seg \in DataSegments
    <2>1. wire.est
      BY <1>3 DEF DataSegments
    <2>2. PICK fin \in {{}, {"FIN"}}, u \in 1..(RxBytes + 2), n \in 0..RxBytes,
               a \in 1..peer_rcv, w \in PeerWindows :
                 seg = Segment({"ACK"} \cup fin, u, n, a, w)
      BY <1>3 DEF DataSegments
    <2>3. seg.flags = {"ACK"} \cup fin
      BY SMTT(30), <2>2 DEF Segment
    <2>4. QED BY Zenon, <2>1, <2>3
  <1>4. CASE seg \in ResetSegments
    <2>1. CASE /\ "SYN" \notin tcp.state.rcvd
               /\ \E a \in {1} : seg = [Segment({"RST", "ACK"}, 0, 0, a, 0)
                                          EXCEPT !.seq = 0]
      BY ZenonT(40), <2>1 DEF Segment
    <2>2. CASE /\ wire.est
               /\ \E u \in 1..Minimum(wire.edge, RxBytes + 2),
                     a \in 1..peer_rcv, w \in PeerWindows :
                       seg = Segment({"RST", "ACK"}, u, 0, a, w)
      BY SMTT(30), <2>2 DEF Segment
    <2>3. QED BY <1>4, <2>1, <2>2 DEF ResetSegments
  <1>5. QED BY <1>2, <1>3, <1>4 DEF PeerSegments

(* Every action keeps the second invariant, if no peer sends a SYN before  *)
(* it can know of the connection.                                          *)
LEMMA StateNext ==
    ASSUME PeerSyn # "early", StateInv, [Next]_vars
    PROVE  StateInv'
  <1>1. /\ ConnOK(tcp) /\ tcp \in Connection /\ TxQueueOK(tcp)
        /\ wire \in Wire /\ wire.nxt \in Nat /\ peer_rcv \in Nat
        /\ (pc # "idle" => tcp.listed) /\ QuietInv /\ peer_rcv <= wire.nxt
        /\ (tcp.listed => LiveOK(tcp, wire.nxt) /\ SettledOK(tcp))
        /\ (wire.est /\ tcp.listed => "SYN" \in tcp.state.rcvd)
    BY Zenon DEF StateInv, QuietInv, TypeOK, Wire, ConnOK
  <1>2. QuietInv'
    BY <1>1, QuietNext
  <1>3. {"app", "ok", "timeout", "reset", "cancel"} \subseteq Reasons \ {"none"}
    BY DEF Reasons
  <1>4. CASE tcp_open
    <2>1. /\ ~tcp.listed /\ tcp.rc = "none" /\ tcp' = Opened(tcp)
          /\ UNCHANGED <<wire, peer_rcv>>
      BY <1>4 DEF tcp_open, Opened
    <2>2. Opened(tcp).listed /\ LiveOK(Opened(tcp), 0) /\ SettledOK(Opened(tcp))
      BY ZenonT(40), <1>1, <2>1, OpenOK
    <2>3. wire.nxt = 0 /\ ~wire.est
      BY <2>1 DEF StateInv
    <2>4. QED BY ZenonT(30), <1>1, <1>2, <2>1, <2>2, <2>3 DEF StateInv
  <1>5. ASSUME NEW env \in Environments, process_step(env) PROVE StateInv'
    <2> DEFINE d == [tcp EXCEPT !.process = FALSE]
    <2>1. /\ tcp.listed /\ Transmit(tcp_xmit_sack(d, env))
          /\ UNCHANGED peer_rcv
      BY <1>5 DEF process_step, Idle
    <2>2. Kept(tcp, d)
      BY Zenon, <1>1, <2>1, SmallChanges
    <2> HIDE DEF d
    <2>3. ConnOK(d) /\ d.listed /\ d.state = tcp.state /\ LiveOK(d, wire.nxt)
      BY ZenonT(30), <1>1, <2>1, <2>2 DEF Kept
    <2>4. QED BY ZenonT(30), <1>1, <1>2, <2>1, <2>3, XmitStep
  <1>6. ASSUME NEW env \in Environments, NEW over \in BOOLEAN,
               tcp_expired(over, env)
        PROVE  StateInv'
    <2> DEFINE d == [tcp EXCEPT !.timer = FALSE, !.count = @ + 1]
    <2>1. /\ tcp.listed /\ UNCHANGED peer_rcv
          /\ over => Transmit(Result(Abort(d, "timeout"), FALSE, FALSE))
          /\ ~over => Transmit(tcp_xmit_sack(d, env))
      BY Zenon, <1>6 DEF tcp_expired, Idle
    <2>2. Kept(tcp, d)
      BY Zenon, <1>1, <2>1, SmallChanges
    <2> HIDE DEF d
    <2>3. ConnOK(d) /\ d.listed /\ d.state = tcp.state /\ LiveOK(d, wire.nxt)
      BY ZenonT(30), <1>1, <2>1, <2>2 DEF Kept
    <2>4. CASE ~over
      BY ZenonT(30), <1>1, <1>2, <2>1, <2>3, <2>4, XmitStep
    <2>5. CASE over
      <3>1. tcp' = Abort(d, "timeout") /\ UNCHANGED wire
        BY ZenonT(30), <2>1, <2>5 DEF Transmit, Transmitted, Result
      <3>2. ~Abort(d, "timeout").listed /\ Abort(d, "timeout").rc # "none"
        BY ZenonT(30), <1>3, <2>3, AbortListed
      <3>3. QED BY ZenonT(30), <1>2, <2>1, <3>1, <3>2, StateLocal
    <2>6. QED BY <2>4, <2>5
  <1>7. ASSUME NEW env \in Environments, tcp_keepalive_expired(env)
        PROVE  StateInv'
    <2> DEFINE d == [tcp EXCEPT !.ack_pending = TRUE]
    <2>1. /\ tcp.listed /\ Transmit(tcp_xmit_sack(d, env))
          /\ UNCHANGED peer_rcv
      BY <1>7 DEF tcp_keepalive_expired, Idle
    <2>2. Kept(tcp, d)
      BY Zenon, <1>1, <2>1, SmallChanges
    <2> HIDE DEF d
    <2>3. ConnOK(d) /\ d.listed /\ d.state = tcp.state /\ LiveOK(d, wire.nxt)
      BY ZenonT(30), <1>1, <2>1, <2>2 DEF Kept
    <2>4. QED BY ZenonT(30), <1>1, <1>2, <2>1, <2>3, XmitStep
  <1>8. ASSUME NEW env \in Environments, tcp_rx_finish(env) PROVE StateInv'
    <2> DEFINE s == [tcp EXCEPT !.process = TRUE]
               x == IF tcp.rx_queue = <<>> THEN Result(s, FALSE, FALSE)
                    ELSE tcp_xmit_sack(tcp, env)
               c == [x.c EXCEPT !.wait = @ \/ TCP_CLOSED_GRACEFULLY(x.c.state)]
    <2>1. /\ pc = "queue" /\ tcp' = c /\ Transmitted(x, rx.seq)
          /\ UNCHANGED peer_rcv
      BY Zenon, <1>8 DEF tcp_rx_finish
    <2>2. tcp.listed /\ LiveOK(tcp, wire.nxt) /\ SettledOK(tcp)
      BY <1>1, <2>1
    <2>3. /\ ConnOK(s) /\ s.listed /\ s.state = tcp.state
          /\ LiveOK(s, wire.nxt)
      BY Zenon, <1>1, <2>2, SmallChanges DEF Kept
    <2> HIDE DEF s
    <2>4. /\ ConnOK(x.c) /\ x.c.listed /\ x.c.state = tcp.state
          /\ x.sent \in BOOLEAN
      <3>1. CASE tcp.rx_queue = <<>>
        BY Zenon, <2>3, <3>1 DEF Result
      <3>2. CASE tcp.rx_queue # <<>>
        <4>1. ConnOK(tcp_xmit_sack(tcp, env).c)
          BY ZenonT(30), <1>1, XmitSackOK
        <4>2. /\ tcp_xmit_sack(tcp, env).sent \in BOOLEAN
              /\ tcp_xmit_sack(tcp, env).c.listed = tcp.listed
              /\ tcp_xmit_sack(tcp, env).c.state = tcp.state
          BY Zenon, <1>1, XmitKeeps
        <4>3. QED BY Zenon, <2>2, <3>2, <4>1, <4>2
      <3>3. QED BY ZenonT(40), <3>1, <3>2
    <2>5. x.c \in Connection
      BY Zenon, <2>4 DEF ConnOK
    <2>6. /\ wire' \in Wire
          /\ wire'.nxt = wire.nxt \/ (x.sent /\ wire'.nxt >= wire.nxt)
      <3> HIDE DEF x
      <3>1. QED BY ZenonT(30), <1>1, <2>1, <2>4, <2>5, TransmittedWire
    <2>7. wire'.nxt \in Nat
      BY <2>6 DEF Wire
    <2>8. LiveOK(x.c, wire'.nxt)
      <3>1. CASE tcp.rx_queue = <<>>
        <4>1. x.c = s /\ ~x.sent
          BY <3>1 DEF Result
        <4>2. QED BY ZenonT(40), <2>3, <2>6, <4>1
      <3>2. CASE tcp.rx_queue # <<>>
        <4>1. x = tcp_xmit_sack(tcp, env)
          BY <3>2
        <4>2. QED BY ZenonT(40), <1>1, <2>2, <2>6, <2>7, <4>1, XmitSackLive
      <3>3. QED BY Zenon, <3>1, <3>2
    <2> HIDE DEF x
    <2>9. Kept(x.c, c)
      BY Zenon, <2>4, SmallChanges
    <2> HIDE DEF c
    <2>10. c.listed /\ c.state = tcp.state /\ LiveOK(c, wire'.nxt)
      BY ZenonT(30), <2>4, <2>7, <2>8, <2>9 DEF Kept
    <2>11. SettledOK(c)
      BY ZenonT(30), <2>2, <2>10 DEF SettledOK
    <2>12. "ACK" \in x.c.state.sent => "SYN" \in c.state.rcvd
      BY ZenonT(30), <2>4, <2>8, <2>10 DEF LiveOK, StateOK
    <2>13. QED
      BY ZenonT(30), <1>2, <2>1, <2>2, <2>4, <2>5, <2>10, <2>11, <2>12,
         StateTransmit

  <1>9. ASSUME NEW env \in Environments, NEW r \in Reactions(tcp),
               app_step(r, env)
        PROVE  StateInv'
    BY ZenonT(30), <1>2, <1>9, ReactStep DEF app_step, Idle
  <1>10. ASSUME NEW env \in Environments, NEW r \in Reactions(tcp),
                tcp_process_rx_queue(r, env)
         PROVE  StateInv'
    <2> DEFINE q     == Head(tcp.rx_queue)
               taken == [tcp EXCEPT !.rx_queue = Tail(@)]
               data  == tcp_rx_data(taken, q)
               x     == React(data, r, env)
               c     == IF q.fin THEN tcp_rx_fin(x.c, Add(q.seq, q.len))
                        ELSE x.c
    <2>1. /\ pc = "queue" /\ tcp' = c /\ Transmitted(x, x.c.rcv_ack)
          /\ tcp.rx_queue # <<>> /\ UNCHANGED peer_rcv
      BY <1>10 DEF tcp_process_rx_queue, Applicable
    <2>2. /\ ConnOK(taken) /\ taken.listed /\ taken.state = tcp.state
          /\ taken.xfer_closed = tcp.xfer_closed
          /\ taken.tx_queue = tcp.tx_queue /\ taken.tx_pos = tcp.tx_pos
          /\ LiveOK(taken, wire.nxt) /\ q \in QueuedPacket
      BY ZenonT(30), <1>1, <2>1, Taken
    <2>3. "SYN" \in tcp.state.rcvd
      BY ZenonT(30), <1>1, <2>1 DEF ConnOK, RxAndReasonOK
    <2> HIDE DEF q, taken
    <2>4. /\ ConnOK(data) /\ data.listed /\ data.state = taken.state
          /\ data.xfer_closed = taken.xfer_closed
          /\ data.tx_queue = taken.tx_queue /\ data.tx_pos = taken.tx_pos
          /\ LiveOK(data, wire.nxt)
      BY ZenonT(30), <1>1, <2>2, RxData
    <2> HIDE DEF data
    <2>5. r \in Reactions(data)
      BY ZenonT(30), <2>2, <2>4 DEF Reactions, TxEnd, TxLen
    <2>6. SettledOK(data)
      BY ZenonT(30), <1>1, <2>1, <2>2, <2>4 DEF SettledOK
    <2>7. /\ ConnOK(x.c) /\ x.sent \in BOOLEAN
          /\ x.c.listed /\ x.c.state.rcvd = tcp.state.rcvd
      <3>1. "SYN" \in data.state.rcvd /\ data.state.rcvd = tcp.state.rcvd
        BY Zenon, <2>2, <2>3, <2>4
      <3>2. QED BY ZenonT(40), <2>4, <2>5, <3>1, ReactOK
    <2>8. x.c \in Connection
      BY ZenonT(30), <2>7 DEF ConnOK
    <2>9. /\ wire' \in Wire
          /\ wire'.nxt = wire.nxt \/ (x.sent /\ wire'.nxt >= wire.nxt)
      <3> HIDE DEF x
      <3>1. QED BY ZenonT(30), <1>1, <2>1, <2>7, <2>8, TransmittedWire
    <2>10. wire'.nxt \in Nat
      BY ZenonT(30), <2>9 DEF Wire
    <2>11. LiveOK(x.c, wire'.nxt) /\ SettledOK(x.c)
      BY ZenonT(30), <1>1, <2>4, <2>5, <2>6, <2>7, <2>9, <2>10, ReactLive
    <2> HIDE DEF x
    <2>12. /\ c.listed /\ LiveOK(c, wire'.nxt) /\ SettledOK(c)
           /\ x.c.state.rcvd \subseteq c.state.rcvd
      <3> DEFINE f == tcp_rx_fin(x.c, Add(q.seq, q.len))
      <3>1. /\ f.listed /\ LiveOK(f, wire'.nxt) /\ SettledOK(f)
            /\ x.c.state.rcvd \subseteq f.state.rcvd
        BY ZenonT(30), <2>3, <2>7, <2>10, <2>11, RxFin
      <3> HIDE DEF f
      <3>2. c = f \/ c = x.c
        BY DEF f
      <3>3. QED BY ZenonT(30), <2>7, <2>11, <3>1, <3>2
    <2> HIDE DEF c
    <2>13. "SYN" \in c.state.rcvd
      BY ZenonT(30), <2>3, <2>7, <2>12
    <2>14. QED BY ZenonT(30), <1>1, <1>2, <2>1, <2>7, <2>8, <2>12, <2>13,
                  StateTransmit
  <1>11. ASSUME NEW env \in Environments, NEW r \in Reactions(tcp),
                xfer_window_changed(r, env)
         PROVE  StateInv'
    <2>1. tcp.listed
      BY ZenonT(30), <1>1, <1>11 DEF xfer_window_changed
    <2>2. QED BY ZenonT(30), <1>2, <1>11, <2>1, ReactStep DEF xfer_window_changed
  <1>12. CASE tcp_wait_expired
    <2> DEFINE d == [tcp EXCEPT !.wait = FALSE]
    <2>1. tcp.listed /\ tcp' = Abort(d, "ok") /\ UNCHANGED <<wire, peer_rcv>>
      BY <1>12 DEF tcp_wait_expired, Idle
    <2>2. ConnOK(d) /\ d.listed
      BY Zenon, <1>1, <2>1, SmallChanges DEF Kept
    <2> HIDE DEF d
    <2>3. ~Abort(d, "ok").listed /\ Abort(d, "ok").rc # "none"
      BY <1>3, <2>2, AbortListed
    <2>4. QED BY ZenonT(30), <1>2, <2>1, <2>3, StateLocal
  <1>13. CASE tcp_shutdown
    <2> DEFINE d == tcp_close(tcp, "cancel")
    <2>1. /\ tcp.listed /\ (tcp' = tcp \/ tcp' = d)
          /\ UNCHANGED <<wire, peer_rcv>>
      BY ZenonT(30), <1>13 DEF tcp_shutdown, Idle
    <2>2. /\ d.rc # "none" /\ ("SYN" \notin tcp.state.rcvd => ~d.listed)
          /\ "SYN" \in tcp.state.rcvd =>
               d.listed /\ d.state.rcvd = tcp.state.rcvd
      BY ZenonT(30), <1>1, <1>3, <2>1, CloseOK
    <2>3. "SYN" \in tcp.state.rcvd =>
            LiveOK(d, wire.nxt) /\ "SYN" \in d.state.acked
      BY ZenonT(30), <1>1, <1>3, <2>1, CloseLive
    <2> HIDE DEF d
    <2>4. "SYN" \in tcp.state.rcvd => SettledOK(d)
      BY ZenonT(30), <2>2, <2>3 DEF SettledOK
    <2>5. CASE tcp' = tcp
      BY ZenonT(30), <1>1, <1>2, <2>1, <2>5, StateLocal
    <2>6. CASE tcp' = d
      BY ZenonT(30), <1>1, <1>2, <2>1, <2>2, <2>3, <2>4, <2>6, StateLocal
    <2>7. QED BY ZenonT(30), <2>1, <2>5, <2>6
  <1>14. CASE tcp_shutdown_finish
    <2>1. /\ tcp.listed /\ tcp' = Abort(tcp, "cancel")
          /\ UNCHANGED <<wire, peer_rcv>>
      BY ZenonT(30), <1>14 DEF tcp_shutdown_finish, Idle
    <2>2. ~Abort(tcp, "cancel").listed /\ Abort(tcp, "cancel").rc # "none"
      BY ZenonT(30), <1>1, <1>3, <2>1, AbortListed
    <2>3. QED BY ZenonT(30), <1>2, <2>1, <2>2, StateLocal
  <1>15. ASSUME NEW seg \in PeerSegments, tcp_rx(seg) PROVE StateInv'
    <2> DEFINE synced == RxSynced(tcp, seg)
               seq    == IF "SYN" \in seg.flags THEN Add(seg.seq, 1)
                         ELSE seg.seq
               reset  == "RST" \in seg.flags /\ RstAcceptable(synced, seq)
    <2>1. seg \in Segments
      BY ZenonT(30), <1>1, PeerSegmentsType
    <2>2. /\ tcp.listed
          /\ "ACK" \in seg.flags /\ AckOutOfRange(tcp, seg.ack)
                => TCP_HAS_BEEN_ESTABLISHED(tcp.state)
          /\ \/ reset /\ tcp' = Abort(synced, "reset")
             \/ ~reset /\ tcp' = tcp_rx_enqueue(synced, seq, seg)
          /\ UNCHANGED <<wire, peer_rcv>>
      BY <1>15 DEF tcp_rx, Idle, RxSynced, RxForced, RxAcked
    <2>3. seq \in SeqNo
      <3>1. seg.seq \in SeqNo /\ seg.seq \in Int
        BY <2>1 DEF Segments, SeqNo
      <3>2. Add(seg.seq, 1) \in SeqNo
        BY SMTT(30), <3>1, SeqNoType
      <3>3. QED BY <3>1, <3>2
    <2>4. \/ "SYN" \in seg.flags /\ wire.nxt > 0
          \/ "SYN" \notin seg.flags /\ wire.est
          \/ /\ seg.flags = {"RST", "ACK"} /\ seg.ack = Add(ISS, 1)
             /\ "SYN" \notin tcp.state.rcvd
      BY ZenonT(30), <1>1, PeerSegmentKinds
    <2>5. /\ ConnOK(synced) /\ synced.listed
          /\ tcp.state.rcvd \subseteq synced.state.rcvd
          /\ "SYN" \in seg.flags => "SYN" \in synced.state.rcvd
          /\ "SYN" \notin seg.flags => synced.state.rcvd = tcp.state.rcvd
      BY Zenon, <1>1, <2>1, <2>2, RxSyncedOK
    <2>6. /\ LiveOK(synced, wire.nxt)
          /\ "SYN" \in synced.state.rcvd => SettledOK(synced)
          /\ "ACK" \in seg.flags /\ ~AckOutOfRange(tcp, seg.ack)
             /\ Sub(seg.ack, tcp.snd_seq) > 0 => "SYN" \in synced.state.acked
      BY ZenonT(30), <1>1, <2>1, <2>2, <2>4, RxSyncedLive
    <2>7. "SYN" \in synced.state.rcvd \/ reset
      <3>1. CASE "SYN" \in seg.flags \/ wire.est
        BY ZenonT(30), <1>1, <2>2, <2>5, <3>1
      <3>2. CASE /\ seg.flags = {"RST", "ACK"} /\ seg.ack = Add(ISS, 1)
                 /\ "SYN" \notin tcp.state.rcvd
        <4>1. ~AckOutOfRange(tcp, seg.ack)
          BY ZenonT(30), <2>2, <3>2 DEF TCP_HAS_BEEN_ESTABLISHED
        <4>2. tcp.snd_seq = ISS
          BY ZenonT(30), <1>1, <2>2, <3>2 DEF SettledOK, LiveOK
        <4>3. Sub(seg.ack, tcp.snd_seq) = 1
          BY ZenonT(30), <3>2, <4>2, NextSeqNo, TcpConnAssumption
        <4>4. "SYN" \in synced.state.acked
          BY SMTT(30), <2>6, <3>2, <4>1, <4>3
        <4>5. "SYN" \notin synced.state.rcvd
          BY ZenonT(30), <2>5, <3>2
        <4>6. QED BY ZenonT(30), <3>2, <4>4, <4>5 DEF RstAcceptable
      <3>3. QED BY ZenonT(30), <2>4, <3>1, <3>2
    <2> HIDE DEF synced, seq, reset
    <2>8. CASE reset /\ tcp' = Abort(synced, "reset")
      <3>1. ~Abort(synced, "reset").listed /\ Abort(synced, "reset").rc # "none"
        BY ZenonT(30), <1>3, <2>5, AbortListed
      <3>2. QED BY ZenonT(30), <1>2, <2>2, <2>8, <3>1, StateLocal
    <2>9. CASE ~reset /\ tcp' = tcp_rx_enqueue(synced, seq, seg)
      <3> DEFINE d == tcp_rx_enqueue(synced, seq, seg)
      <3>1. d.listed /\ d.state = synced.state /\ LiveOK(d, wire.nxt)
        BY ZenonT(30), <1>1, <2>1, <2>3, <2>5, <2>6, RxEnqueue
      <3> HIDE DEF d
      <3>2. SettledOK(d) /\ tcp.state.rcvd \subseteq d.state.rcvd
        BY ZenonT(30), <2>5, <2>6, <2>7, <2>9, <3>1 DEF SettledOK
      <3>3. tcp' = d
        BY ZenonT(30), <2>9 DEF d
      <3>4. QED BY ZenonT(30), <1>2, <2>2, <3>1, <3>2, <3>3, StateLocal
    <2>10. QED BY ZenonT(30), <2>2, <2>8, <2>9
  <1>16. CASE peer_receive
    <2>1. PICK n \in (peer_rcv + 1)..wire.nxt : peer_rcv' = n
      BY ZenonT(30), <1>16 DEF peer_receive
    <2>2. UNCHANGED <<tcp, wire>>
      BY ZenonT(30), <1>16 DEF peer_receive
    <2>3. peer_rcv + 1 \in Int /\ wire.nxt \in Int
      BY <1>1
    <2>4. peer_rcv' <= wire.nxt
      BY ZenonT(30), <2>1, <2>3, UpTo
    <2>5. QED BY ZenonT(30), <1>2, <2>2, <2>4 DEF StateInv
  <1>17. CASE UNCHANGED vars
    <2>1. UNCHANGED <<tcp, wire, peer_rcv>>
      BY ZenonT(30), <1>17 DEF vars
    <2>2. QED BY ZenonT(30), <1>2, <2>1 DEF StateInv
  <1>18. QED
    BY ZenonT(30), <1>4, <1>5, <1>6, <1>7, <1>8, <1>9, <1>10, <1>11, <1>12,
       <1>13, <1>14,
       <1>15, <1>16, <1>17 DEF Next

-----------------------------------------------------------------------------
(* The named states of include/ipxe/tcp.h in which a connection can be. *)
LEMMA NamedStates ==
    ASSUME StateInv, tcp.listed
    PROVE  /\ "FIN" \notin tcp.state.acked =>
                 tcp.state \in {TCP_SYN_SENT, TCP_SYN_RCVD, TCP_ESTABLISHED,
                                TCP_FIN_WAIT_1, TCP_CLOSE_WAIT,
                                TCP_CLOSING_OR_LAST_ACK}
           /\ TCP_CLOSED_GRACEFULLY(tcp.state) => tcp.state = TCP_TIME_WAIT
  <1> DEFINE sent  == tcp.state.sent
             acked == tcp.state.acked
             rcvd  == tcp.state.rcvd
  <1>1. StateOK(tcp.state) /\ SettledOK(tcp)
    BY DEF StateInv, LiveOK
  <1>2. /\ sent \subseteq Flags /\ acked \subseteq {"SYN", "FIN"}
        /\ rcvd \subseteq {"SYN", "FIN"}
        /\ tcp.state = State(sent, acked, rcvd)
    <2>1. tcp.state \in [sent : SUBSET Flags, acked : SUBSET Flags,
                         rcvd : SUBSET Flags]
      BY ZenonT(30), ConnectionFields DEF StateInv, QuietInv, TypeOK
    <2>2. QED BY ZenonT(30), <1>1, <2>1 DEF StateOK, State
  <1>3. /\ "SYN" \in sent /\ "RST" \notin sent
        /\ ("ACK" \in sent <=> "SYN" \in rcvd)
        /\ ("FIN" \in sent \/ "FIN" \in rcvd => "SYN" \in rcvd)
        /\ ("FIN" \in sent => "SYN" \in acked)
        /\ ("FIN" \in acked => "FIN" \in sent)
        /\ ("SYN" \in acked => "SYN" \in rcvd)
        /\ ("FIN" \in rcvd => "SYN" \in acked)
    BY ZenonT(40), <1>1 DEF StateOK, SettledOK
  <1> HIDE DEF sent, acked, rcvd
  <1>4. CASE "SYN" \notin rcvd
    <2>1. sent = {"SYN"} /\ acked = {} /\ rcvd = {}
      BY Zenon, <1>2, <1>3, <1>4 DEF Flags
    <2>2. QED
      BY <1>2, <2>1
      DEF TCP_SYN_SENT, TCP_CLOSED_GRACEFULLY, acked, rcvd
  <1>5. CASE "SYN" \in rcvd /\ "SYN" \notin acked
    <2>1. sent = {"SYN", "ACK"} /\ acked = {} /\ rcvd = {"SYN"}
      BY Zenon, <1>2, <1>3, <1>5 DEF Flags
    <2>2. QED
      BY <1>2, <2>1
      DEF TCP_SYN_RCVD, TCP_CLOSED_GRACEFULLY, acked, rcvd
  <1>6. CASE "SYN" \in rcvd /\ "SYN" \in acked /\ "FIN" \notin acked
    <2>1. acked = {"SYN"} /\ (rcvd = {"SYN"} \/ rcvd = {"SYN", "FIN"})
      BY Zenon, <1>2, <1>3, <1>6
    <2>2. sent = {"SYN", "ACK"} \/ sent = {"SYN", "ACK", "FIN"}
      BY Zenon, <1>2, <1>3, <1>6 DEF Flags
    <2>3. tcp.state \in {TCP_ESTABLISHED, TCP_FIN_WAIT_1, TCP_CLOSE_WAIT,
                         TCP_CLOSING_OR_LAST_ACK}
      BY ZenonT(30), <1>2, <2>1, <2>2
      DEF TCP_ESTABLISHED, TCP_FIN_WAIT_1, TCP_CLOSE_WAIT,
          TCP_CLOSING_OR_LAST_ACK
    <2>4. ~TCP_CLOSED_GRACEFULLY(tcp.state)
      BY <1>6 DEF TCP_CLOSED_GRACEFULLY, acked
    <2>5. QED BY <2>3, <2>4
  <1>7. CASE "SYN" \in rcvd /\ "SYN" \in acked /\ "FIN" \in acked
    <2>1. acked = {"SYN", "FIN"} /\ (rcvd = {"SYN"} \/ rcvd = {"SYN", "FIN"})
      BY Zenon, <1>2, <1>3, <1>7
    <2>2. sent = {"SYN", "ACK", "FIN"}
      BY Zenon, <1>2, <1>3, <1>7 DEF Flags
    <2>3. TCP_CLOSED_GRACEFULLY(tcp.state) => rcvd = {"SYN", "FIN"}
      BY <2>1 DEF TCP_CLOSED_GRACEFULLY, rcvd
    <2>4. QED BY ZenonT(30), <1>2, <1>7, <2>1, <2>2, <2>3 DEF TCP_TIME_WAIT,
                 acked
  <1>8. QED BY ZenonT(30), <1>4, <1>5, <1>6, <1>7

(* The second invariant holds for every peer that does not send its SYN    *)
(* before it can know of the connection.                                   *)
THEOREM StateInvariant == ASSUME PeerSyn # "early" PROVE Spec => []StateInv
  <1>1. Init => StateInv
    BY StateInit
  <1>2. StateInv /\ [Next]_vars => StateInv'
    BY StateNext
  <1>3. QED BY <1>1, <1>2, PTL DEF Spec

(* The assertion of tcp_xmit_sack: with such a peer, SYN and FIN are never *)
(* being sent at the same time.                                            *)
THEOREM SynAndFinApart ==
    ASSUME PeerSyn # "early" PROVE Spec => []NeverSynAndFin
  <1>1. StateInv => NeverSynAndFin
    <2> SUFFICES ASSUME StateInv PROVE NeverSynAndFin
      OBVIOUS
    <2>1. CASE tcp.listed
      <3>1. StateOK(tcp.state)
        BY ZenonT(30), <2>1 DEF StateInv, LiveOK
      <3>2. QED BY ZenonT(30), <3>1 DEF StateOK, NeverSynAndFin,
                   TCP_FLAGS_SENDING
    <2>2. CASE ~tcp.listed
      <3>1. tcp.state = TCP_CLOSED
        BY ZenonT(40), <2>2 DEF StateInv, QuietInv, ConnOK
      <3>2. TCP_CLOSED.sent = {"RST"}
        BY ZenonT(30) DEF TCP_CLOSED, State
      <3>3. "SYN" \notin TCP_FLAGS_SENDING(TCP_CLOSED)
        BY ZenonT(30), <3>2 DEF TCP_FLAGS_SENDING
      <3>4. QED BY ZenonT(30), <3>1, <3>3 DEF NeverSynAndFin
    <2>3. QED BY <2>1, <2>2
  <1>2. QED BY <1>1, StateInvariant, PTL

(* The assertions of tcp_expired and tcp_wait_expired: with such a peer,   *)
(* the timers run only in the states they name.                            *)
THEOREM TimersInTheirStates ==
    ASSUME PeerSyn # "early" PROVE Spec => []TimerStates
  <1>1. StateInv => TimerStates
    <2> SUFFICES ASSUME StateInv PROVE TimerStates
      OBVIOUS
    <2>1. CASE tcp.listed
      <3>1. /\ tcp.timer => "FIN" \notin tcp.state.acked
            /\ tcp.wait => TCP_CLOSED_GRACEFULLY(tcp.state)
        BY ZenonT(30), <2>1 DEF StateInv, LiveOK
      <3>2. QED BY ZenonT(30), <2>1, <3>1, NamedStates DEF TimerStates
    <2>2. CASE ~tcp.listed
      BY Zenon, <2>2 DEF StateInv, QuietInv, ConnOK, Quiet, TimerStates
    <2>3. QED BY <2>1, <2>2
  <1>2. QED BY <1>1, StateInvariant, PTL

(* With such a peer, pending operations are counted exactly: one for each  *)
(* transmit buffer, one for an unacknowledged SYN, one for an              *)
(* unacknowledged FIN.                                                     *)
THEOREM PendingCounted ==
    ASSUME PeerSyn # "early" PROVE Spec => []PendingExact
  <1>1. StateInv => PendingExact
    <2> DEFINE f == TCP_FLAGS_SENDING(tcp.state)
    <2> SUFFICES ASSUME StateInv, tcp.listed
                 PROVE  /\ tcp.pending_data = Len(tcp.tx_queue)
                        /\ tcp.pending_flags =
                             IF {"SYN", "FIN"} \subseteq f THEN 2
                             ELSE IF {"SYN", "FIN"} \cap f # {} THEN 1 ELSE 0
      BY DEF PendingExact
    <2>1. tcp.pending_data = Len(tcp.tx_queue)
      BY ZenonT(30) DEF StateInv, QuietInv, ConnOK, PendingBounded
    <2>2. /\ StateOK(tcp.state)
          /\ tcp.pending_flags = One("SYN" \notin tcp.state.acked)
                 + One("FIN" \in tcp.state.sent \ tcp.state.acked)
      BY Zenon DEF StateInv, LiveOK
    <2>3. \/ /\ "SYN" \notin f /\ "FIN" \notin f /\ tcp.pending_flags = 0
          \/ /\ "SYN" \in f /\ "FIN" \notin f /\ tcp.pending_flags = 1
          \/ /\ "SYN" \notin f /\ "FIN" \in f /\ tcp.pending_flags = 1
      BY <2>2 DEF StateOK, One, TCP_FLAGS_SENDING
    <2> HIDE DEF f
    <2>4. QED BY Zenon, <2>1, <2>3
  <1>2. QED BY <1>1, StateInvariant, PTL
=============================================================================
