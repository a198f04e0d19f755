-------------------------- MODULE TcpUploadProofs ---------------------------
(***************************************************************************)
(* What the functions of net/tcp.c do to the sending half of a connection, *)
(* that is, the transmit queue, what has been sent and acknowledged, and   *)
(* what is left to do about it; the fourth and the fifth invariant of      *)
(* module TcpInv are preserved by every action; and the theorems about the *)
(* upload, which follow.                                                   *)
(***************************************************************************)
EXTENDS TcpStateProofs

(* A proper suffix of a sequence has the same last element. *)
LEMMA SuffixLast ==
    ASSUME NEW q \in Seq(Nat), NEW k \in Nat, k < Len(q)
    PROVE  LET s == SubSeq(q, k + 1, Len(q))
           IN  s # <<>> /\ s \in Seq(Nat) /\ s[Len(s)] = q[Len(q)]
  <1> DEFINE s == SubSeq(q, k + 1, Len(q))
  <1>1. /\ s \in Seq(Nat) /\ Len(s) = Len(q) - k
        /\ \A i \in 1..Len(s) : s[i] = q[k + i]
    BY SubSeqProperties, LenProperties
  <1> HIDE DEF s
  <1>2. /\ Len(s) > 0 /\ Len(s) \in 1..Len(s) /\ k + Len(s) = Len(q)
    BY <1>1, LenProperties
  <1>3. s # <<>>
    BY <1>2
  <1>4. QED BY Zenon, <1>1, <1>2, <1>3 DEF s

(* A nonempty transmit queue ends at TxEnd. *)
LEMMA TxEndValue ==
    ASSUME NEW c \in Connection, TxQueueOK(c)
    PROVE  /\ TxLen(c) \in Nat /\ TxEnd(c) \in Nat /\ Len(c.tx_queue) \in Nat
           /\ c.tx_queue = <<>> => TxLen(c) = 0 /\ TxEnd(c) = c.tx_pos
           /\ c.tx_queue # <<>> =>
                 /\ Len(c.tx_queue) > 0
                 /\ TxEnd(c) = c.tx_queue[Len(c.tx_queue)]
                 /\ TxEnd(c) > c.tx_pos
  <1> DEFINE q == c.tx_queue
             e == q[Len(q)]
  <1>1. q \in Seq(Nat) /\ c.tx_pos \in Nat /\ Len(q) \in Nat
    BY ConnectionFields, LenProperties
  <1>2. TxLen(c) \in Nat
    BY Zenon, XmitLengths
  <1>3. CASE q = <<>>
    <2>1. TxLen(c) = 0
      BY Zenon, <1>3 DEF TxLen
    <2>2. TxEnd(c) = c.tx_pos
      BY <1>1, <2>1 DEF TxEnd
    <2>3. QED BY Zenon, <1>1, <1>3, <2>1, <2>2
  <1>4. CASE q # <<>>
    <2>1. Len(q) > 0 /\ Len(q) \in 1..Len(q)
      BY <1>1, <1>4, EmptySeq
    <2>2. e \in Nat /\ e > c.tx_pos
      BY <1>1, <2>1 DEF TxQueueOK
    <2>3. TxLen(c) = e - c.tx_pos
      BY Zenon, <1>4 DEF TxLen
    <2> HIDE DEF e
    <2>4. TxEnd(c) = e
      BY <1>1, <2>2, <2>3 DEF TxEnd
    <2>5. QED BY Zenon, <1>1, <1>2, <1>4, <2>1, <2>2, <2>4 DEF e
  <1>5. QED BY Zenon, <1>3, <1>4

(* A loop over an ordered queue stops if the last entry is one to stop at. *)
LEMMA StopsBeforeEnd ==
    ASSUME NEW q \in Seq(Nat), NEW p \in Nat, Len(q) > 0, q[Len(q)] > p,
           Searchable(q)
    PROVE  Preceding(q, {i \in DOMAIN q : q[i] > p}) < Len(q)
  <1> DEFINE S     == {i \in DOMAIN q : q[i] > p}
             first == {i \in S : \A j \in 1..(i - 1) : j \notin S}
             i     == CHOOSE i \in first : TRUE
  <1>1. Len(q) \in Nat /\ DOMAIN q = 1..Len(q) /\ q \in [1..Len(q) -> Nat]
    BY LenProperties
  <1>2. q # <<>> /\ p \in 0..(q[Len(q)] - 1)
    BY <1>1
  <1>3. PICK n \in 1..Len(q) : q[n] > p /\ \A j \in 1..(n - 1) : q[j] <= p
    BY Zenon, <1>2 DEF Searchable
  <1>4. n \in S /\ \A j \in 1..(n - 1) : j \notin S
    BY <1>1, <1>3
  <1>5. first # {}
    BY Zenon, <1>4
  <1>6. i \in first
    BY Zenon, <1>5
  <1>7. i \in 1..Len(q)
    BY Zenon, <1>1, <1>6
  <1>8. Preceding(q, S) = i - 1
    BY Zenon, <1>5 DEF Preceding
  <1> HIDE DEF i
  <1>9. QED BY <1>1, <1>7, <1>8

(* Removing acknowledged bytes from the queue moves its beginning, not its *)
(* end.                                                                    *)
LEMMA TxQueueMoves ==
    ASSUME NEW c \in Connection, NEW len \in Nat, TxQueueOK(c),
           c.pending_data = Len(c.tx_queue)
    PROVE  LET d == tcp_process_tx_queue(c, len)
           IN  /\ d.tx_pos = c.tx_pos + Minimum(len, TxLen(c))
               /\ TxEnd(d) = TxEnd(c)
  <1> DEFINE q    == c.tx_queue
             pos  == c.tx_pos + Minimum(len, TxLen(c))
             gone == Preceding(q, {i \in DOMAIN q : q[i] > pos})
             left == SubSeq(q, gone + 1, Len(q))
             d    == tcp_process_tx_queue(c, len)
  <1>1. /\ q \in Seq(Nat) /\ c.tx_pos \in Nat /\ Len(q) \in Nat
        /\ DOMAIN q = 1..Len(q)
    BY ConnectionFields, LenProperties
  <1>2. /\ TxLen(c) \in Nat /\ TxEnd(c) \in Nat
        /\ q = <<>> => TxLen(c) = 0 /\ TxEnd(c) = c.tx_pos
        /\ q # <<>> => Len(q) > 0 /\ TxEnd(c) = q[Len(q)]
    BY Zenon, TxEndValue
  <1>3. pos \in Nat /\ pos <= TxEnd(c)
    BY <1>1, <1>2 DEF Minimum, TxEnd
  <1>4. /\ \A i, j \in 1..Len(q) : i <= j => q[i] <= q[j]
        /\ Searchable(q)
    BY DEF TxQueueOK
  <1> HIDE DEF pos
  <1>5. gone \in 0..Len(q) /\ \A i \in (gone + 1)..Len(q) : q[i] > pos
    <2> HIDE DEF q
    <2>1. QED BY Zenon, <1>1, <1>3, <1>4, KeptAreSuffix
  <1>6. /\ d \in Connection /\ TxQueueOK(d)
        /\ d.tx_pos = pos /\ d.tx_queue = left
    <2>1. d \in Connection /\ TxQueueOK(d)
      BY Zenon, ProcessTxQueue
    <2>2. d = [c EXCEPT !.tx_pos = pos, !.tx_queue = left,
                        !.pending_data = Maximum(0, @ - gone)]
      BY Zenon DEF tcp_process_tx_queue, pos
    <2> HIDE DEF d, left
    <2>3. QED BY Zenon, <2>1, <2>2 DEF Connection
  <1> HIDE DEF d
  <1>7. /\ d.tx_queue = <<>> => TxEnd(d) = d.tx_pos
        /\ d.tx_queue # <<>> => TxEnd(d) = d.tx_queue[Len(d.tx_queue)]
    BY Zenon, <1>6, TxEndValue
  <1>8. CASE q = <<>>
    <2>1. Len(q) = 0 /\ gone = 0
      BY <1>1, <1>5, <1>8
    <2> HIDE DEF gone
    <2>2. left = <<>>
      <3>1. Len(left) = 0 /\ left \in Seq(Nat)
        BY <1>1, <2>1
      <3>2. QED BY <3>1, EmptySeq
    <2>3. pos = c.tx_pos
      BY <1>1, <1>2, <1>3, <1>8 DEF TxEnd, Minimum, pos
    <2>4. QED BY Zenon, <1>2, <1>6, <1>7, <1>8, <2>2, <2>3 DEF d, pos
  <1>9. CASE q # <<>> /\ q[Len(q)] <= pos
    <2>1. pos = TxEnd(c) /\ Len(q) \in 1..Len(q)
      BY <1>1, <1>2, <1>3, <1>9
    <2>2. gone = Len(q)
      <3> SUFFICES ASSUME gone # Len(q) PROVE FALSE
        OBVIOUS
      <3>1. Len(q) \in (gone + 1)..Len(q)
        BY <1>1, <1>5
      <3>2. q[Len(q)] > pos
        BY Zenon, <1>5, <3>1
      <3>3. QED BY <1>2, <1>3, <1>9, <3>2
    <2> HIDE DEF gone
    <2>3. left = <<>>
      <3>1. Len(left) = 0 /\ left \in Seq(Nat)
        BY <1>1, <2>2
      <3>2. QED BY <3>1, EmptySeq
    <2>4. QED BY Zenon, <1>6, <1>7, <2>1, <2>3 DEF d, pos
  <1>10. CASE q # <<>> /\ q[Len(q)] > pos
    <2>1. Len(q) > 0 /\ Len(q) - 1 \in Nat
      BY <1>1, <1>2, <1>10
    <2>2. gone <= Len(q) - 1
      <3>1. gone < Len(q)
        <4> HIDE DEF q
        <4>1. QED BY Zenon, <1>1, <1>3, <1>4, <1>10, <2>1, StopsBeforeEnd
      <3>2. QED BY <1>1, <1>5, <3>1
    <2>3. gone \in Nat
      BY <1>1, <1>5
    <2> HIDE DEF gone
    <2> HIDE DEF q
    <2>4. /\ left # <<>> /\ left \in Seq(Nat)
          /\ left[Len(left)] = q[Len(q)]
      <3>1. gone < Len(q)
        BY <1>1, <2>2, <2>3
      <3>2. QED BY Zenon, <1>1, <2>3, <3>1, SuffixLast
    <2>5. QED BY Zenon, <1>2, <1>6, <1>7, <1>10, <2>4 DEF d, pos
  <1>11. q # <<>> => q[Len(q)] <= pos \/ q[Len(q)] > pos
    BY <1>2, <1>3
  <1>12. QED BY Zenon, <1>8, <1>9, <1>10, <1>11

(* An acknowledgement of something new removes the data it covers from the *)
(* transmit queue; a flag being sent counts for one.                       *)
LEMMA RxAckRemoves ==
    ASSUME NEW c, ConnOK(c), NEW ack \in SeqNo, NEW win \in Nat,
           ~AckOutOfRange(c, ack), Sub(ack, c.snd_seq) > 0
    PROVE  LET ack_len == Sub(ack, c.snd_seq)
               f   == TCP_FLAGS_SENDING(c.state) \cap {"SYN", "FIN"}
               len == IF f # {} THEN ack_len - 1 ELSE ack_len
               d   == tcp_rx_ack(c, ack, win)
           IN  /\ d.tx_pos = c.tx_pos + Minimum(len, TxLen(c))
               /\ TxEnd(d) = TxEnd(c)
  <1> DEFINE ack_len == Sub(ack, c.snd_seq)
             f == TCP_FLAGS_SENDING(c.state) \cap {"SYN", "FIN"}
             p == IF f # {} THEN pending_put(c.pending_flags)
                  ELSE c.pending_flags
             k == c.keepalive \/ "FIN" \notin c.state.sent
             heard == [c EXCEPT !.snd_win = win, !.keepalive = k]
             timed == stop_timer(heard)
             stopped == [timed EXCEPT !.pending_flags = p, !.snd_seq = ack,
                                      !.snd_sent = 0]
             len == IF f # {} THEN ack_len - 1 ELSE ack_len
             drained == tcp_process_tx_queue(stopped, len)
             acks == c.state.acked \cup f
             acked == [drained EXCEPT !.state.acked = acks]
             d == tcp_rx_ack(c, ack, win)
  <1>1. c \in Connection /\ TxQueueOK(c) /\ c.pending_data = Len(c.tx_queue)
    BY DEF ConnOK, PendingBounded
  <1>2. ack_len \in Nat /\ ack_len > 0 /\ p \in Nat /\ acks \in SUBSET Flags
    <2>1. c.snd_seq \in SeqNo /\ c.pending_flags \in Nat
          /\ c.state.acked \in SUBSET Flags
      BY <1>1, ConnectionFields
    <2>2. ack_len \in SeqNo
      BY Zenon, <2>1, SeqValues
    <2>3. p \in Nat
      BY Zenon, <2>1, SmallTypes
    <2>4. acks \in SUBSET Flags
      BY <2>1 DEF Flags
    <2>5. QED BY <2>2, <2>3, <2>4 DEF SeqNo
  <1>3. k \in BOOLEAN
    OBVIOUS
  <1>4. len \in Nat
    BY <1>2
  <1>5. d = IF c.xfer_closed THEN StartFin(acked) ELSE acked
    <2>1. Sub(ack, c.snd_seq) # 0
      BY <1>2
    <2>2. QED BY <2>1, Zenon DEF tcp_rx_ack
  <1> HIDE DEF ack_len, f, p, k, len, acks, d
  <1>6. /\ heard \in Connection /\ heard.tx_queue = c.tx_queue
        /\ heard.tx_pos = c.tx_pos /\ heard.pending_data = c.pending_data
    BY Zenon, <1>1, <1>3 DEF Connection
  <1> HIDE DEF heard
  <1>7. timed \in Connection /\ Same(heard, timed, {"timer", "count"})
    BY Zenon, <1>6, StopTimer
  <1> HIDE DEF timed
  <1>8. /\ timed.tx_queue = heard.tx_queue /\ timed.tx_pos = heard.tx_pos
        /\ timed.pending_data = heard.pending_data
    BY Zenon, <1>7 DEF Same, Fields
  <1>9. /\ stopped \in Connection /\ stopped.tx_queue = timed.tx_queue
        /\ stopped.tx_pos = timed.tx_pos
        /\ stopped.pending_data = timed.pending_data
    BY Zenon, <1>2, <1>7 DEF Connection
  <1> HIDE DEF stopped
  <1>10. /\ TxQueueOK(stopped) /\ stopped.pending_data = Len(stopped.tx_queue)
         /\ TxLen(stopped) = TxLen(c) /\ TxEnd(stopped) = TxEnd(c)
         /\ stopped.tx_pos = c.tx_pos
    BY Zenon, <1>1, <1>6, <1>8, <1>9 DEF TxQueueOK, TxLen, TxEnd
  <1>11. /\ drained \in Connection
         /\ drained.tx_pos = c.tx_pos + Minimum(len, TxLen(c))
         /\ TxEnd(drained) = TxEnd(c)
    <2>1. /\ drained \in Connection
          /\ drained.tx_pos = stopped.tx_pos + Minimum(len, TxLen(stopped))
          /\ TxEnd(drained) = TxEnd(stopped)
      BY Zenon, <1>4, <1>9, <1>10, ProcessTxQueue, TxQueueMoves
    <2> HIDE DEF drained
    <2>2. QED BY Zenon, <1>10, <2>1
  <1> HIDE DEF drained
  <1>12. /\ acked \in Connection /\ acked.tx_queue = drained.tx_queue
         /\ acked.tx_pos = drained.tx_pos
    BY Zenon, <1>2, <1>11 DEF Connection
  <1> HIDE DEF acked
  <1>13. d.tx_queue = acked.tx_queue /\ d.tx_pos = acked.tx_pos
    <2> DEFINE e == StartFin(acked)
    <2>1. Same(acked, e, {"state", "pending_flags"})
      BY Zenon, <1>12, StartFinEffect
    <2> HIDE DEF e
    <2>2. e.tx_queue = acked.tx_queue /\ e.tx_pos = acked.tx_pos
      BY Zenon, <2>1 DEF Same, Fields
    <2>3. d = e \/ d = acked
      BY Zenon, <1>5 DEF e
    <2>4. QED BY Zenon, <2>2, <2>3
  <1>14. TxEnd(d) = TxEnd(drained) /\ d.tx_pos = drained.tx_pos
    BY Zenon, <1>12, <1>13 DEF TxEnd, TxLen
  <1>15. QED BY Zenon, <1>11, <1>14 DEF d, len, f, ack_len

-----------------------------------------------------------------------------
(* Everything SendingOK is about *)
SendSame(c, d) ==
    /\ d.snd_seq = c.snd_seq /\ d.snd_sent = c.snd_sent
    /\ d.tx_queue = c.tx_queue /\ d.tx_pos = c.tx_pos
    /\ d.state.acked = c.state.acked
    /\ "FIN" \in d.state.sent <=> "FIN" \in c.state.sent

LEMMA SendingStays ==
    ASSUME NEW c, NEW d, NEW n, SendSame(c, d), SendingOK(c, n)
    PROVE  SendingOK(d, n) /\ Sent(d) = Sent(c) /\ TxEnd(d) = TxEnd(c)
  <1>1. Sent(d) = Sent(c) /\ TxEnd(d) = TxEnd(c)
    BY Zenon DEF SendSame, Sent, TxEnd, TxLen
  <1>2. One("FIN" \in d.state.sent) = One("FIN" \in c.state.sent)
    BY Zenon DEF SendSame, One
  <1>3. SendEnd(d) = SendEnd(c)
    BY Zenon, <1>1, <1>2 DEF SendEnd
  <1>4. QED BY Zenon, <1>1, <1>3 DEF SendingOK, SendSame

(* Changes of other fields *)
LEMMA SendSameFields ==
    ASSUME NEW c, NEW d, NEW F, Same(c, d, F),
           F \cap {"snd_seq", "snd_sent", "tx_queue", "tx_pos", "state"} = {}
    PROVE  SendSame(c, d)
  <1>1. /\ "snd_seq" \in Fields \ F /\ "snd_sent" \in Fields \ F
        /\ "tx_queue" \in Fields \ F /\ "tx_pos" \in Fields \ F
        /\ "state" \in Fields \ F
    BY DEF Fields
  <1>2. /\ d.snd_seq = c.snd_seq /\ d.snd_sent = c.snd_sent
        /\ d.tx_queue = c.tx_queue /\ d.tx_pos = c.tx_pos /\ d.state = c.state
    BY Zenon, <1>1 DEF Same
  <1>3. QED BY Zenon, <1>2 DEF SendSame

(* The numbers SendingOK is about *)
LEMMA SendTypes ==
    ASSUME NEW c, ConnOK(c)
    PROVE  /\ c.snd_seq \in SeqNo /\ Sent(c) \in SeqNo /\ Sent(c) \in Nat
           /\ c.snd_sent \in Nat /\ c.tx_pos \in Nat
           /\ TxLen(c) \in Nat /\ TxEnd(c) \in Nat /\ SendEnd(c) \in Nat
           /\ TxEnd(c) = c.tx_pos + TxLen(c)
           /\ c.tx_queue = <<>> => TxLen(c) = 0
           /\ \A b \in BOOLEAN : One(b) \in {0, 1}
  <1>1. c \in Connection /\ TxQueueOK(c)
    BY DEF ConnOK
  <1>2. c.snd_seq \in SeqNo /\ c.snd_sent \in Nat /\ c.tx_pos \in Nat
    BY <1>1, ConnectionFields
  <1>3. Sent(c) \in SeqNo
    BY Zenon, <1>2, SeqValues, TcpConnAssumption DEF Sent
  <1>4. Sent(c) \in Nat
    BY <1>3 DEF SeqNo
  <1>5. TxLen(c) \in Nat /\ TxEnd(c) \in Nat /\ (c.tx_queue = <<>> => TxLen(c) = 0)
    BY Zenon, <1>1, TxEndValue
  <1>6. One("FIN" \in c.state.sent) \in {0, 1} /\ \A b \in BOOLEAN : One(b) \in {0, 1}
    BY DEF One
  <1>7. SendEnd(c) \in Nat
    BY <1>5, <1>6 DEF SendEnd
  <1>8. QED BY Zenon, <1>2, <1>3, <1>4, <1>5, <1>6, <1>7 DEF TxEnd

(* What one acknowledgement covers is never more than what has been sent,  *)
(* so that snd_seq and tx_pos stay in step.                                *)
LEMMA AckSending ==
    ASSUME ShortUpload,
           NEW c, ConnOK(c), NEW n \in Nat, n > 0, LiveOK(c, n), SendingOK(c, n),
           NEW ack \in SeqNo, NEW win \in Nat
    PROVE  LET d == tcp_rx_ack(c, ack, win)
           IN  /\ SendingOK(d, n)
               /\ d.tx_pos # c.tx_pos => d.snd_seq = ack
  <1> DEFINE d == tcp_rx_ack(c, ack, win)
             g == Sub(ack, c.snd_seq)
             f == TCP_FLAGS_SENDING(c.state) \cap {"SYN", "FIN"}
             len == IF f # {} THEN g - 1 ELSE g
             S == Sent(c)
  <1>1. /\ c.snd_seq \in SeqNo /\ S \in SeqNo /\ S \in Nat
        /\ c.snd_sent \in Nat /\ c.tx_pos \in Nat
        /\ TxLen(c) \in Nat /\ TxEnd(c) \in Nat /\ SendEnd(c) \in Nat
        /\ TxEnd(c) = c.tx_pos + TxLen(c)
        /\ c.tx_queue = <<>> => TxLen(c) = 0
        /\ c \in Connection /\ ISS \in SeqNo
    BY Zenon, SendTypes, TcpConnAssumption DEF ConnOK
  <1>2. g \in SeqNo
    BY Zenon, <1>1, SeqValues
  <1>3. g \in Nat
    BY <1>2 DEF SeqNo
  <1>4. CASE AckOutOfRange(c, ack) \/ g = 0
    <2>1. Same(c, d, {"snd_win", "keepalive"})
      BY Zenon, <1>1, <1>4, RxAckHeard
    <2> HIDE DEF d
    <2>2. SendSame(c, d)
      BY Zenon, <2>1, SendSameFields
    <2>3. d.tx_pos = c.tx_pos
      BY Zenon, <2>2 DEF SendSame
    <2>4. QED BY Zenon, <2>2, <2>3, SendingStays DEF d
  <1>5. CASE ~AckOutOfRange(c, ack) /\ g > 0
    <2>0. g > 0 /\ ~AckOutOfRange(c, ack)
      BY Zenon, <1>5
    <2>1. AckEffect(c, ack, d)
      BY Zenon, <1>5, RxAckEffect
    <2>2. /\ d.tx_pos = c.tx_pos + Minimum(len, TxLen(c))
          /\ TxEnd(d) = TxEnd(c)
      BY Zenon, <1>5, RxAckRemoves
    <2>3. g <= c.snd_sent
      BY <1>1, <1>3, <1>5 DEF AckOutOfRange
    <2> HIDE DEF d, g, len, S
    <2>4. /\ d.snd_sent = 0 /\ d.snd_seq = ack
          /\ d.state.acked = c.state.acked \cup f
          /\ c.tx_queue = <<>> => d.tx_queue = <<>>
          /\ "FIN" \in c.state.sent => "FIN" \in d.state.sent
          /\ "FIN" \in d.state.sent => "FIN" \in c.state.sent \/ d.tx_queue = <<>>
      BY Zenon, <2>1 DEF AckEffect, f
    <2>5. /\ S = One("SYN" \in c.state.acked) + c.tx_pos
                 + One("FIN" \in c.state.acked)
          /\ c.tx_pos > 0 => "SYN" \in c.state.acked
          /\ "FIN" \in c.state.sent => c.tx_queue = <<>>
          /\ S + c.snd_sent <= SendEnd(c) /\ n <= SendEnd(c)
          /\ TxEnd(c) <= TxBytes
      BY Zenon DEF SendingOK, S
    <2>6. SendEnd(c) = 1 + TxEnd(c) + One("FIN" \in c.state.sent)
      BY Zenon DEF SendEnd
    <2>7. S + g < SeqSpace
      <3>1. TxBytes + 2 < SeqSpace /\ TxBytes \in Nat /\ SeqSpace \in Nat
        BY TcpConnAssumption, SeqSpaceAssumption DEF ShortUpload
      <3>2. One("FIN" \in c.state.sent) \in {0, 1}
        BY DEF One
      <3>3. TxEnd(c) <= TxBytes /\ S + c.snd_sent <= SendEnd(c)
        BY Zenon, <2>5
      <3>4. SendEnd(c) <= TxBytes + 2
        <4> HIDE DEF S
        <4>1. TxEnd(c) \in Nat /\ TxEnd(c) <= TxBytes
          BY Zenon, <1>1, <3>3
        <4>2. QED BY <2>6, <3>1, <3>2, <4>1
      <3>5. S + g <= SendEnd(c)
        BY <1>1, <1>3, <2>3, <3>3
      <3>6. QED BY <1>1, <1>3, <3>1, <3>4, <3>5
    <2>8. Sent(d) = S + g
      <3>1. Sub(ack, ISS) = S + g
        BY Zenon, <1>1, <2>7, SeqAdvance DEF S, g, Sent
      <3>2. QED BY Zenon, <2>4, <3>1 DEF Sent
    <2>9. /\ "SYN" \in c.state.sent
          /\ "FIN" \in c.state.sent => "SYN" \in c.state.acked
          /\ "FIN" \in c.state.acked => "FIN" \in c.state.sent
          /\ "SYN" \notin c.state.acked => c.snd_sent = 1
      BY Zenon DEF LiveOK, StateOK
    <2>91. /\ S \in Nat /\ g \in Nat /\ c.snd_sent \in Nat /\ c.tx_pos \in Nat
           /\ TxLen(c) \in Nat /\ TxEnd(c) \in Nat /\ SendEnd(c) \in Nat
           /\ TxEnd(c) = c.tx_pos + TxLen(c)
           /\ g > 0 /\ g <= c.snd_sent /\ S + c.snd_sent <= SendEnd(c)
      BY Zenon, <1>1, <1>3, <2>0, <2>3, <2>5
    <2>10. /\ "SYN" \in d.state.acked
           /\ Sent(d) = 1 + d.tx_pos + One("FIN" \in d.state.acked)
           /\ d.tx_pos \in Nat
      <3>1. CASE "SYN" \notin c.state.acked
        <4>1. f = {"SYN"} /\ "FIN" \notin c.state.acked
          BY <2>9, <3>1 DEF TCP_FLAGS_SENDING
        <4>2. "SYN" \in d.state.acked /\ "FIN" \notin d.state.acked
          BY <2>4, <4>1
        <4>3. c.tx_pos = 0 /\ S = 0
          BY SMTT(30), <1>1, <2>5, <3>1, <4>1 DEF One
        <4>30. g = 1
          BY <1>3, <2>0, <2>3, <2>9, <3>1
        <4>31. len = 0
          BY <4>1, <4>30 DEF len
        <4>4. d.tx_pos = 0
          BY <1>1, <2>2, <4>3, <4>31 DEF Minimum
        <4>5. QED BY <2>8, <4>2, <4>3, <4>30, <4>4 DEF One
      <3>2. CASE "SYN" \in c.state.acked /\ "FIN" \in c.state.sent \ c.state.acked
        <4>1. f = {"FIN"}
          BY <3>2 DEF TCP_FLAGS_SENDING
        <4>2. "SYN" \in d.state.acked /\ "FIN" \in d.state.acked
          BY <2>4, <3>2, <4>1
        <4>3. TxLen(c) = 0
          BY Zenon, <1>1, <2>5, <3>2
        <4>4. S = 1 + c.tx_pos /\ SendEnd(c) = c.tx_pos + 2
          BY <1>1, <2>5, <2>6, <3>2, <4>3 DEF One
        <4>51. g = 1
          BY <2>91, <4>4
        <4>5. g = 1 /\ len = 0
          BY <4>1, <4>51 DEF len
        <4>6. d.tx_pos = c.tx_pos
          BY <1>1, <2>2, <4>3, <4>5 DEF Minimum
        <4>7. QED BY <1>1, <2>8, <4>2, <4>4, <4>5, <4>6 DEF One
      <3>3. CASE "SYN" \in c.state.acked /\ "FIN" \notin c.state.sent
        <4>1. f = {} /\ "FIN" \notin c.state.acked
          BY <2>9, <3>3 DEF TCP_FLAGS_SENDING
        <4>2. "SYN" \in d.state.acked /\ "FIN" \notin d.state.acked
          BY <2>4, <3>3, <4>1
        <4>3. S = 1 + c.tx_pos /\ SendEnd(c) = 1 + TxEnd(c)
          BY <1>1, <2>5, <2>6, <3>3, <4>1 DEF One
        <4>41. g <= TxLen(c)
          BY <2>91, <4>3
        <4>4. len = g /\ g <= TxLen(c)
          BY Zenon, <4>1, <4>41 DEF len
        <4>5. d.tx_pos = c.tx_pos + g
          BY <1>1, <1>3, <2>2, <4>4 DEF Minimum
        <4>6. One("FIN" \in d.state.acked) = 0
          BY Zenon, <4>2 DEF One
        <4>7. c.tx_pos \in Nat /\ S = 1 + c.tx_pos
          BY Zenon, <1>1, <4>3
        <4>8. Sent(d) = 1 + d.tx_pos + 0 /\ d.tx_pos \in Nat
          BY <1>3, <2>8, <4>5, <4>7
        <4>9. QED BY Zenon, <4>2, <4>6, <4>8
      <3>4. CASE "FIN" \in c.state.acked
        <4>1. TxLen(c) = 0 /\ "SYN" \in c.state.acked /\ "FIN" \in c.state.sent
          BY Zenon, <1>1, <2>5, <2>9, <3>4
        <4>2. S = 2 + c.tx_pos /\ SendEnd(c) = c.tx_pos + 2
          BY <1>1, <2>5, <2>6, <3>4, <4>1 DEF One
        <4>3. FALSE
          BY <1>1, <1>3, <2>0, <2>3, <2>5, <4>2
        <4>4. QED BY Zenon, <4>3
      <3>5. QED BY Zenon, <3>1, <3>2, <3>3, <3>4
    <2>11. SendEnd(d) \in Nat /\ SendEnd(c) <= SendEnd(d)
      <3>1. SendEnd(d) = 1 + TxEnd(d) + One("FIN" \in d.state.sent)
        BY Zenon DEF SendEnd
      <3>2. /\ One("FIN" \in d.state.sent) \in {0, 1}
            /\ One("FIN" \in c.state.sent) \in {0, 1}
            /\ One("FIN" \in c.state.sent) <= One("FIN" \in d.state.sent)
        BY <2>4 DEF One
      <3>3. TxEnd(d) = TxEnd(c)
        BY Zenon, <2>2
      <3>4. QED BY <2>6, <2>91, <3>1, <3>2, <3>3
    <2>12. Sent(d) + d.snd_sent <= SendEnd(d) /\ n <= SendEnd(d)
      <3>1. d.snd_sent = 0 /\ n <= SendEnd(c)
        BY Zenon, <2>4, <2>5
      <3>2. QED BY <2>8, <2>91, <2>11, <3>1
    <2>13. "FIN" \in d.state.sent => d.tx_queue = <<>>
      BY Zenon, <2>4, <2>5
    <2>14. Sent(d) = One("SYN" \in d.state.acked) + d.tx_pos
                     + One("FIN" \in d.state.acked)
      BY Zenon, <2>10 DEF One
    <2>15. QED BY Zenon, <2>2, <2>4, <2>5, <2>10, <2>12, <2>13, <2>14
               DEF SendingOK, d
  <1>6. AckOutOfRange(c, ack) \/ g = 0 \/ g > 0
    BY <1>3
  <1>7. QED BY Zenon, <1>4, <1>5, <1>6

(* Starting the FIN adds one unit to the end of what is to be sent. *)
LEMMA StartFinSending ==
    ASSUME NEW c, ConnOK(c), NEW n \in Nat, SendingOK(c, n)
    PROVE  LET d == StartFin(c)
           IN  SendingOK(d, n) /\ d.tx_pos = c.tx_pos
  <1> DEFINE d == StartFin(c)
  <1>1. c \in Connection
    BY DEF ConnOK
  <1>2. /\ d \in Connection /\ Same(c, d, {"state", "pending_flags"})
        /\ d.state.acked = c.state.acked
        /\ \/ d = c
           \/ c.tx_queue = <<>> /\ d.state.sent = c.state.sent \cup {"FIN"}
    BY Zenon, <1>1, StartFinEffect
  <1> HIDE DEF d
  <1>3. /\ d.snd_seq = c.snd_seq /\ d.snd_sent = c.snd_sent
        /\ d.tx_queue = c.tx_queue /\ d.tx_pos = c.tx_pos
    BY Zenon, <1>2 DEF Same, Fields
  <1>4. CASE d = c
    BY Zenon, <1>4 DEF d
  <1>5. CASE c.tx_queue = <<>> /\ d.state.sent = c.state.sent \cup {"FIN"}
    <2>1. Sent(d) = Sent(c) /\ TxEnd(d) = TxEnd(c)
      BY Zenon, <1>3 DEF Sent, TxEnd, TxLen
    <2>2. /\ Sent(c) \in Nat /\ c.snd_sent \in Nat /\ TxEnd(c) \in Nat
      BY Zenon, SendTypes
    <2>3. "FIN" \in d.state.sent
      BY <1>5
    <2>4. SendEnd(d) = TxEnd(c) + 2
      BY <2>1, <2>2, <2>3 DEF SendEnd, One
    <2>5. SendEnd(c) = 1 + TxEnd(c) + One("FIN" \in c.state.sent)
      BY Zenon DEF SendEnd
    <2>6. One("FIN" \in c.state.sent) \in {0, 1}
      BY DEF One
    <2>7. SendEnd(c) \in Nat /\ SendEnd(c) <= SendEnd(d) /\ SendEnd(d) \in Nat
      BY <2>2, <2>4, <2>5, <2>6
    <2>8. Sent(c) + c.snd_sent <= SendEnd(c) /\ n <= SendEnd(c)
      BY Zenon DEF SendingOK
    <2>9. Sent(d) + d.snd_sent <= SendEnd(d) /\ n <= SendEnd(d)
      BY <1>3, <2>1, <2>2, <2>7, <2>8
    <2>10. QED BY Zenon, <1>2, <1>3, <1>5, <2>1, <2>9 DEF SendingOK, d
  <1>6. QED BY Zenon, <1>2, <1>4, <1>5

(* Closing acknowledges nothing but the SYN. *)
LEMMA CloseSending ==
    ASSUME ShortUpload, NEW c, ConnOK(c), c.listed, NEW n \in Nat,
           LiveOK(c, n), SendingOK(c, n), NEW rc \in Reasons \ {"none"}
    PROVE  LET d == tcp_close(c, rc)
           IN  /\ d.tx_pos = c.tx_pos
               /\ "SYN" \in c.state.rcvd => SendingOK(d, n)
  <1> DEFINE why      == Reason(c, rc)
             closed   == [c EXCEPT !.xfer_closed = TRUE, !.rc = why]
             next     == Add(c.snd_seq, 1)
             pretend  == IF "SYN" \in c.state.acked THEN closed
                         ELSE tcp_rx_ack(closed, next, 0)
             quiet    == [pretend EXCEPT !.keepalive = FALSE]
             finished == StartFin(quiet)
             proc     == quiet.process \/ finished # quiet
             d        == tcp_close(c, rc)
  <1>1. c \in Connection
    BY DEF ConnOK
  <1>2. why \in Reasons /\ why # "none" /\ next \in SeqNo
    <2>1. c.snd_seq \in Int /\ c.rc \in Reasons
      BY <1>1, ConnectionFields DEF SeqNo
    <2>2. next \in SeqNo
      BY <2>1, SeqNoType
    <2>3. QED BY <2>1, <2>2 DEF ConnOK, RxAndReasonOK, Reason
  <1>3. d = IF "SYN" \notin c.state.rcvd THEN Deleted(closed)
            ELSE [finished EXCEPT !.process = proc]
    BY Zenon DEF tcp_close, Reason
  <1> HIDE DEF why, d
  <1>4. /\ closed \in Connection /\ closed.rc = why /\ closed.xfer_closed
        /\ Same(c, closed, {"xfer_closed", "rc"})
    BY Zenon, <1>1, <1>2 DEF Connection, Same, Fields
  <1> HIDE DEF closed
  <1>5. /\ closed.listed /\ closed.state = c.state /\ closed.wait = c.wait
        /\ closed.tx_queue = c.tx_queue /\ closed.tx_pos = c.tx_pos
        /\ closed.rx_queue = c.rx_queue /\ closed.timer = c.timer
        /\ closed.snd_seq = c.snd_seq /\ closed.snd_sent = c.snd_sent
        /\ closed.pending_data = c.pending_data
        /\ closed.pending_flags = c.pending_flags
    BY ZenonT(30), <1>4 DEF Same, Fields
  <1>6. CASE "SYN" \notin c.state.rcvd
    <2>1. d = Deleted(closed)
      BY Zenon, <1>3, <1>6
    <2>2. QED BY Zenon, <1>4, <1>5, <1>6, <2>1, DeletedRc DEF d
  <1>7. CASE "SYN" \in c.state.rcvd
    <2>1. n > 0
      BY Zenon, <1>7 DEF LiveOK
    <2>2. ConnOK(closed)
      BY ZenonT(30), <1>2, <1>4, <1>5
      DEF ConnOK, TxQueueOK, PendingBounded, RxAndReasonOK
    <2>3. LiveOK(closed, n)
      BY ZenonT(30), <1>4, <1>5, <1>7 DEF LiveOK
    <2>4. SendingOK(closed, n)
      BY Zenon, <1>5, SendingStays DEF SendSame
    <2>5. /\ SendingOK(pretend, n) /\ ConnOK(pretend) /\ pretend.listed
          /\ pretend.tx_pos = c.tx_pos
      <3>1. CASE "SYN" \in c.state.acked
        <4>1. pretend = closed
          BY Zenon, <3>1
        <4> HIDE DEF pretend
        <4>2. QED BY Zenon, <1>5, <2>2, <2>4, <4>1
      <3>2. CASE "SYN" \notin c.state.acked
        <4> DEFINE f == TCP_FLAGS_SENDING(closed.state) \cap {"SYN", "FIN"}
                   g == Sub(next, closed.snd_seq)
                   y == tcp_rx_ack(closed, next, 0)
        <4>1. g = 1
          <5>1. c.snd_seq \in SeqNo
            BY <1>1, ConnectionFields
          <5>2. QED BY Zenon, <1>5, <5>1, NextSeqNo
        <4>2. closed.snd_sent = 1
          BY Zenon, <1>5, <2>1, <2>3, <3>2 DEF LiveOK
        <4>3. ~AckOutOfRange(closed, next) /\ g > 0 /\ 0 \in Nat
          BY <4>1, <4>2 DEF AckOutOfRange
        <4>4. f # {}
          BY <1>5, <2>3, <3>2 DEF LiveOK, StateOK, TCP_FLAGS_SENDING
        <4> HIDE DEF next
        <4>5. y.tx_pos = closed.tx_pos
              + Minimum(IF f # {} THEN g - 1 ELSE g, TxLen(closed))
          BY Zenon, <1>2, <2>2, <4>3, RxAckRemoves
        <4>6. SendingOK(y, n)
          BY Zenon, <1>2, <2>1, <2>2, <2>3, <2>4, <4>3, AckSending
        <4>7. ConnOK(y) /\ Same(closed, y, AckFields)
          BY Zenon, <1>2, <1>5, <2>2, <4>3, RxAckOK
        <4> HIDE DEF y, g, f
        <4>8. y.listed
          <5>1. y.listed = closed.listed
            BY ZenonT(30), <4>7 DEF Same, Fields, AckFields
          <5>2. QED BY Zenon, <1>5, <5>1
        <4>9. y.tx_pos = closed.tx_pos
          <5>1. closed.tx_pos \in Nat /\ TxLen(closed) \in Nat
            BY Zenon, <2>2, SendTypes
          <5>2. QED BY <4>1, <4>4, <4>5, <5>1 DEF Minimum
        <4>10. pretend = y
          BY Zenon, <3>2 DEF y
        <4> HIDE DEF pretend
        <4>11. QED BY Zenon, <1>5, <4>6, <4>7, <4>8, <4>9, <4>10
      <3>3. QED BY Zenon, <3>1, <3>2
    <2> HIDE DEF pretend
    <2>6. pretend \in Connection
      BY <2>5 DEF ConnOK
    <2>7. quiet \in Connection /\ Same(pretend, quiet, {"keepalive"})
      BY Zenon, <2>6 DEF Connection, Same, Fields
    <2> HIDE DEF quiet
    <2>8. ConnOK(quiet) /\ quiet.tx_pos = pretend.tx_pos
      <3>1. Same(pretend, quiet, HarmlessFields)
        BY <2>7 DEF Same, HarmlessFields
      <3>2. QED BY Zenon, <2>5, <2>7, <3>1, Harmless
    <2>9. SendingOK(quiet, n)
      <3>1. SendSame(pretend, quiet)
        BY Zenon, <2>7, SendSameFields
      <3>2. QED BY Zenon, <2>5, <3>1, SendingStays
    <2>10. /\ SendingOK(finished, n) /\ finished.tx_pos = quiet.tx_pos
           /\ finished \in Connection
      BY Zenon, <2>7, <2>8, <2>9, StartFinSending, StartFinEffect
    <2> HIDE DEF finished
    <2>11. proc \in BOOLEAN
      BY <2>7, ConnectionFields
    <2>12. d = [finished EXCEPT !.process = proc]
      BY Zenon, <1>3, <1>7
    <2> HIDE DEF proc
    <2>13. Same(finished, d, {"process"})
      BY Zenon, <2>10, <2>11, <2>12 DEF Connection, Same, Fields
    <2>14. SendSame(finished, d) /\ d.tx_pos = finished.tx_pos
      <3>1. SendSame(finished, d)
        BY Zenon, <2>13, SendSameFields
      <3>2. QED BY Zenon, <3>1 DEF SendSame
    <2>15. QED BY Zenon, <2>5, <2>8, <2>10, <2>14, SendingStays DEF d
  <1>8. QED BY Zenon, <1>6, <1>7

-----------------------------------------------------------------------------
(* How much a segment may carry, state by state. *)
LEMMA XmitSeqLenCases ==
    ASSUME NEW c, ConnOK(c), StateOK(c.state), NEW n \in Nat, SendingOK(c, n)
    PROVE  \/ /\ XmitSeqLen(c) = 1 /\ Sent(c) < SendEnd(c)
              /\ "SYN" \notin c.state.acked
           \/ /\ XmitSeqLen(c) = 1 /\ Sent(c) + 1 = SendEnd(c)
              /\ "SYN" \in c.state.acked
           \/ /\ XmitSeqLen(c) = Minimum(Minimum(c.snd_win, TCP_PATH_MTU), TxLen(c))
              /\ Sent(c) + TxLen(c) = SendEnd(c)
              /\ "SYN" \in c.state.acked
           \/ /\ XmitSeqLen(c) = 0 /\ Sent(c) = SendEnd(c)
              /\ "SYN" \in c.state.acked
  <1>1. /\ c \in Connection /\ TxQueueOK(c)
        /\ Sent(c) \in Nat /\ c.tx_pos \in Nat
        /\ TxLen(c) \in Nat /\ TxEnd(c) \in Nat
        /\ TxEnd(c) = c.tx_pos + TxLen(c)
        /\ c.tx_queue = <<>> => TxLen(c) = 0
    BY Zenon, SendTypes DEF ConnOK
  <1>2. /\ Sent(c) = One("SYN" \in c.state.acked) + c.tx_pos
                     + One("FIN" \in c.state.acked)
        /\ c.tx_pos > 0 => "SYN" \in c.state.acked
        /\ "FIN" \in c.state.sent => c.tx_queue = <<>>
    BY Zenon DEF SendingOK
  <1>3. SendEnd(c) = 1 + TxEnd(c) + One("FIN" \in c.state.sent)
    BY Zenon DEF SendEnd
  <1>4. /\ "SYN" \in c.state.sent
        /\ "FIN" \in c.state.sent => "SYN" \in c.state.acked
        /\ "FIN" \in c.state.acked => "FIN" \in c.state.sent
    BY Zenon DEF StateOK
  <1>5. CASE "SYN" \notin c.state.acked
    <2>1. XmitSeqLen(c) = 1
      BY Zenon, <1>1, <1>4, <1>5, XmitSeqLenValue
    <2>2. Sent(c) = 0 /\ SendEnd(c) = 1 + TxEnd(c)
      BY SMTT(30), <1>1, <1>2, <1>3, <1>4, <1>5 DEF One
    <2>3. Sent(c) < SendEnd(c)
      BY <1>1, <2>2
    <2>4. QED BY Zenon, <1>5, <2>1, <2>3
  <1>6. CASE "SYN" \in c.state.acked /\ "FIN" \in c.state.sent \ c.state.acked
    <2>1. ~TCP_CAN_SEND_DATA(c.state)
      BY Zenon, <1>6 DEF TCP_CAN_SEND_DATA
    <2>2. "FIN" \in TCP_FLAGS_SENDING(c.state) \cap {"SYN", "FIN"}
      BY <1>6 DEF TCP_FLAGS_SENDING
    <2>3. tcp_xmit_win(c) = 0 /\ TxLen(c) = 0
      BY Zenon, <1>1, <1>2, <1>6, <2>1 DEF tcp_xmit_win
    <2>4. XmitSeqLen(c) = 1
      BY <2>2, <2>3 DEF XmitSeqLen, Minimum
    <2>5. Sent(c) = 1 + c.tx_pos /\ SendEnd(c) = c.tx_pos + 2
      BY <1>1, <1>2, <1>3, <1>6, <2>3 DEF One
    <2>6. Sent(c) + 1 = SendEnd(c)
      BY <1>1, <2>5
    <2>7. QED BY Zenon, <1>6, <2>4, <2>6
  <1>7. CASE "SYN" \in c.state.acked /\ "FIN" \notin c.state.sent
    <2>1. TCP_CAN_SEND_DATA(c.state)
      BY Zenon, <1>7 DEF TCP_CAN_SEND_DATA
    <2>2. TCP_FLAGS_SENDING(c.state) \cap {"SYN", "FIN"} = {}
      BY <1>7 DEF TCP_FLAGS_SENDING
    <2>3. tcp_xmit_win(c) = Minimum(c.snd_win, TCP_PATH_MTU)
      BY Zenon, <2>1 DEF tcp_xmit_win
    <2>4. XmitSeqLen(c) = Minimum(tcp_xmit_win(c), TxLen(c))
      BY Zenon, <2>2 DEF XmitSeqLen
    <2>5. Sent(c) = 1 + c.tx_pos /\ SendEnd(c) = 1 + TxEnd(c)
      BY <1>1, <1>2, <1>3, <1>4, <1>7 DEF One
    <2>6. Sent(c) + TxLen(c) = SendEnd(c)
      BY <1>1, <2>5
    <2>7. QED BY Zenon, <1>7, <2>3, <2>4, <2>6
  <1>8. CASE "FIN" \in c.state.acked
    <2>1. "FIN" \in c.state.sent /\ "SYN" \in c.state.acked
      BY Zenon, <1>4, <1>8
    <2>2. XmitSeqLen(c) = 0
      <3>1. "FIN" \in c.state.sent \cap c.state.acked
        BY <1>8, <2>1
      <3>2. QED BY Zenon, <1>1, <2>1, <3>1, XmitSeqLenValue
    <2>3. TxLen(c) = 0
      BY Zenon, <1>1, <1>2, <2>1
    <2>4. Sent(c) = 2 + c.tx_pos /\ SendEnd(c) = c.tx_pos + 2
      BY SMTT(30), <1>1, <1>2, <1>3, <1>8, <2>1, <2>3 DEF One
    <2>5. Sent(c) = SendEnd(c)
      BY <1>1, <2>4
    <2>6. QED BY Zenon, <2>1, <2>2, <2>5
  <1>9. QED BY Zenon, <1>5, <1>6, <1>7, <1>8

(* A transmission attempt sends no more than there is. *)
LEMMA XmitSending ==
    ASSUME NEW c, ConnOK(c), StateOK(c.state), NEW n \in Nat, SendingOK(c, n),
           NEW env \in Environments
    PROVE  LET x == tcp_xmit_sack(c, env)
           IN  SendingOK(x.c, n) /\ x.c.tx_pos = c.tx_pos
  <1> DEFINE x == tcp_xmit_sack(c, env)
             d == x.c
  <1>1. c \in Connection /\ TxQueueOK(c)
    BY DEF ConnOK
  <1>2. /\ Same(c, d, XmitFields)
        /\ d.snd_sent = IF c.timer THEN c.snd_sent ELSE XmitSeqLen(c)
    BY Zenon, <1>1, XmitSack
  <1>3. Sent(c) + XmitSeqLen(c) <= SendEnd(c)
    <2>1. /\ Sent(c) \in Nat /\ TxLen(c) \in Nat /\ SendEnd(c) \in Nat
      BY Zenon, SendTypes
    <2>2. c.snd_win \in Nat /\ TCP_PATH_MTU \in Nat
      BY <1>1, ConnectionFields, TcpConnAssumption
    <2>3. Minimum(Minimum(c.snd_win, TCP_PATH_MTU), TxLen(c)) <= TxLen(c)
      BY <2>1, <2>2 DEF Minimum
    <2>4. Minimum(Minimum(c.snd_win, TCP_PATH_MTU), TxLen(c)) \in Nat
      BY <2>1, <2>2 DEF Minimum
    <2>5. QED BY <2>1, <2>3, <2>4, XmitSeqLenCases
  <1> HIDE DEF d
  <1>4. /\ d.snd_seq = c.snd_seq /\ d.tx_queue = c.tx_queue
        /\ d.tx_pos = c.tx_pos /\ d.state = c.state
    BY Zenon, <1>2 DEF Same, Fields, XmitFields
  <1>5. Sent(d) = Sent(c) /\ TxEnd(d) = TxEnd(c) /\ SendEnd(d) = SendEnd(c)
    BY Zenon, <1>4 DEF Sent, TxEnd, TxLen, SendEnd
  <1>6. Sent(d) + d.snd_sent <= SendEnd(d)
    BY Zenon, <1>2, <1>3, <1>5 DEF SendingOK
  <1>7. QED BY Zenon, <1>4, <1>5, <1>6 DEF SendingOK, d

(* A new buffer extends what is to be sent. *)
LEMMA QueuedSending ==
    ASSUME NEW c, ConnOK(c), c.listed, NEW n \in Nat, LiveOK(c, n),
           SendingOK(c, n), ~c.xfer_closed,
           NEW len \in Nat, len > 0, TxEnd(c) + len <= TxBytes
    PROVE  LET d == Queued(c, len)
           IN  SendingOK(d, n) /\ d.tx_pos = c.tx_pos
  <1> DEFINE e == TxEnd(c) + len
             d == Queued(c, len)
  <1>1. c \in Connection
    BY DEF ConnOK
  <1>2. /\ Sent(c) \in Nat /\ c.snd_sent \in Nat /\ c.tx_pos \in Nat
        /\ TxLen(c) \in Nat /\ TxEnd(c) \in Nat /\ SendEnd(c) \in Nat
    BY Zenon, SendTypes
  <1>3. ConnOK(d)
    BY Zenon, Deliver
  <1>4. /\ d.snd_seq = c.snd_seq /\ d.snd_sent = c.snd_sent
        /\ d.tx_pos = c.tx_pos /\ d.state = c.state
        /\ d.tx_queue = Append(c.tx_queue, e)
    BY Zenon, <1>1 DEF Queued, Connection
  <1>5. e \in Nat
    BY <1>2
  <1> HIDE DEF d, e
  <1>6. d.tx_queue # <<>> /\ d.tx_queue[Len(d.tx_queue)] = e
    <2> DEFINE q == c.tx_queue
    <2>1. q \in Seq(Nat)
      BY <1>1, ConnectionFields
    <2> HIDE DEF q
    <2>2. Append(q, e) # <<>> /\ Append(q, e)[Len(Append(q, e))] = e
      BY <1>5, <2>1
    <2>3. QED BY Zenon, <1>4, <2>2 DEF q
  <1>7. TxEnd(d) = e
    BY Zenon, <1>3, <1>6, TxEndValue DEF ConnOK
  <1>8. "FIN" \notin c.state.sent /\ "FIN" \notin d.state.sent
    BY Zenon, <1>4 DEF LiveOK
  <1>9. SendEnd(d) = 1 + e /\ SendEnd(c) = 1 + TxEnd(c)
    BY <1>2, <1>5, <1>7, <1>8 DEF SendEnd, One
  <1>10. Sent(d) = Sent(c)
    BY Zenon, <1>4 DEF Sent
  <1>11. Sent(d) + d.snd_sent <= SendEnd(d) /\ n <= SendEnd(d)
    <2>1. Sent(c) + c.snd_sent <= SendEnd(c) /\ n <= SendEnd(c)
      BY Zenon DEF SendingOK
    <2>2. e = TxEnd(c) + len
      BY DEF e
    <2>3. QED BY SMTT(30), <1>2, <1>4, <1>9, <1>10, <2>1, <2>2
  <1>12. TxEnd(d) <= TxBytes
    BY Zenon, <1>7 DEF e
  <1>13. QED BY Zenon, <1>4, <1>8, <1>10, <1>11, <1>12 DEF SendingOK, d

(* Whatever the application does, nothing is acknowledged by it. *)
LEMMA ReactSending ==
    ASSUME ShortUpload, NEW c, ConnOK(c), c.listed, NEW n \in Nat,
           LiveOK(c, n), SendingOK(c, n),
           NEW env \in Environments, NEW r \in Reactions(c)
    PROVE  LET x == React(c, r, env)
           IN  /\ x.c.tx_pos = c.tx_pos
               /\ x.c.listed => SendingOK(x.c, n)
  <1> DEFINE x == React(c, r, env)
  <1>1. c \in Connection /\ TxQueueOK(c) /\ c.xfer_closed \in BOOLEAN
    BY ConnectionFields DEF ConnOK
  <1>2. \/ r.op = "none" \/ r.op = "alloc" \/ r.op = "close"
        \/ /\ r.op = "send" /\ ~c.xfer_closed
           /\ r.len \in Nat /\ r.len > 0 /\ TxEnd(c) + r.len <= TxBytes
    <2>1. TxEnd(c) \in Nat /\ TxBytes \in Nat
      BY Zenon, SendTypes, TcpConnAssumption
    <2>2. TxBytes - TxEnd(c) \in Int
      BY <2>1
    <2>3. \/ r.op = "none" \/ r.op = "alloc" \/ r.op = "close"
          \/ r.op = "send" /\ ~c.xfer_closed /\ r.len \in 1..(TxBytes - TxEnd(c))
      BY <1>1, <2>2 DEF Reactions
    <2>4. r.len \in 1..(TxBytes - TxEnd(c)) =>
            r.len \in Nat /\ r.len > 0 /\ TxEnd(c) + r.len <= TxBytes
      BY <2>1, <2>2
    <2>5. QED BY Zenon, <2>3, <2>4
  <1>3. CASE r.op = "none"
    <2>1. x = Result(c, FALSE, FALSE)
      BY <1>3 DEF React
    <2>2. x.c = c
      BY <2>1 DEF Result
    <2> HIDE DEF x
    <2>3. QED BY Zenon, <2>2 DEF x
  <1>4. CASE r.op = "alloc"
    <2> DEFINE d == tcp_discard(c)
    <2>1. x = Result(d, FALSE, FALSE)
      BY <1>4 DEF React
    <2>2. x.c = d
      BY <2>1 DEF Result
    <2>3. Same(c, d, {"rx_queue"})
      BY Zenon, <1>1, Discard
    <2> HIDE DEF d, x
    <2>4. SendSame(c, d)
      BY Zenon, <2>3, SendSameFields
    <2>5. d.tx_pos = c.tx_pos
      BY Zenon, <2>4 DEF SendSame
    <2>6. QED BY Zenon, <2>2, <2>4, <2>5, SendingStays DEF x
  <1>5. CASE /\ r.op = "send" /\ ~c.xfer_closed
             /\ r.len \in Nat /\ r.len > 0 /\ TxEnd(c) + r.len <= TxBytes
    <2> DEFINE d == Queued(c, r.len)
    <2>1. x = tcp_xmit_sack(d, env)
      BY <1>5 DEF React, tcp_xfer_deliver, Queued
    <2>2. ConnOK(d) /\ d.state = c.state
      BY Zenon, <1>5, Deliver
    <2>3. SendingOK(d, n) /\ d.tx_pos = c.tx_pos
      BY Zenon, <1>5, QueuedSending
    <2> HIDE DEF d
    <2>4. StateOK(d.state)
      BY Zenon, <2>2 DEF LiveOK
    <2> DEFINE y == tcp_xmit_sack(d, env)
    <2>5. SendingOK(y.c, n) /\ y.c.tx_pos = d.tx_pos
      BY Zenon, <2>2, <2>3, <2>4, XmitSending
    <2> HIDE DEF y
    <2>6. x = y
      BY Zenon, <2>1 DEF y
    <2> HIDE DEF x
    <2>7. QED BY Zenon, <2>3, <2>5, <2>6 DEF x
  <1>6. CASE r.op = "close"
    <2> DEFINE d == tcp_close(c, "app")
               y == tcp_xmit_sack(d, env)
    <2>1. x = y
      BY <1>6 DEF React, tcp_xfer_close
    <2>2. "app" \in Reasons \ {"none"}
      BY DEF Reasons
    <2>3. ConnOK(d) /\ ("SYN" \notin c.state.rcvd => ~d.listed)
      BY Zenon, <2>2, CloseOK
    <2>4. /\ d.tx_pos = c.tx_pos
          /\ "SYN" \in c.state.rcvd => SendingOK(d, n)
      BY Zenon, <2>2, CloseSending
    <2>5. "SYN" \in c.state.rcvd => StateOK(d.state)
      <3>1. "SYN" \in c.state.rcvd => LiveOK(d, n)
        BY Zenon, <2>2, CloseLive
      <3> HIDE DEF d
      <3>2. QED BY Zenon, <3>1 DEF LiveOK
    <2> HIDE DEF d
    <2>6. d \in Connection /\ TxQueueOK(d)
      BY <2>3 DEF ConnOK
    <2>7. Same(d, y.c, XmitFields)
      BY Zenon, <2>6, XmitSack
    <2>8. "SYN" \in c.state.rcvd => SendingOK(y.c, n)
      BY Zenon, <2>3, <2>4, <2>5, XmitSending
    <2> HIDE DEF y, x
    <2>9. y.c.tx_pos = d.tx_pos /\ y.c.listed = d.listed
      BY Zenon, <2>7 DEF Same, Fields, XmitFields
    <2>10. QED BY Zenon, <2>1, <2>3, <2>4, <2>8, <2>9 DEF x
  <1>7. QED BY Zenon, <1>2, <1>3, <1>4, <1>5, <1>6

-----------------------------------------------------------------------------
(* The receive path, apart from acknowledgements and the FIN, leaves the   *)
(* sending side alone.                                                     *)
LEMMA ReceiveSendSame ==
    ASSUME NEW c \in Connection
    PROVE  /\ \A seg : LET d == RxForced(c, seg)
                       IN  SendSame(c, d) /\ d.snd_win = c.snd_win
           /\ \A seg \in Segments : LET d == tcp_rx_syn(c, seg)
                                    IN  SendSame(c, d) /\ d.snd_win = c.snd_win
           /\ \A seq, seg : LET d == tcp_rx_enqueue(c, seq, seg)
                            IN  SendSame(c, d) /\ d.snd_win = c.snd_win
           /\ LET d == [c EXCEPT !.rx_queue = Tail(@)]
              IN  SendSame(c, d) /\ d.snd_win = c.snd_win
           /\ \A q : LET d == tcp_rx_data(c, q)
                     IN  SendSame(c, d) /\ d.snd_win = c.snd_win
  <1>1. ASSUME NEW seg
        PROVE  LET d == RxForced(c, seg)
               IN  SendSame(c, d) /\ d.snd_win = c.snd_win
    BY Zenon DEF RxForced, SendSame, Connection
  <1>2. ASSUME NEW seq, NEW seg
        PROVE  LET d == tcp_rx_enqueue(c, seq, seg)
               IN  SendSame(c, d) /\ d.snd_win = c.snd_win
    <2> DEFINE d == tcp_rx_enqueue(c, seq, seg)
    <2>1. PICK queue : d = c \/ d = [c EXCEPT !.rx_queue = queue]
      BY Zenon DEF tcp_rx_enqueue
    <2> HIDE DEF d
    <2>2. QED BY Zenon, <2>1 DEF SendSame, Connection, d
  <1>3. LET d == [c EXCEPT !.rx_queue = Tail(@)]
        IN  SendSame(c, d) /\ d.snd_win = c.snd_win
    BY Zenon DEF SendSame, Connection
  <1>4. ASSUME NEW b \in Connection, NEW len
        PROVE  LET d == tcp_rx_seq(b, len)
               IN  SendSame(b, d) /\ d.snd_win = b.snd_win
    BY Zenon DEF tcp_rx_seq, SendSame, Connection
  <1>5. ASSUME NEW q
        PROVE  LET d == tcp_rx_data(c, q)
               IN  SendSame(c, d) /\ d.snd_win = c.snd_win
    <2> DEFINE d == tcp_rx_data(c, q)
               k == q.len - AlreadyRcvd(c, q)
               e == tcp_rx_seq(c, k)
    <2>1. d = c \/ d = e
      BY Zenon DEF tcp_rx_data
    <2>2. SendSame(c, e) /\ e.snd_win = c.snd_win
      BY Zenon, <1>4
    <2> HIDE DEF d, e
    <2>3. SendSame(c, c)
      BY Zenon DEF SendSame
    <2>4. QED BY Zenon, <2>1, <2>2, <2>3 DEF d
  <1>6. ASSUME NEW seg \in Segments
        PROVE  LET d == tcp_rx_syn(c, seg)
               IN  SendSame(c, d) /\ d.snd_win = c.snd_win
    <2> DEFINE first  == "SYN" \notin c.state.rcvd
               synced == IF first
                         THEN [c EXCEPT !.rcv_ack = seg.seq,
                                        !.sack_enabled = seg.spopt,
                                        !.rcv_scale = WindowScale]
                         ELSE c
               acked  == tcp_rx_seq(synced, 1)
               marked == [acked EXCEPT !.state.sent = @ \cup {"ACK"},
                                       !.state.rcvd = @ \cup {"SYN"}]
               d      == tcp_rx_syn(c, seg)
    <2>1. seg.seq \in SeqNo /\ seg.spopt \in BOOLEAN /\ 1 \in Nat
      BY DEF Segments
    <2>2. d = synced \/ d = marked
      BY Zenon DEF tcp_rx_syn
    <2> HIDE DEF d
    <2>3. /\ synced \in Connection /\ SendSame(c, synced)
          /\ synced.snd_win = c.snd_win
      <3>1. CASE first
        BY Zenon, <2>1, <3>1 DEF Connection, SendSame
      <3>2. CASE ~first
        BY ZenonT(30), <3>2 DEF SendSame
      <3>3. QED BY <3>1, <3>2
    <2> HIDE DEF synced
    <2>4. /\ acked \in Connection /\ SendSame(synced, acked)
          /\ acked.snd_win = synced.snd_win
      BY Zenon, <1>4, <2>1, <2>3, RxSeq
    <2> HIDE DEF acked
    <2>5. /\ Same(acked, marked, {"state"})
          /\ marked.state.acked = acked.state.acked
          /\ marked.state.sent = acked.state.sent \cup {"ACK"}
      BY Zenon, <2>4 DEF Connection, Same, Fields
    <2> HIDE DEF marked
    <2>6. SendSame(acked, marked) /\ marked.snd_win = acked.snd_win
      <3>1. "FIN" \in marked.state.sent <=> "FIN" \in acked.state.sent
        BY <2>5
      <3>2. QED BY Zenon, <2>5, <3>1 DEF SendSame, Same, Fields
    <2>7. QED BY Zenon, <2>2, <2>3, <2>4, <2>6 DEF SendSame, d
  <1>7. QED BY Zenon, <1>1, <1>2, <1>3, <1>5, <1>6

(* What tcp_rx does after the acknowledgement and before the queue. *)
LEMMA SyncedSendSame ==
    ASSUME NEW c, NEW seg \in Segments,
           ConnOK(RxAcked(c, seg)), RxAcked(c, seg).listed
    PROVE  /\ SendSame(RxAcked(c, seg), RxSynced(c, seg))
           /\ RxSynced(c, seg).snd_win = RxAcked(c, seg).snd_win
  <1> DEFINE a == RxAcked(c, seg)
             f == RxForced(a, seg)
             g == tcp_rx_syn(f, seg)
             d == RxSynced(c, seg)
  <1>1. d = g \/ d = f
    BY Zenon DEF RxSynced
  <1> HIDE DEF a, d
  <1>2. a \in Connection /\ ConnOK(f)
    BY Zenon, RxForcedOK DEF ConnOK, a
  <1>3. SendSame(a, f) /\ f.snd_win = a.snd_win /\ f \in Connection
    BY Zenon, <1>2, ReceiveSendSame DEF ConnOK
  <1> HIDE DEF f
  <1>4. SendSame(f, g) /\ g.snd_win = f.snd_win
    BY Zenon, <1>3, ReceiveSendSame
  <1> HIDE DEF g
  <1>5. SendSame(a, d) /\ d.snd_win = a.snd_win
    BY Zenon, <1>1, <1>3, <1>4 DEF SendSame
  <1>6. QED BY Zenon, <1>5 DEF a, d

(* The small changes of the timer callbacks, of the transmission process   *)
(* and of the end of tcp_rx concern no data that is sent.                  *)
LEMMA SmallSendSame ==
    ASSUME NEW c \in Connection
    PROVE  /\ \A b \in BOOLEAN : SendSame(c, [c EXCEPT !.process = b])
           /\ SendSame(c, [c EXCEPT !.ack_pending = TRUE])
           /\ SendSame(c, [c EXCEPT !.timer = FALSE, !.count = @ + 1])
           /\ \A b \in BOOLEAN : SendSame(c, [c EXCEPT !.wait = b])
  <1>1. \A b \in BOOLEAN : SendSame(c, [c EXCEPT !.process = b])
    BY Zenon DEF Connection, SendSame
  <1>2. SendSame(c, [c EXCEPT !.ack_pending = TRUE])
    BY Zenon DEF Connection, SendSame
  <1>3. SendSame(c, [c EXCEPT !.timer = FALSE, !.count = @ + 1])
    BY Zenon DEF Connection, SendSame
  <1>4. \A b \in BOOLEAN : SendSame(c, [c EXCEPT !.wait = b])
    BY Zenon DEF Connection, SendSame
  <1>5. QED BY Zenon, <1>1, <1>2, <1>3, <1>4

(* The FIN of the peer closes the connection. *)
LEMMA FinSending ==
    ASSUME ShortUpload, NEW c, ConnOK(c), c.listed, NEW n \in Nat,
           LiveOK(c, n), SendingOK(c, n), "SYN" \in c.state.rcvd, NEW seq
    PROVE  LET d == tcp_rx_fin(c, seq)
           IN  SendingOK(d, n) /\ d.tx_pos = c.tx_pos
  <1> DEFINE acked  == tcp_rx_seq(c, 1)
             marked == [acked EXCEPT !.state.rcvd = @ \cup {"FIN"}]
             d      == tcp_rx_fin(c, seq)
  <1>1. CASE seq # c.rcv_ack
    BY ZenonT(30), <1>1 DEF tcp_rx_fin
  <1>2. CASE seq = c.rcv_ack
    <2>1. d = tcp_close(marked, "ok")
      BY <1>2, Zenon DEF tcp_rx_fin
    <2> HIDE DEF d
    <2>2. /\ ConnOK(acked) /\ acked.listed /\ acked.state = c.state
          /\ LiveOK(acked, n)
      BY Zenon, RxSeqOK
    <2>3. SendingOK(acked, n) /\ acked.tx_pos = c.tx_pos
      <3>1. SendSame(c, acked)
        BY Zenon DEF tcp_rx_seq, SendSame, Connection, ConnOK
      <3> HIDE DEF acked
      <3>2. acked.tx_pos = c.tx_pos
        BY Zenon, <3>1 DEF SendSame
      <3>3. QED BY Zenon, <3>1, <3>2, SendingStays
    <2> HIDE DEF acked
    <2>4. acked \in Connection
      BY <2>2 DEF ConnOK
    <2>5. /\ marked \in Connection /\ Same(acked, marked, {"state"})
          /\ marked.state.acked = acked.state.acked
          /\ marked.state.sent = acked.state.sent
          /\ marked.state.rcvd = acked.state.rcvd \cup {"FIN"}
      BY Zenon, <2>4 DEF Connection, Same, Fields, Flags
    <2> HIDE DEF marked
    <2>6. n > 0
      BY Zenon DEF LiveOK
    <2>7. ConnOK(marked) /\ marked.listed /\ LiveOK(marked, n)
      BY ZenonT(30), <2>2, <2>5, <2>6, MarkReceived
    <2>8. SendSame(acked, marked)
      BY Zenon, <2>5 DEF SendSame, Same, Fields
    <2>9. SendingOK(marked, n) /\ marked.tx_pos = acked.tx_pos
      BY Zenon, <2>3, <2>8, SendingStays DEF SendSame
    <2>10. "SYN" \in marked.state.rcvd
      BY <2>2, <2>5
    <2>11. "ok" \in Reasons \ {"none"}
      BY DEF Reasons
    <2>12. QED BY Zenon, <2>1, <2>3, <2>7, <2>9, <2>10, <2>11, CloseSending DEF d
  <1>3. QED BY Zenon, <1>1, <1>2

(* The peer acknowledges only what it has received. *)
LEMMA PeerAcks ==
    ASSUME peer_rcv \in Nat, NEW seg \in PeerSegments, "ACK" \in seg.flags
    PROVE  \E k \in 1..peer_rcv : seg.ack = Add(ISS, k)
  <1>1. CASE seg \in SynSegments
    <2>1. PICK k \in {1} \cap 1..peer_rcv, w \in PeerWindows :
             seg = Segment({"SYN", "ACK"}, 0, 0, k, w)
      BY <1>1 DEF SynSegments, Segment
    <2>2. seg.ack = Add(ISS, k) /\ k \in 1..peer_rcv
      BY <2>1 DEF Segment
    <2>3. QED BY Zenon, <2>2
  <1>2. CASE seg \in DataSegments
    <2>1. PICK fin \in {{}, {"FIN"}}, u \in 1..(RxBytes + 2), len \in 0..RxBytes,
               k \in 1..peer_rcv, w \in PeerWindows :
             seg = Segment({"ACK"} \cup fin, u, len, k, w)
      BY <1>2 DEF DataSegments
    <2>2. seg.ack = Add(ISS, k)
      BY <2>1 DEF Segment
    <2>3. QED BY Zenon, <2>2
  <1>3. CASE seg \in ResetSegments
    <2>1. CASE \E k \in IF "SYN" \in tcp.state.rcvd THEN {}
                        ELSE {1} \cap 1..peer_rcv :
                 seg = [Segment({"RST", "ACK"}, 0, 0, k, 0) EXCEPT !.seq = 0]
      <3>1. PICK k \in IF "SYN" \in tcp.state.rcvd THEN {}
                       ELSE {1} \cap 1..peer_rcv :
               seg = [Segment({"RST", "ACK"}, 0, 0, k, 0) EXCEPT !.seq = 0]
        BY Zenon, <2>1
      <3>2. seg.ack = Add(ISS, k) /\ k \in 1..peer_rcv
        BY <3>1 DEF Segment
      <3>3. QED BY Zenon, <3>2
    <2>2. CASE \E u \in IF wire.est THEN 1..Minimum(wire.edge, RxBytes + 2)
                        ELSE {},
                  k \in 1..peer_rcv, w \in PeerWindows :
                 seg = Segment({"RST", "ACK"}, u, 0, k, w)
      <3>1. PICK u \in IF wire.est THEN 1..Minimum(wire.edge, RxBytes + 2)
                       ELSE {},
                 k \in 1..peer_rcv, w \in PeerWindows :
               seg = Segment({"RST", "ACK"}, u, 0, k, w)
        BY Zenon, <2>2
      <3>2. seg.ack = Add(ISS, k)
        BY <3>1 DEF Segment
      <3>3. QED BY Zenon, <3>2
    <2>3. QED BY <1>3, <2>1, <2>2 DEF ResetSegments
  <1>4. QED BY Zenon, <1>1, <1>2, <1>3 DEF PeerSegments

-----------------------------------------------------------------------------
(* The fifth invariant, for a peer that answers our SYN with a SYN that    *)
(* acknowledges it, and that never closes its window.                      *)

(* The peer's SYN came with the acknowledgement of ours, and its window is *)
(* open                                                                    *)
WindowOpen(c) ==
    /\ "SYN" \in c.state.rcvd => "SYN" \in c.state.acked
    /\ "SYN" \in c.state.acked => c.snd_win > 0

(* What there is to send has a running timer or a scheduled transmission *)
Scheduled(c) == XmitSeqLen(c) > 0 => c.timer \/ c.process

(* Everything these two depend on *)
WorkSame(c, d) ==
    /\ d.state = c.state /\ d.snd_win = c.snd_win
    /\ d.tx_queue = c.tx_queue /\ d.tx_pos = c.tx_pos

LEMMA WorkSameKeeps ==
    ASSUME NEW c, NEW d, WorkSame(c, d)
    PROVE  /\ XmitSeqLen(d) = XmitSeqLen(c)
           /\ WindowOpen(c) => WindowOpen(d)
           /\ Scheduled(c) /\ d.timer = c.timer /\ d.process = c.process
                => Scheduled(d)
  <1>1. TxLen(d) = TxLen(c) /\ tcp_xmit_win(d) = tcp_xmit_win(c)
    BY Zenon DEF WorkSame, TxLen, tcp_xmit_win
  <1>2. XmitSeqLen(d) = XmitSeqLen(c)
    BY Zenon, <1>1 DEF WorkSame, XmitSeqLen
  <1>3. QED BY Zenon, <1>2 DEF WorkSame, WindowOpen, Scheduled

(* Changes of other fields *)
LEMMA WorkSameFields ==
    ASSUME NEW c, NEW d, NEW F, Same(c, d, F),
           F \cap {"snd_win", "tx_queue", "tx_pos", "state"} = {}
    PROVE  WorkSame(c, d)
  <1>1. /\ "snd_win" \in Fields \ F /\ "tx_queue" \in Fields \ F
        /\ "tx_pos" \in Fields \ F /\ "state" \in Fields \ F
    BY DEF Fields
  <1>2. QED BY Zenon, <1>1 DEF Same, WorkSame

(* A transmission attempt that finds something to send leaves the timer    *)
(* running, whether or not the segment can be allocated and sent.          *)
LEMMA XmitTimer ==
    ASSUME NEW c \in Connection, NEW env \in Environments, TxQueueOK(c),
           XmitSeqLen(c) > 0
    PROVE  tcp_xmit_sack(c, env).c.timer
  <1> DEFINE seq_len == XmitSeqLen(c)
             sized   == [c EXCEPT !.snd_sent = seq_len, !.timer = seq_len > 0]
             alloced == IF env.fate = "squeezed" THEN tcp_discard(sized)
                        ELSE sized
             opened  == ExpandWindow(alloced, env.app_win)
             acked   == [opened EXCEPT !.ack_pending = FALSE]
             x       == tcp_xmit_sack(c, env)
  <1>1. seq_len \in Nat /\ env.app_win \in Nat /\ (seq_len > 0) = TRUE
    <2>1. seq_len \in Nat /\ env.app_win \in Nat
      BY Zenon, XmitLengths, TcpConnAssumption DEF Environments
    <2>2. (seq_len > 0) \in BOOLEAN
      OBVIOUS
    <2>3. QED BY Zenon, <2>1, <2>2
  <1>2. \/ c.timer /\ x = Result(c, FALSE, FALSE)
        \/ x = Result(sized, FALSE, FALSE)
        \/ x = Result(opened, TRUE, FALSE)
        \/ x = Result(acked, TRUE, TRUE)
    BY Zenon DEF tcp_xmit_sack
  <1> HIDE DEF seq_len, x
  <1>3. sized \in Connection /\ sized.timer
    BY Zenon, <1>1 DEF Connection
  <1> HIDE DEF sized
  <1>4. alloced \in Connection /\ alloced.timer
    <2> DEFINE d == tcp_discard(sized)
    <2>1. d \in Connection /\ Same(sized, d, {"rx_queue"})
      BY <1>3, Discard
    <2> HIDE DEF d
    <2>2. d.timer = sized.timer
      BY <2>1 DEF Same, Fields
    <2>3. alloced = d \/ alloced = sized
      BY Zenon DEF d
    <2> HIDE DEF alloced
    <2>4. QED BY Zenon, <1>3, <2>1, <2>2, <2>3
  <1> HIDE DEF alloced
  <1>5. opened \in Connection /\ opened.timer
    <2>1. opened \in Connection /\ Same(alloced, opened, {"rcv_win"})
      BY Zenon, <1>1, <1>4, Expand
    <2> HIDE DEF opened
    <2>2. opened.timer = alloced.timer
      BY <2>1 DEF Same, Fields
    <2>3. QED BY Zenon, <1>4, <2>1, <2>2
  <1> HIDE DEF opened
  <1>6. acked.timer
    BY Zenon, <1>5 DEF Connection
  <1> HIDE DEF acked
  <1>7. x.c.timer
    <2>1. /\ Result(c, FALSE, FALSE).c = c /\ Result(sized, FALSE, FALSE).c = sized
          /\ Result(opened, TRUE, FALSE).c = opened
          /\ Result(acked, TRUE, TRUE).c = acked
      BY Zenon, ResultParts
    <2>2. QED BY Zenon, <1>2, <1>3, <1>5, <1>6, <2>1
  <1>8. QED BY Zenon, <1>7 DEF x

(* So after it nothing is left without a timer. *)
LEMMA XmitWork ==
    ASSUME NEW c, ConnOK(c), NEW env \in Environments
    PROVE  LET x == tcp_xmit_sack(c, env)
           IN  Scheduled(x.c) /\ (WindowOpen(c) => WindowOpen(x.c))
  <1> DEFINE x == tcp_xmit_sack(c, env)
  <1>1. c \in Connection /\ TxQueueOK(c)
    BY DEF ConnOK
  <1>2. Same(c, x.c, XmitFields) /\ (XmitSeqLen(c) > 0 => x.c.timer)
    BY Zenon, <1>1, XmitSack, XmitTimer
  <1> HIDE DEF x
  <1>3. WorkSame(c, x.c)
    BY Zenon, <1>2, WorkSameFields DEF XmitFields
  <1>4. QED BY Zenon, <1>2, <1>3, WorkSameKeeps DEF Scheduled, x

(* Closing starts the transmission process when it starts the FIN. *)
LEMMA CloseWork ==
    ASSUME NEW c, ConnOK(c), c.listed, "SYN" \in c.state.rcvd, WindowOpen(c),
           NEW rc \in Reasons \ {"none"}
    PROVE  LET d == tcp_close(c, rc)
           IN  WindowOpen(d) /\ (Scheduled(c) => Scheduled(d))
  <1> DEFINE why      == Reason(c, rc)
             closed   == [c EXCEPT !.xfer_closed = TRUE, !.rc = why]
             quiet    == [closed EXCEPT !.keepalive = FALSE]
             finished == StartFin(quiet)
             proc     == quiet.process \/ finished # quiet
             d        == tcp_close(c, rc)
  <1>1. c \in Connection /\ "SYN" \in c.state.acked
    BY Zenon DEF ConnOK, WindowOpen
  <1>2. d = [finished EXCEPT !.process = proc]
    BY Zenon, <1>1 DEF tcp_close, Reason
  <1> HIDE DEF d
  <1>3. why \in Reasons
    BY <1>1, ConnectionFields DEF Reason
  <1> HIDE DEF why
  <1>4. /\ quiet \in Connection
        /\ Same(c, quiet, {"xfer_closed", "rc", "keepalive"})
    BY Zenon, <1>1, <1>3 DEF Connection, Same, Fields
  <1> HIDE DEF quiet
  <1>5. /\ finished \in Connection
        /\ Same(quiet, finished, {"state", "pending_flags"})
        /\ finished.state.acked = quiet.state.acked
        /\ finished.state.rcvd = quiet.state.rcvd
    BY Zenon, <1>4, StartFinEffect
  <1> HIDE DEF finished
  <1>6. proc \in BOOLEAN
    BY <1>4, ConnectionFields
  <1>7. /\ Same(finished, d, {"process"}) /\ d.process = proc
    BY Zenon, <1>2, <1>5, <1>6 DEF Connection, Same, Fields
  <1>8. WorkSame(c, quiet) /\ quiet.timer = c.timer /\ quiet.process = c.process
    BY Zenon, <1>4 DEF Same, Fields, WorkSame
  <1>9. WorkSame(finished, d) /\ d.timer = finished.timer
    BY Zenon, <1>7 DEF Same, Fields, WorkSame
  <1>10. WindowOpen(finished)
    <2>1. finished.snd_win = quiet.snd_win
      BY Zenon, <1>5 DEF Same, Fields
    <2>2. WindowOpen(quiet)
      BY Zenon, <1>8, WorkSameKeeps
    <2>3. QED BY Zenon, <1>5, <2>1, <2>2 DEF WindowOpen
  <1>11. WindowOpen(d)
    BY Zenon, <1>9, <1>10, WorkSameKeeps
  <1>12. ASSUME Scheduled(c) PROVE Scheduled(d)
    <2>1. CASE finished # quiet
      BY Zenon, <1>7, <2>1 DEF Scheduled
    <2>2. CASE finished = quiet
      <3>1. Scheduled(quiet)
        BY Zenon, <1>8, <1>12, WorkSameKeeps
      <3>2. d.process = quiet.process
        <4>1. quiet.process \in BOOLEAN
          BY <1>4, ConnectionFields
        <4>2. QED BY Zenon, <1>7, <2>2, <4>1
      <3>3. QED BY Zenon, <1>9, <2>2, <3>1, <3>2, WorkSameKeeps
    <2>3. QED BY Zenon, <2>1, <2>2
  <1>13. QED BY Zenon, <1>11, <1>12 DEF d

(* Whatever the application does, what it sends or closes is attempted at  *)
(* once.                                                                   *)
LEMMA ReactWork ==
    ASSUME NEW c, ConnOK(c), c.listed, WindowOpen(c),
           NEW env \in Environments, NEW r \in Reactions(c)
    PROVE  LET x == React(c, r, env)
           IN  /\ x.c.listed => WindowOpen(x.c)
               /\ x.c.listed /\ Scheduled(c) => Scheduled(x.c)
  <1> DEFINE x == React(c, r, env)
  <1>1. c \in Connection /\ TxQueueOK(c) /\ c.xfer_closed \in BOOLEAN
    BY ConnectionFields DEF ConnOK
  <1>2. \/ r.op = "none" \/ r.op = "alloc" \/ r.op = "close"
        \/ /\ r.op = "send" /\ ~c.xfer_closed
           /\ r.len \in Nat /\ r.len > 0
    <2>1. TxEnd(c) \in Nat /\ TxBytes \in Nat
      BY Zenon, SendTypes, TcpConnAssumption
    <2>2. TxBytes - TxEnd(c) \in Int
      BY <2>1
    <2>3. \/ r.op = "none" \/ r.op = "alloc" \/ r.op = "close"
          \/ r.op = "send" /\ ~c.xfer_closed /\ r.len \in 1..(TxBytes - TxEnd(c))
      BY <1>1 DEF Reactions
    <2>4. QED BY <2>2, <2>3
  <1>3. CASE r.op = "none"
    <2>1. x.c = c
      BY <1>3 DEF React, Result
    <2> HIDE DEF x
    <2>2. QED BY Zenon, <2>1 DEF x
  <1>4. CASE r.op = "alloc"
    <2> DEFINE d == tcp_discard(c)
    <2>1. x.c = d
      BY <1>4 DEF React, Result
    <2>2. Same(c, d, {"rx_queue"})
      BY Zenon, <1>1, Discard
    <2> HIDE DEF x, d
    <2>3. WorkSame(c, d) /\ d.timer = c.timer /\ d.process = c.process
      BY Zenon, <2>2 DEF Same, Fields, WorkSame
    <2>4. QED BY Zenon, <2>1, <2>3, WorkSameKeeps DEF x
  <1>5. CASE r.op = "send" /\ ~c.xfer_closed /\ r.len \in Nat /\ r.len > 0
    <2> DEFINE d == Queued(c, r.len)
               y == tcp_xmit_sack(d, env)
    <2>1. x = y
      BY Zenon, <1>5 DEF React, tcp_xfer_deliver, Queued
    <2>2. ConnOK(d) /\ d.state = c.state
      BY Zenon, <1>5, Deliver
    <2>3. d.snd_win = c.snd_win
      BY Zenon, <1>1 DEF Queued, Connection
    <2> HIDE DEF d
    <2>4. WindowOpen(d)
      BY Zenon, <2>2, <2>3 DEF WindowOpen
    <2>5. Scheduled(y.c) /\ WindowOpen(y.c)
      BY Zenon, <2>2, <2>4, XmitWork
    <2> HIDE DEF x, y
    <2>6. QED BY Zenon, <2>1, <2>5 DEF x
  <1>6. CASE r.op = "close"
    <2> DEFINE d == tcp_close(c, "app")
               y == tcp_xmit_sack(d, env)
    <2>1. x = y
      BY Zenon, <1>6 DEF React, tcp_xfer_close
    <2>2. "app" \in Reasons \ {"none"}
      BY DEF Reasons
    <2>3. ConnOK(d) /\ ("SYN" \notin c.state.rcvd => ~d.listed)
      BY Zenon, <2>2, CloseOK
    <2>4. "SYN" \in c.state.rcvd => WindowOpen(d)
      BY Zenon, <2>2, CloseWork
    <2> HIDE DEF d
    <2>5. Scheduled(y.c) /\ (WindowOpen(d) => WindowOpen(y.c))
      BY Zenon, <2>3, XmitWork
    <2>6. y.c.listed = d.listed
      BY Zenon, <2>3, XmitKeeps DEF ConnOK
    <2> HIDE DEF x, y
    <2>7. QED BY Zenon, <2>1, <2>3, <2>4, <2>5, <2>6 DEF x
  <1>7. QED BY Zenon, <1>2, <1>3, <1>4, <1>5, <1>6

(* The FIN of the peer closes the connection. *)
LEMMA FinWork ==
    ASSUME NEW c, ConnOK(c), c.listed, "SYN" \in c.state.rcvd, NEW n \in Nat,
           LiveOK(c, n), WindowOpen(c), NEW seq
    PROVE  WindowOpen(tcp_rx_fin(c, seq))
  <1> DEFINE acked  == tcp_rx_seq(c, 1)
             marked == [acked EXCEPT !.state.rcvd = @ \cup {"FIN"}]
             d      == tcp_rx_fin(c, seq)
  <1>1. CASE seq # c.rcv_ack
    BY ZenonT(30), <1>1 DEF tcp_rx_fin
  <1>2. CASE seq = c.rcv_ack
    <2>1. d = tcp_close(marked, "ok")
      BY <1>2, Zenon DEF tcp_rx_fin
    <2> HIDE DEF d
    <2>2. /\ ConnOK(acked) /\ acked.listed /\ acked.state = c.state
          /\ LiveOK(acked, n)
      BY Zenon, RxSeqOK
    <2>3. acked.snd_win = c.snd_win
      BY Zenon DEF tcp_rx_seq, Connection, ConnOK
    <2> HIDE DEF acked
    <2>4. acked \in Connection
      BY <2>2 DEF ConnOK
    <2>5. /\ marked \in Connection /\ Same(acked, marked, {"state"})
          /\ marked.state.acked = acked.state.acked
          /\ marked.state.sent = acked.state.sent
          /\ marked.state.rcvd = acked.state.rcvd \cup {"FIN"}
      BY Zenon, <2>4 DEF Connection, Same, Fields, Flags
    <2> HIDE DEF marked
    <2>6. n > 0
      BY Zenon DEF LiveOK
    <2>7. ConnOK(marked) /\ marked.listed
      BY ZenonT(30), <2>2, <2>5, <2>6, MarkReceived
    <2>8. marked.snd_win = acked.snd_win
      BY Zenon, <2>5 DEF Same, Fields
    <2>9. "SYN" \in marked.state.rcvd
      BY <2>2, <2>5
    <2>10. WindowOpen(marked)
      BY Zenon, <2>2, <2>3, <2>5, <2>8 DEF WindowOpen
    <2>11. "ok" \in Reasons \ {"none"}
      BY DEF Reasons
    <2>12. QED BY Zenon, <2>1, <2>7, <2>9, <2>10, <2>11, CloseWork DEF d
  <1>3. QED BY Zenon, <1>1, <1>2

(* The small changes of the timer callbacks, of the transmission process   *)
(* and of the end of tcp_rx give nothing to send.                          *)
LEMMA SmallWorkSame ==
    ASSUME NEW c \in Connection
    PROVE  /\ \A b \in BOOLEAN : WorkSame(c, [c EXCEPT !.process = b])
           /\ WorkSame(c, [c EXCEPT !.ack_pending = TRUE])
           /\ WorkSame(c, [c EXCEPT !.timer = FALSE, !.count = @ + 1])
           /\ \A b \in BOOLEAN :
                LET d == [c EXCEPT !.wait = b]
                IN  /\ WorkSame(c, d) /\ d.timer = c.timer
                    /\ d.process = c.process
  <1>1. \A b \in BOOLEAN : WorkSame(c, [c EXCEPT !.process = b])
    BY Zenon DEF Connection, WorkSame
  <1>2. WorkSame(c, [c EXCEPT !.ack_pending = TRUE])
    BY Zenon DEF Connection, WorkSame
  <1>3. WorkSame(c, [c EXCEPT !.timer = FALSE, !.count = @ + 1])
    BY Zenon DEF Connection, WorkSame
  <1>4. \A b \in BOOLEAN :
          LET d == [c EXCEPT !.wait = b]
          IN  WorkSame(c, d) /\ d.timer = c.timer /\ d.process = c.process
    BY Zenon DEF Connection, WorkSame
  <1>5. QED BY Zenon, <1>1, <1>2, <1>3, <1>4

(* Every segment of such a peer acknowledges something: our SYN, until the *)
(* connection is established.  Only a refusal comes without a window.      *)
LEMMA PeerWindow ==
    ASSUME PeerSyn = "never", 0 \notin PeerWindows, NEW seg \in PeerSegments,
           peer_rcv \in Nat
    PROVE  /\ "ACK" \in seg.flags
           /\ wire.est \/ (peer_rcv > 0 /\ seg.ack = Add(ISS, 1))
           /\ \/ seg.win > 0
              \/ /\ "RST" \in seg.flags /\ "SYN" \notin seg.flags
                 /\ "SYN" \notin tcp.state.rcvd
  <1>1. \A w \in PeerWindows : w > 0
    BY TcpAssumption
  <1>2. CASE seg \in SynSegments
    <2>1. PICK k \in {1} \cap 1..peer_rcv, w \in PeerWindows :
             seg = Segment({"SYN", "ACK"}, 0, 0, k, w)
      BY <1>2 DEF SynSegments, Segment
    <2>2. seg.ack = Add(ISS, k) /\ seg.win = w /\ seg.flags = {"SYN", "ACK"}
      BY <2>1 DEF Segment
    <2>3. k = 1 /\ peer_rcv > 0
      BY <2>1
    <2>4. QED BY <1>1, <2>2, <2>3
  <1>3. CASE seg \in DataSegments
    <2>1. PICK fin \in {{}, {"FIN"}}, u \in 1..(RxBytes + 2), len \in 0..RxBytes,
               k \in 1..peer_rcv, w \in PeerWindows :
             seg = Segment({"ACK"} \cup fin, u, len, k, w)
      BY <1>3 DEF DataSegments
    <2>2. seg.win = w /\ seg.flags = {"ACK"} \cup fin
      BY <2>1 DEF Segment
    <2>3. wire.est
      BY <1>3 DEF DataSegments
    <2>4. QED BY <1>1, <2>2, <2>3
  <1>4. CASE seg \in ResetSegments
    <2>1. CASE \E k \in IF "SYN" \in tcp.state.rcvd THEN {}
                        ELSE {1} \cap 1..peer_rcv :
                 seg = [Segment({"RST", "ACK"}, 0, 0, k, 0) EXCEPT !.seq = 0]
      <3>1. PICK k \in IF "SYN" \in tcp.state.rcvd THEN {}
                       ELSE {1} \cap 1..peer_rcv :
               seg = [Segment({"RST", "ACK"}, 0, 0, k, 0) EXCEPT !.seq = 0]
        BY Zenon, <2>1
      <3>2. seg.ack = Add(ISS, k) /\ seg.flags = {"RST", "ACK"}
        BY <3>1 DEF Segment
      <3>3. k = 1 /\ peer_rcv > 0 /\ "SYN" \notin tcp.state.rcvd
        BY <3>1
      <3>4. QED BY <3>2, <3>3
    <2>2. CASE \E u \in IF wire.est THEN 1..Minimum(wire.edge, RxBytes + 2)
                        ELSE {},
                  k \in 1..peer_rcv, w \in PeerWindows :
                 seg = Segment({"RST", "ACK"}, u, 0, k, w)
      <3>1. PICK u \in IF wire.est THEN 1..Minimum(wire.edge, RxBytes + 2)
                       ELSE {},
                 k \in 1..peer_rcv, w \in PeerWindows :
               seg = Segment({"RST", "ACK"}, u, 0, k, w)
        BY Zenon, <2>2
      <3>2. seg.win = w /\ seg.flags = {"RST", "ACK"}
        BY <3>1 DEF Segment
      <3>3. wire.est
        BY <3>1
      <3>4. QED BY <1>1, <3>2, <3>3
    <2>3. QED BY <1>4, <2>1, <2>2 DEF ResetSegments
  <1>5. QED BY Zenon, <1>2, <1>3, <1>4 DEF PeerSegments

(* The window is taken from every acknowledgement in range. *)
LEMMA AckWindow ==
    ASSUME NEW c, ConnOK(c), c.listed, NEW ack \in SeqNo, NEW win \in Nat
    PROVE  LET d == tcp_rx_ack(c, ack, win)
           IN  /\ AckOutOfRange(c, ack) => d = c
               /\ ~AckOutOfRange(c, ack) => d.snd_win = win
               /\ c.state.acked \subseteq d.state.acked
               /\ /\ ~AckOutOfRange(c, ack) /\ Sub(ack, c.snd_seq) > 0
                  /\ "SYN" \in c.state.sent
                  => "SYN" \in d.state.acked
  <1> DEFINE ack_len == Sub(ack, c.snd_seq)
             k       == c.keepalive \/ "FIN" \notin c.state.sent
             heard   == [c EXCEPT !.snd_win = win, !.keepalive = k]
             f       == TCP_FLAGS_SENDING(c.state) \cap {"SYN", "FIN"}
             p       == IF f # {} THEN pending_put(c.pending_flags)
                        ELSE c.pending_flags
             timed   == stop_timer(heard)
             stopped == [timed EXCEPT !.pending_flags = p, !.snd_seq = ack,
                                      !.snd_sent = 0]
             len     == IF f # {} THEN ack_len - 1 ELSE ack_len
             drained == tcp_process_tx_queue(stopped, len)
             g       == c.state.acked \cup f
             acked   == [drained EXCEPT !.state.acked = g]
             d       == tcp_rx_ack(c, ack, win)
  <1>1. c \in Connection /\ c.keepalive \in BOOLEAN
    BY ConnectionFields DEF ConnOK
  <1>2. /\ ack_len \in Nat /\ ISS \in SeqNo
    <2>1. c.snd_seq \in SeqNo
      BY <1>1, ConnectionFields
    <2>2. ack_len \in SeqNo
      BY Zenon, <2>1, SeqValues
    <2>3. QED BY <2>2, TcpConnAssumption DEF SeqNo
  <1>3. CASE AckOutOfRange(c, ack)
    <2>1. d = c
      BY Zenon, <1>3 DEF tcp_rx_ack
    <2> HIDE DEF d
    <2>2. QED BY Zenon, <1>3, <2>1 DEF d
  <1>4. CASE ~AckOutOfRange(c, ack) /\ ack_len = 0
    <2>1. d = heard
      BY Zenon, <1>4 DEF tcp_rx_ack
    <2>2. k \in BOOLEAN
      BY <1>1
    <2> HIDE DEF d, k
    <2>3. heard.snd_win = win /\ heard.state = c.state
      BY Zenon, <1>1, <2>2 DEF Connection
    <2> HIDE DEF heard
    <2>4. ~(ack_len > 0)
      BY <1>4
    <2>5. QED BY Zenon, <1>4, <2>1, <2>3, <2>4 DEF d
  <1>5. CASE ~AckOutOfRange(c, ack) /\ ack_len > 0
    <2>1. AckEffect(c, ack, d)
      BY Zenon, <1>5, RxAckEffect
    <2>2. d.state.acked = c.state.acked \cup f
      BY Zenon, <2>1 DEF AckEffect
    <2>3. c.state.acked \subseteq d.state.acked
          /\ ("SYN" \in c.state.sent => "SYN" \in d.state.acked)
      <3> HIDE DEF d
      <3>1. QED BY <2>2 DEF TCP_FLAGS_SENDING
    <2>4. d.snd_win = win
      <3>1. ack_len # 0
        BY <1>5
      <3>2. d = StartFin(acked) \/ d = acked
        BY Zenon, <1>5, <3>1 DEF tcp_rx_ack
      <3> HIDE DEF d, f, p, len, ack_len, g
      <3>3. k \in BOOLEAN
        BY <1>1
      <3> HIDE DEF k
      <3>4. heard \in Connection /\ heard.snd_win = win
        BY Zenon, <1>1, <3>3 DEF Connection
      <3> HIDE DEF heard
      <3>5. timed.snd_win = win /\ DOMAIN timed = DOMAIN heard
        BY Zenon, <3>4 DEF stop_timer, Connection
      <3>6. DOMAIN heard = Fields
        BY Zenon, <3>4 DEF Connection, Fields
      <3> HIDE DEF timed
      <3>7. stopped.snd_win = win /\ DOMAIN stopped = Fields
        BY Zenon, <3>5, <3>6 DEF Fields
      <3> HIDE DEF stopped
      <3>8. drained.snd_win = win /\ DOMAIN drained = Fields
        BY Zenon, <3>7 DEF tcp_process_tx_queue, Fields
      <3> HIDE DEF drained
      <3>9. acked.snd_win = win /\ DOMAIN acked = Fields
        BY Zenon, <3>8 DEF Fields
      <3> HIDE DEF acked
      <3>10. StartFin(acked).snd_win = win
        BY Zenon, <3>9 DEF StartFin, Fields
      <3>11. QED BY Zenon, <3>2, <3>9, <3>10
    <2> HIDE DEF d
    <2>5. QED BY Zenon, <1>5, <2>3, <2>4 DEF d
  <1>6. ack_len = 0 \/ ack_len > 0
    BY <1>2
  <1>7. QED BY Zenon, <1>3, <1>4, <1>5, <1>6

-----------------------------------------------------------------------------
(* What is told to the network lies within what is to be sent. *)
LEMMA NxtSending ==
    ASSUME wire \in Wire, NEW x, ConnOK(x.c), SendingOK(x.c, wire.nxt),
           NEW seq, Transmitted(x, seq)
    PROVE  SendingOK(x.c, wire'.nxt)
  <1>1. CASE ~x.sent
    <2>1. wire' = wire
      BY Zenon, <1>1 DEF Transmitted
    <2>2. QED BY Zenon, <2>1
  <1>2. CASE x.sent
    <2> DEFINE c == x.c
               e == Sent(c) + c.snd_sent
    <2>1. wire'.nxt = Maximum(wire.nxt, e)
      BY <1>2 DEF Transmitted, Advertise, Sent
    <2>2. wire'.nxt = wire.nxt \/ wire'.nxt = e
      BY Zenon, <2>1 DEF Maximum
    <2> HIDE DEF c
    <2>3. e <= SendEnd(c) /\ SendingOK(c, wire.nxt)
      BY Zenon DEF SendingOK, c
    <2> HIDE DEF e
    <2>4. SendingOK(c, wire'.nxt)
      BY Zenon, <2>2, <2>3 DEF SendingOK
    <2>5. QED BY Zenon, <2>4 DEF c
  <1>3. QED BY Zenon, <1>1, <1>2

(* A step of a listed connection in which the peer acknowledges nothing. *)
LEMMA UploadStays ==
    ASSUME UploadInv, StateInv', tcp.listed, peer_rcv' = peer_rcv,
           tcp'.tx_pos = tcp.tx_pos,
           tcp'.listed => SendingOK(tcp', wire'.nxt),
           ~tcp'.listed => tcp'.rc # "none"
    PROVE  UploadInv'
  BY Zenon DEF UploadInv

(* One that ends in a transmission attempt is such a step *)
LEMMA UploadXmit ==
    ASSUME UploadInv, StateInv', tcp.listed, peer_rcv' = peer_rcv, NEW d,
           Kept(tcp, d), SendSame(tcp, d),
           NEW env \in Environments, Transmit(tcp_xmit_sack(d, env))
    PROVE  UploadInv'
  <1> DEFINE x == tcp_xmit_sack(d, env)
             n == wire.nxt
  <1>1. /\ wire \in Wire /\ ConnOK(d) /\ LiveOK(tcp, n) /\ SendingOK(tcp, n)
    BY Zenon DEF UploadInv, StateInv, QuietInv, TypeOK, Wire, Kept
  <1>2. n \in Nat
    BY <1>1 DEF Wire
  <1>3. StateOK(d.state) /\ SendingOK(d, n) /\ d.tx_pos = tcp.tx_pos /\ d.listed
    BY Zenon, <1>1, SendingStays DEF LiveOK, Kept, SendSame
  <1>4. SendingOK(x.c, n) /\ x.c.tx_pos = d.tx_pos
    BY Zenon, <1>1, <1>2, <1>3, XmitSending
  <1>5. x.c.listed
    BY Zenon, <1>1, <1>3, XmitKeeps DEF ConnOK
  <1>6. tcp' = x.c /\ Transmitted(x, x.c.rcv_ack)
    BY Zenon DEF Transmit
  <1> HIDE DEF x
  <1>7. ConnOK(x.c)
    BY Zenon, <1>6 DEF StateInv, QuietInv
  <1>8. SendingOK(x.c, wire'.nxt)
    BY Zenon, <1>1, <1>4, <1>6, <1>7, NxtSending DEF n
  <1>9. QED BY Zenon, <1>3, <1>4, <1>5, <1>6, <1>8, UploadStays

(* and so is a step of the application *)
LEMMA UploadReact ==
    ASSUME ShortUpload, UploadInv, StateInv', tcp.listed, peer_rcv' = peer_rcv,
           NEW env \in Environments, NEW r \in Reactions(tcp),
           Transmit(React(tcp, r, env))
    PROVE  UploadInv'
  <1> DEFINE x == React(tcp, r, env)
             n == wire.nxt
  <1>1. wire \in Wire /\ ConnOK(tcp) /\ LiveOK(tcp, n) /\ SendingOK(tcp, n)
    BY Zenon DEF UploadInv, StateInv, QuietInv, TypeOK, Wire
  <1>2. n \in Nat
    BY <1>1 DEF Wire
  <1>3. x.c.tx_pos = tcp.tx_pos /\ (x.c.listed => SendingOK(x.c, n))
    BY Zenon, <1>1, <1>2, ReactSending
  <1>4. ConnOK(x.c) /\ (x.c.rc = "none" => x.c.listed)
    BY Zenon, <1>1, ReactOK
  <1>5. tcp' = x.c /\ Transmitted(x, x.c.rcv_ack)
    BY Zenon DEF Transmit
  <1> HIDE DEF x
  <1>6. x.c.listed => SendingOK(x.c, wire'.nxt)
    BY Zenon, <1>1, <1>3, <1>4, <1>5, NxtSending DEF n
  <1>7. QED BY Zenon, <1>3, <1>4, <1>5, <1>6, UploadStays

(* An acknowledgement of the peer's removes only what it has received. *)
LEMMA RxAckedSending ==
    ASSUME ShortUpload, UploadInv, tcp.listed, NEW seg \in PeerSegments,
           seg \in Segments
    PROVE  LET d == RxAcked(tcp, seg)
           IN  /\ ConnOK(d) /\ d.listed /\ SendingOK(d, wire.nxt)
               /\ d.tx_pos > 0 => d.tx_pos < peer_rcv
  <1> DEFINE n == wire.nxt
             d == RxAcked(tcp, seg)
  <1>1. /\ ConnOK(tcp) /\ LiveOK(tcp, n) /\ SendingOK(tcp, n)
        /\ wire \in Wire /\ peer_rcv \in Nat /\ peer_rcv <= n
        /\ tcp.tx_pos > 0 => tcp.tx_pos < peer_rcv
    BY Zenon DEF UploadInv, StateInv, QuietInv, TypeOK, Wire
  <1>2. n \in Nat /\ seg.ack \in SeqNo /\ seg.win \in Nat /\ ISS \in SeqNo
    BY <1>1, TcpConnAssumption DEF Wire, Segments
  <1>3. CASE "ACK" \notin seg.flags
    <2>1. d = tcp
      BY <1>3 DEF RxAcked
    <2> HIDE DEF d
    <2>2. QED BY Zenon, <1>1, <2>1 DEF d
  <1>4. CASE "ACK" \in seg.flags
    <2> DEFINE y == tcp_rx_ack(tcp, seg.ack, seg.win)
    <2>1. d = y
      BY <1>4 DEF RxAcked
    <2>2. PICK k \in 1..peer_rcv : seg.ack = Add(ISS, k)
      BY Zenon, <1>1, <1>4, PeerAcks
    <2>3. k \in Nat /\ k > 0 /\ k <= peer_rcv /\ n > 0 /\ k <= n
      BY <1>1, <1>2
    <2>4. ConnOK(y) /\ Same(tcp, y, AckFields)
      BY Zenon, <1>1, <1>2, RxAckOK
    <2>5. SendingOK(y, n) /\ (y.tx_pos # tcp.tx_pos => y.snd_seq = seg.ack)
      BY ZenonT(40), <1>1, <1>2, <2>3, AckSending
    <2> HIDE DEF d, y
    <2>6. y.listed
      BY Zenon, <2>4 DEF Same, Fields, AckFields
    <2>7. ASSUME y.tx_pos > 0 PROVE y.tx_pos < peer_rcv
      <3>1. CASE y.tx_pos = tcp.tx_pos
        BY Zenon, <1>1, <2>7, <3>1
      <3>2. CASE y.tx_pos # tcp.tx_pos
        <4>1. k \in SeqNo
          <5>1. n <= SendEnd(y) /\ TxEnd(y) <= TxBytes
            BY Zenon, <2>5 DEF SendingOK
          <5>2. SendEnd(y) = 1 + TxEnd(y) + One("FIN" \in y.state.sent)
            BY Zenon DEF SendEnd
          <5>3. One("FIN" \in y.state.sent) \in {0, 1}
            BY DEF One
          <5>4. TxEnd(y) \in Nat /\ SendEnd(y) \in Nat
            BY Zenon, <2>4, SendTypes
          <5>5. TxBytes + 2 < SeqSpace /\ TxBytes \in Nat /\ SeqSpace \in Nat
            BY TcpConnAssumption, SeqSpaceAssumption DEF ShortUpload
          <5>6. SendEnd(y) <= TxBytes + 2
            BY <5>1, <5>2, <5>3, <5>4, <5>5
          <5>7. QED BY SMTT(30), <1>2, <2>3, <5>1, <5>4, <5>5, <5>6 DEF SeqNo
        <4>2. Sent(y) = k
          <5>1. Sub(Add(ISS, k), ISS) = k
            BY Zenon, <1>2, <4>1, SeqDistance
          <5>2. QED BY Zenon, <2>2, <2>5, <3>2, <5>1 DEF Sent
        <4>3. /\ Sent(y) = One("SYN" \in y.state.acked) + y.tx_pos
                           + One("FIN" \in y.state.acked)
              /\ "SYN" \in y.state.acked
          BY Zenon, <2>5, <2>7 DEF SendingOK
        <4>4. One("SYN" \in y.state.acked) = 1
          BY Zenon, <4>3 DEF One
        <4>5. One("FIN" \in y.state.acked) \in {0, 1} /\ y.tx_pos \in Nat
          <5>1. One("FIN" \in y.state.acked) \in {0, 1}
            BY DEF One
          <5>2. QED BY Zenon, <2>4, <5>1, SendTypes
        <4>6. k = 1 + y.tx_pos + One("FIN" \in y.state.acked)
          BY Zenon, <4>2, <4>3, <4>4
        <4>7. y.tx_pos < k
          BY <2>3, <4>5, <4>6
        <4>8. QED BY <1>1, <2>3, <4>5, <4>7
      <3>3. QED BY Zenon, <3>1, <3>2
    <2>8. QED BY Zenon, <2>1, <2>4, <2>5, <2>6, <2>7 DEF d
  <1>5. QED BY Zenon, <1>3, <1>4

(* tcp_rx removes only what the peer has received. *)
LEMMA UploadRx ==
    ASSUME ShortUpload, UploadInv, StateInv', NEW seg \in PeerSegments,
           tcp_rx(seg)
    PROVE  UploadInv'
  <1> DEFINE a      == RxAcked(tcp, seg)
             synced == RxSynced(tcp, seg)
             seq    == IF "SYN" \in seg.flags THEN Add(seg.seq, 1) ELSE seg.seq
             d      == tcp_rx_enqueue(synced, seq, seg)
  <1>1. wire \in Wire /\ peer_rcv \in Nat /\ ConnOK(tcp)
    BY DEF UploadInv, StateInv, QuietInv, TypeOK, Wire
  <1>2. seg \in Segments
    BY <1>1, PeerSegmentsType
  <1>3. /\ tcp.listed /\ (tcp' = Abort(synced, "reset") \/ tcp' = d)
        /\ UNCHANGED <<wire, peer_rcv>>
    BY DEF tcp_rx, Idle, RxSynced, RxForced, RxAcked
  <1>4. /\ ConnOK(a) /\ a.listed /\ SendingOK(a, wire.nxt)
        /\ a.tx_pos > 0 => a.tx_pos < peer_rcv
    BY Zenon, <1>2, <1>3, RxAckedSending
  <1>5. ConnOK(synced) /\ synced.listed
    BY Zenon, <1>1, <1>2, <1>3, RxSyncedOK
  <1>6. SendSame(a, synced)
    BY Zenon, <1>2, <1>4, SyncedSendSame
  <1> HIDE DEF a, synced, seq
  <1>7. SendingOK(synced, wire.nxt) /\ synced.tx_pos = a.tx_pos
    BY Zenon, <1>4, <1>6, SendingStays DEF SendSame
  <1>8. CASE tcp' = Abort(synced, "reset")
    <2>1. "reset" \in Reasons \ {"none"}
      BY DEF Reasons
    <2>2. tcp'.tx_pos = synced.tx_pos
      BY Zenon, <1>5, <1>8, <2>1, AbortReason
    <2>3. ~tcp'.listed /\ tcp'.rc # "none"
      BY Zenon, <1>5, <1>8, <2>1, AbortListed
    <2>4. QED BY Zenon, <1>3, <1>4, <1>7, <2>2, <2>3 DEF UploadInv
  <1>9. CASE tcp' = d
    <2>1. SendSame(synced, d)
      BY Zenon, <1>5, ReceiveSendSame DEF ConnOK
    <2>2. d.listed
      <3>1. seq \in SeqNo
        <4>1. seg.seq \in SeqNo /\ seg.seq \in Int
          BY <1>2 DEF Segments, SeqNo
        <4>2. Add(seg.seq, 1) \in SeqNo
          BY <4>1, SeqNoType
        <4>3. QED BY <4>1, <4>2 DEF seq
      <3>2. QED BY Zenon, <1>2, <1>5, <3>1, RxEnqueue
    <2> HIDE DEF d
    <2>3. SendingOK(d, wire.nxt) /\ d.tx_pos = synced.tx_pos
      BY Zenon, <1>7, <2>1, SendingStays DEF SendSame
    <2>4. QED BY Zenon, <1>3, <1>4, <1>7, <1>9, <2>2, <2>3 DEF UploadInv
  <1>10. QED BY Zenon, <1>3, <1>8, <1>9

(* Processing the receive queue removes nothing. *)
LEMMA UploadQueue ==
    ASSUME ShortUpload, UploadInv, StateInv', NEW env \in Environments,
           NEW r \in Reactions(tcp), tcp_process_rx_queue(r, env)
    PROVE  UploadInv'
  <1> DEFINE q     == Head(tcp.rx_queue)
             taken == [tcp EXCEPT !.rx_queue = Tail(@)]
             data  == tcp_rx_data(taken, q)
             x     == React(data, r, env)
             c     == IF q.fin THEN tcp_rx_fin(x.c, Add(q.seq, q.len))
                      ELSE x.c
             n     == wire.nxt
             m     == wire'.nxt
  <1>1. /\ pc = "queue" /\ tcp' = c /\ Transmitted(x, x.c.rcv_ack)
        /\ tcp.rx_queue # <<>> /\ peer_rcv' = peer_rcv
    BY Zenon DEF tcp_process_rx_queue, Applicable
  <1>2. /\ ConnOK(tcp) /\ tcp \in Connection /\ wire \in Wire /\ tcp.listed
        /\ LiveOK(tcp, n) /\ SendingOK(tcp, n) /\ "SYN" \in tcp.state.rcvd
    BY Zenon, <1>1 DEF UploadInv, StateInv, QuietInv, TypeOK, Wire, ConnOK,
       RxAndReasonOK
  <1>3. n \in Nat
    BY <1>2 DEF Wire
  <1> HIDE DEF n
  <1>4. /\ ConnOK(taken) /\ taken.listed /\ taken.state = tcp.state
        /\ taken.xfer_closed = tcp.xfer_closed
        /\ taken.tx_queue = tcp.tx_queue /\ taken.tx_pos = tcp.tx_pos
        /\ LiveOK(taken, n) /\ q \in QueuedPacket /\ SendSame(tcp, taken)
    BY Zenon, <1>1, <1>2, <1>3, Taken, ReceiveSendSame
  <1> HIDE DEF q, taken
  <1>5. /\ ConnOK(data) /\ data.listed /\ data.state = taken.state
        /\ data.xfer_closed = taken.xfer_closed
        /\ data.tx_queue = taken.tx_queue /\ data.tx_pos = taken.tx_pos
        /\ LiveOK(data, n)
    BY Zenon, <1>3, <1>4, RxData
  <1>6. SendSame(taken, data)
    BY Zenon, <1>4, ReceiveSendSame DEF ConnOK
  <1> HIDE DEF data
  <1>7. SendingOK(data, n)
    BY Zenon, <1>2, <1>4, <1>6, SendingStays
  <1>8. r \in Reactions(data)
    BY Zenon, <1>4, <1>5 DEF Reactions, TxEnd, TxLen
  <1>9. "SYN" \in data.state.rcvd
    BY Zenon, <1>2, <1>4, <1>5
  <1>10. /\ ConnOK(x.c) /\ x.sent \in BOOLEAN /\ x.c.listed
         /\ x.c.state.rcvd = data.state.rcvd
    BY Zenon, <1>5, <1>8, <1>9, ReactOK
  <1>11. x.c.tx_pos = data.tx_pos /\ SendingOK(x.c, n)
    BY Zenon, <1>3, <1>5, <1>7, <1>8, <1>10, ReactSending
  <1>12. m \in Nat /\ (m = n \/ (x.sent /\ m >= n))
    <2> HIDE DEF x
    <2>1. x.c \in Connection
      BY Zenon, <1>10 DEF ConnOK
    <2>2. wire' \in Wire /\ (m = n \/ (x.sent /\ m >= n))
      BY Zenon, <1>1, <1>2, <1>10, <2>1, TransmittedWire DEF n
    <2>3. QED BY <2>2 DEF Wire
  <1> HIDE DEF m
  <1>13. LiveOK(x.c, m)
    BY Zenon, <1>3, <1>5, <1>8, <1>10, <1>12, ReactLive
  <1> HIDE DEF x
  <1>14. SendingOK(x.c, m) /\ "SYN" \in x.c.state.rcvd
    BY Zenon, <1>1, <1>2, <1>9, <1>10, <1>11, NxtSending DEF n, m
  <1>15. SendingOK(c, m) /\ c.tx_pos = x.c.tx_pos /\ c.listed
    <2>1. CASE ~q.fin
      <3>1. c = x.c
        BY Zenon, <2>1
      <3> HIDE DEF c
      <3>2. QED BY Zenon, <1>10, <1>14, <3>1
    <2>2. CASE q.fin
      <3> DEFINE d == tcp_rx_fin(x.c, Add(q.seq, q.len))
      <3>1. c = d
        BY Zenon, <2>2
      <3>2. SendingOK(d, m) /\ d.tx_pos = x.c.tx_pos /\ d.listed
        BY Zenon, <1>10, <1>12, <1>13, <1>14, FinSending, RxFin
      <3> HIDE DEF c, d
      <3>3. QED BY Zenon, <3>1, <3>2
    <2>3. QED BY Zenon, <2>1, <2>2
  <1> HIDE DEF c
  <1>16. tcp'.tx_pos = tcp.tx_pos
    BY Zenon, <1>1, <1>4, <1>5, <1>11, <1>15
  <1>17. QED BY Zenon, <1>1, <1>2, <1>15, <1>16, UploadStays DEF m

(* Aborting removes nothing from the transmit queue as acknowledged. *)
LEMMA UploadAbort ==
    ASSUME UploadInv, StateInv', UNCHANGED <<wire, peer_rcv>>, tcp.listed,
           NEW d, ConnOK(d), d.listed, SendSame(tcp, d),
           NEW rc \in Reasons \ {"none"}, tcp' = Abort(d, rc)
    PROVE  UploadInv'
  <1>1. ~tcp'.listed /\ tcp'.rc # "none" /\ tcp'.tx_pos = d.tx_pos
    BY Zenon, AbortListed, AbortReason
  <1>2. QED BY Zenon, <1>1, UploadStays DEF SendSame

-----------------------------------------------------------------------------
(* The fourth invariant holds initially. *)
LEMMA UploadInit == Init => UploadInv
  <1> SUFFICES ASSUME Init PROVE UploadInv
    OBVIOUS
  <1>1. StateInv
    BY StateInit
  <1>2. tcp.tx_pos = 0 /\ tcp.snd_sent = 0 /\ ~tcp.listed
    BY DEF Init, Fresh
  <1>3. QED BY <1>1, <1>2 DEF UploadInv

(* Opening the connection sends nothing yet. *)
LEMMA UploadOpen ==
    ASSUME UploadInv, StateInv', tcp_open
    PROVE  UploadInv'
  <1>1. /\ ~tcp.listed /\ tcp.rc = "none" /\ tcp' = Opened(tcp)
        /\ UNCHANGED <<wire, peer_rcv>>
    BY DEF tcp_open, Opened
  <1>2. /\ ConnOK(tcp) /\ tcp \in Connection /\ tcp.tx_pos = 0
        /\ tcp.snd_sent = 0 /\ tcp.tx_queue = <<>> /\ wire.nxt = 0
    BY Zenon, <1>1 DEF UploadInv, StateInv, QuietInv, ConnOK, Quiet
  <1>3. /\ tcp'.listed /\ tcp'.state = TCP_SYN_SENT /\ tcp'.snd_seq = ISS
        /\ tcp'.tx_pos = 0 /\ tcp'.snd_sent = 0 /\ tcp'.tx_queue = <<>>
    BY Zenon, <1>1, <1>2 DEF Opened, Connection
  <1>4. /\ "SYN" \notin tcp'.state.acked /\ "FIN" \notin tcp'.state.acked
        /\ "FIN" \notin tcp'.state.sent
    BY <1>3 DEF TCP_SYN_SENT, State
  <1>5. Sent(tcp') = 0
    <2>1. Sub(ISS, ISS) = 0
      BY SeqValues, TcpConnAssumption DEF SeqNo
    <2>2. QED BY Zenon, <1>3, <2>1 DEF Sent
  <1>6. TxEnd(tcp') = 0
    BY <1>3 DEF TxEnd, TxLen
  <1>7. SendEnd(tcp') = 1
    BY <1>4, <1>6 DEF SendEnd, One
  <1>8. SendingOK(tcp', wire'.nxt)
    <2>1. One("SYN" \in tcp'.state.acked) = 0
          /\ One("FIN" \in tcp'.state.acked) = 0
      BY Zenon, <1>4 DEF One
    <2>2. wire'.nxt = 0 /\ TxBytes \in Nat
      BY <1>1, <1>2, TcpConnAssumption
    <2>3. QED BY SMTT(30), <1>3, <1>4, <1>5, <1>6, <1>7, <2>1, <2>2 DEF SendingOK
  <1>9. QED BY Zenon, <1>1, <1>2, <1>3, <1>8 DEF UploadInv

(* The end of tcp_rx sends what there is. *)
LEMMA UploadFinish ==
    ASSUME UploadInv, StateInv', NEW env \in Environments, tcp_rx_finish(env)
    PROVE  UploadInv'
  <1> DEFINE s == [tcp EXCEPT !.process = TRUE]
             x == IF tcp.rx_queue = <<>> THEN Result(s, FALSE, FALSE)
                  ELSE tcp_xmit_sack(tcp, env)
             w == x.c.wait \/ TCP_CLOSED_GRACEFULLY(x.c.state)
             c == [x.c EXCEPT !.wait = w]
             n == wire.nxt
  <1>1. /\ pc = "queue" /\ tcp' = c /\ Transmitted(x, rx.seq)
        /\ peer_rcv' = peer_rcv
    BY Zenon DEF tcp_rx_finish
  <1>2. /\ ConnOK(tcp) /\ tcp \in Connection /\ TxQueueOK(tcp) /\ tcp.listed
        /\ wire \in Wire /\ StateOK(tcp.state) /\ SendingOK(tcp, n)
    BY Zenon, <1>1 DEF UploadInv, StateInv, QuietInv, TypeOK, Wire, ConnOK,
       LiveOK
  <1>3. n \in Nat
    BY <1>2 DEF Wire
  <1>4. ConnOK(s) /\ s.listed /\ SendSame(tcp, s)
    BY Zenon, <1>2, SmallChanges, SmallSendSame DEF Kept
  <1> HIDE DEF s
  <1>5. SendingOK(s, n) /\ s.tx_pos = tcp.tx_pos
    BY Zenon, <1>2, <1>4, SendingStays DEF SendSame
  <1>6. /\ ConnOK(x.c) /\ x.c \in Connection /\ x.c.listed
        /\ SendingOK(x.c, n) /\ x.c.tx_pos = tcp.tx_pos
    <2>1. CASE tcp.rx_queue = <<>>
      <3>1. x.c = s
        BY <2>1 DEF Result
      <3> HIDE DEF x
      <3>2. QED BY Zenon, <1>4, <1>5, <3>1 DEF ConnOK
    <2>2. CASE tcp.rx_queue # <<>>
      <3> DEFINE y == tcp_xmit_sack(tcp, env)
      <3>1. /\ ConnOK(y.c) /\ y.c.listed = tcp.listed
            /\ SendingOK(y.c, n) /\ y.c.tx_pos = tcp.tx_pos
        BY Zenon, <1>2, <1>3, XmitKeeps, XmitSackOK, XmitSending
      <3>2. x = y
        BY Zenon, <2>2
      <3> HIDE DEF y, x
      <3>3. QED BY Zenon, <1>2, <3>1, <3>2 DEF ConnOK
    <2>3. QED BY Zenon, <2>1, <2>2
  <1> HIDE DEF x
  <1>7. SendingOK(x.c, wire'.nxt)
    BY Zenon, <1>1, <1>2, <1>6, NxtSending DEF n
  <1>8. w \in BOOLEAN
    BY <1>6, ConnectionFields
  <1> HIDE DEF w
  <1>9. SendSame(x.c, c) /\ c.listed
    <2>1. c.listed = x.c.listed
      BY Zenon, <1>6 DEF Connection
    <2>2. QED BY Zenon, <1>6, <1>8, <2>1, SmallSendSame
  <1> HIDE DEF c
  <1>10. SendingOK(c, wire'.nxt) /\ c.tx_pos = x.c.tx_pos
    BY Zenon, <1>7, <1>9, SendingStays DEF SendSame
  <1>11. QED BY Zenon, <1>1, <1>2, <1>6, <1>9, <1>10, UploadStays

(* Every step keeps the fourth invariant. *)
LEMMA UploadNext ==
    ASSUME PeerSyn # "early", ShortUpload, UploadInv, [Next]_vars
    PROVE  UploadInv'
  <1>1. StateInv'
    BY Zenon, StateNext DEF UploadInv
  <1>2. /\ ConnOK(tcp) /\ tcp \in Connection /\ wire \in Wire
        /\ peer_rcv \in Nat
        /\ (pc # "idle" => tcp.listed)
        /\ (tcp.listed => LiveOK(tcp, wire.nxt) /\ SendingOK(tcp, wire.nxt))
    BY Zenon DEF UploadInv, StateInv, QuietInv, TypeOK, ConnOK, Wire
  <1>3. {"app", "ok", "timeout", "reset", "cancel"} \subseteq
              Reasons \ {"none"}
    BY DEF Reasons
  <1>4. CASE tcp_open
    BY Zenon, <1>1, <1>4, UploadOpen
  <1>5. ASSUME NEW env \in Environments, process_step(env) PROVE UploadInv'
    <2> DEFINE d == [tcp EXCEPT !.process = FALSE]
    <2>1. /\ tcp.listed /\ Transmit(tcp_xmit_sack(d, env))
          /\ peer_rcv' = peer_rcv
      BY <1>5 DEF process_step, Idle
    <2>2. Kept(tcp, d) /\ SendSame(tcp, d)
      BY Zenon, <1>2, <2>1, SmallChanges, SmallSendSame
    <2> HIDE DEF d
    <2>3. QED BY Zenon, <1>1, <2>1, <2>2, UploadXmit
  <1>6. ASSUME NEW env \in Environments, NEW over \in BOOLEAN,
               tcp_expired(over, env)
        PROVE  UploadInv'
    <2> DEFINE d == [tcp EXCEPT !.timer = FALSE, !.count = @ + 1]
    <2>1. /\ tcp.listed /\ peer_rcv' = peer_rcv
          /\ over => Transmit(Result(Abort(d, "timeout"), FALSE, FALSE))
          /\ ~over => Transmit(tcp_xmit_sack(d, env))
      BY Zenon, <1>6 DEF tcp_expired, Idle
    <2>2. Kept(tcp, d) /\ SendSame(tcp, d)
      BY Zenon, <1>2, <2>1, SmallChanges, SmallSendSame
    <2> HIDE DEF d
    <2>3. CASE ~over
      BY Zenon, <1>1, <2>1, <2>2, <2>3, UploadXmit
    <2>4. CASE over
      <3>1. tcp' = Abort(d, "timeout") /\ UNCHANGED wire
        BY Zenon, <2>1, <2>4 DEF Transmit, Transmitted, Result
      <3>2. QED BY Zenon, <1>1, <1>3, <2>1, <2>2, <3>1, UploadAbort DEF Kept
    <2>5. QED BY Zenon, <2>3, <2>4
  <1>7. ASSUME NEW env \in Environments, tcp_keepalive_expired(env)
        PROVE  UploadInv'
    <2> DEFINE d == [tcp EXCEPT !.ack_pending = TRUE]
    <2>1. /\ tcp.listed /\ Transmit(tcp_xmit_sack(d, env))
          /\ peer_rcv' = peer_rcv
      BY <1>7 DEF tcp_keepalive_expired, Idle
    <2>2. Kept(tcp, d) /\ SendSame(tcp, d)
      BY Zenon, <1>2, <2>1, SmallChanges, SmallSendSame
    <2> HIDE DEF d
    <2>3. QED BY Zenon, <1>1, <2>1, <2>2, UploadXmit
  <1>8. ASSUME NEW env \in Environments, tcp_rx_finish(env) PROVE UploadInv'
    BY Zenon, <1>1, <1>8, UploadFinish
  <1>9. ASSUME NEW env \in Environments, NEW r \in Reactions(tcp),
               app_step(r, env)
        PROVE  UploadInv'
    BY Zenon, <1>1, <1>9, UploadReact DEF app_step, Idle
  <1>10. ASSUME NEW env \in Environments, NEW r \in Reactions(tcp),
                tcp_process_rx_queue(r, env)
         PROVE  UploadInv'
    BY Zenon, <1>1, <1>10, UploadQueue
  <1>11. ASSUME NEW env \in Environments, NEW r \in Reactions(tcp),
                xfer_window_changed(r, env)
         PROVE  UploadInv'
    <2>1. tcp.listed
      BY Zenon, <1>2, <1>11 DEF xfer_window_changed
    <2>2. QED BY Zenon, <1>1, <1>11, <2>1, UploadReact DEF xfer_window_changed
  <1>12. CASE tcp_wait_expired
    <2> DEFINE d == [tcp EXCEPT !.wait = FALSE]
    <2>1. /\ tcp.listed /\ tcp' = Abort(d, "ok")
          /\ UNCHANGED <<wire, peer_rcv>>
      BY <1>12 DEF tcp_wait_expired, Idle
    <2>2. Kept(tcp, d) /\ SendSame(tcp, d)
      BY Zenon, <1>2, <2>1, SmallChanges, SmallSendSame
    <2> HIDE DEF d
    <2>3. QED BY Zenon, <1>1, <1>3, <2>1, <2>2, UploadAbort DEF Kept
  <1>13. CASE tcp_shutdown
    <2> DEFINE d == tcp_close(tcp, "cancel")
               n == wire.nxt
    <2>1. /\ tcp.listed /\ (tcp' = tcp \/ tcp' = d)
          /\ UNCHANGED <<wire, peer_rcv>>
      BY Zenon, <1>13 DEF tcp_shutdown, Idle
    <2>2. n \in Nat
      BY <1>2 DEF Wire
    <2>3. /\ "SYN" \notin tcp.state.rcvd => ~d.listed
          /\ d.rc # "none" /\ d.tx_pos = tcp.tx_pos
          /\ "SYN" \in tcp.state.rcvd => SendingOK(d, n)
      BY Zenon, <1>2, <1>3, <2>1, <2>2, CloseOK, CloseSending
    <2> HIDE DEF d
    <2>4. CASE tcp' = tcp
      BY Zenon, <1>1, <1>2, <2>1, <2>4, UploadStays
    <2>5. CASE tcp' = d
      BY Zenon, <1>1, <2>1, <2>3, <2>5, UploadStays DEF n
    <2>6. QED BY Zenon, <2>1, <2>4, <2>5
  <1>14. CASE tcp_shutdown_finish
    <2>1. /\ tcp.listed /\ tcp' = Abort(tcp, "cancel")
          /\ UNCHANGED <<wire, peer_rcv>>
      BY Zenon, <1>14 DEF tcp_shutdown_finish, Idle
    <2>2. SendSame(tcp, tcp)
      BY Zenon DEF SendSame
    <2>3. QED BY Zenon, <1>1, <1>2, <1>3, <2>1, <2>2, UploadAbort
  <1>15. ASSUME NEW seg \in PeerSegments, tcp_rx(seg) PROVE UploadInv'
    BY Zenon, <1>1, <1>15, UploadRx
  <1>16. CASE peer_receive
    <2>1. UNCHANGED <<tcp, wire>> /\ peer_rcv' \in (peer_rcv + 1)..wire.nxt
      BY Zenon, <1>16 DEF peer_receive
    <2>2. tcp.tx_pos \in Nat /\ wire.nxt \in Nat
      BY <1>2, ConnectionFields DEF Wire
    <2>3. tcp.tx_pos > 0 => tcp.tx_pos < peer_rcv
      BY Zenon DEF UploadInv
    <2>4. tcp.tx_pos > 0 => tcp.tx_pos < peer_rcv'
      BY <1>2, <2>1, <2>2, <2>3
    <2>5. QED BY Zenon, <1>1, <2>1, <2>4 DEF UploadInv
  <1>17. CASE UNCHANGED vars
    <2>1. UNCHANGED <<tcp, wire, peer_rcv>>
      BY Zenon, <1>17 DEF vars
    <2>2. QED BY Zenon, <1>1, <2>1 DEF UploadInv
  <1>18. QED
    BY Zenon, <1>4, <1>5, <1>6, <1>7, <1>8, <1>9, <1>10, <1>11, <1>12,
       <1>13, <1>14, <1>15, <1>16, <1>17 DEF Next

-----------------------------------------------------------------------------
(* The fourth invariant holds for every peer whose SYN does not arrive     *)
(* before ours has been transmitted, and every upload shorter than the     *)
(* sequence space.                                                         *)
THEOREM UploadInvariant ==
    ASSUME PeerSyn # "early", ShortUpload PROVE Spec => []UploadInv
  <1>1. Init => UploadInv
    BY UploadInit
  <1>2. UploadInv /\ [Next]_vars => UploadInv'
    BY UploadNext
  <1>3. QED BY <1>1, <1>2, PTL DEF Spec

(* A byte leaves the transmit queue only when the peer has received it,    *)
(* whatever the age of the acknowledgement tcp_rx_ack works on, and        *)
(* snd_seq counts exactly the SYN, the removed bytes and the FIN.          *)
THEOREM NothingLostByAcks ==
    ASSUME PeerSyn # "early", ShortUpload PROVE Spec => []AckedIsReceived
  <1>1. UploadInv => AckedIsReceived
    BY DEF UploadInv, AckedIsReceived, SendingOK, Sent, One
  <1>2. QED BY <1>1, UploadInvariant, PTL

(* What each step has to show of the fifth invariant. *)
LEMMA WorkStays ==
    ASSUME UploadInv', tcp'.listed => WindowOpen(tcp'),
           tcp'.listed /\ pc' # "queue" => Scheduled(tcp')
    PROVE  WorkInv'
  BY Zenon DEF WorkInv, WindowOpen, Scheduled

(* The same said of the state it starts from. *)
LEMMA WorkHolds ==
    ASSUME WorkInv
    PROVE  /\ UploadInv /\ (tcp.listed => WindowOpen(tcp))
           /\ tcp.listed /\ pc # "queue" => Scheduled(tcp)
  BY Zenon DEF WorkInv, WindowOpen, Scheduled

(* tcp_rx: the peer's SYN acknowledges ours, and every window it announces *)
(* is open unless the segment is a refusal, which ends the connection.     *)
LEMMA WorkRx ==
    ASSUME PeerSyn = "never", 0 \notin PeerWindows, WorkInv, UploadInv',
           NEW seg \in PeerSegments, tcp_rx(seg)
    PROVE  WorkInv'
  <1> DEFINE a      == RxAcked(tcp, seg)
             y      == tcp_rx_ack(tcp, seg.ack, seg.win)
             synced == RxSynced(tcp, seg)
             seq    == IF "SYN" \in seg.flags THEN Add(seg.seq, 1) ELSE seg.seq
             d      == tcp_rx_enqueue(synced, seq, seg)
             n      == wire.nxt
  <1>1. /\ wire \in Wire /\ peer_rcv \in Nat /\ ConnOK(tcp) /\ peer_rcv <= n
        /\ tcp.listed => LiveOK(tcp, n) /\ WindowOpen(tcp)
        /\ tcp.listed /\ wire.est => "SYN" \in tcp.state.rcvd
    BY Zenon, WorkHolds DEF UploadInv, StateInv, QuietInv, TypeOK, Wire
  <1>2. seg \in Segments
    BY <1>1, PeerSegmentsType
  <1>3. /\ tcp.listed
        /\ \/ tcp' = Abort(synced, "reset")
           \/ /\ tcp' = d /\ pc' = "queue"
              /\ ~("RST" \in seg.flags /\ RstAcceptable(synced, seq))
    BY DEF tcp_rx, Idle, RxSynced, RxForced, RxAcked
  <1>4. /\ "ACK" \in seg.flags
        /\ wire.est \/ (peer_rcv > 0 /\ seg.ack = Add(ISS, 1))
        /\ \/ seg.win > 0
           \/ /\ "RST" \in seg.flags /\ "SYN" \notin seg.flags
              /\ "SYN" \notin tcp.state.rcvd
    BY Zenon, <1>1, PeerWindow
  <1>5. seg.ack \in SeqNo /\ seg.win \in Nat /\ n \in Nat
    BY <1>1, <1>2 DEF Segments, Wire
  <1>6. a = y
    BY Zenon, <1>4 DEF RxAcked
  <1>7. ConnOK(y) /\ y.listed
    <2>1. ConnOK(y) /\ Same(tcp, y, AckFields)
      BY Zenon, <1>1, <1>3, <1>5, RxAckOK
    <2> HIDE DEF y
    <2>2. QED BY Zenon, <1>3, <2>1 DEF Same, Fields, AckFields
  <1>8. "SYN" \notin tcp.state.acked
          => ~AckOutOfRange(tcp, seg.ack) /\ Sub(seg.ack, tcp.snd_seq) > 0
    <2> SUFFICES ASSUME "SYN" \notin tcp.state.acked
                 PROVE  /\ ~AckOutOfRange(tcp, seg.ack)
                        /\ Sub(seg.ack, tcp.snd_seq) > 0
      OBVIOUS
    <2>1. ~wire.est
      BY Zenon, <1>1, <1>3 DEF WindowOpen
    <2>2. n > 0 /\ seg.ack = Add(ISS, 1)
      BY <1>1, <1>4, <1>5, <2>1
    <2>3. tcp.snd_seq = ISS /\ tcp.snd_sent = 1
      BY Zenon, <1>1, <1>3, <2>2 DEF LiveOK
    <2>4. Sub(Add(ISS, 1), ISS) = 1
      BY Zenon, TcpConnAssumption, NextSeqNo
    <2>5. QED BY SMTT(30), <2>2, <2>3, <2>4 DEF AckOutOfRange
  <1>9. /\ "SYN" \in y.state.acked
        /\ \/ y.snd_win > 0
           \/ /\ "RST" \in seg.flags /\ "SYN" \notin seg.flags
              /\ "SYN" \notin tcp.state.rcvd
    <2>1. /\ AckOutOfRange(tcp, seg.ack) => y = tcp
          /\ ~AckOutOfRange(tcp, seg.ack) => y.snd_win = seg.win
          /\ tcp.state.acked \subseteq y.state.acked
          /\ /\ ~AckOutOfRange(tcp, seg.ack) /\ Sub(seg.ack, tcp.snd_seq) > 0
             /\ "SYN" \in tcp.state.sent
             => "SYN" \in y.state.acked
      BY Zenon, <1>1, <1>3, <1>5, AckWindow
    <2>2. "SYN" \in tcp.state.sent
      BY Zenon, <1>1, <1>3 DEF LiveOK, StateOK
    <2> HIDE DEF y
    <2>3. "SYN" \in y.state.acked
      BY Zenon, <1>8, <2>1, <2>2
    <2>4. CASE AckOutOfRange(tcp, seg.ack)
      BY Zenon, <1>1, <1>3, <1>8, <2>1, <2>3, <2>4 DEF WindowOpen
    <2>5. CASE ~AckOutOfRange(tcp, seg.ack)
      BY Zenon, <1>4, <2>1, <2>3, <2>5
    <2>6. QED BY Zenon, <2>4, <2>5
  <1>10. SendSame(y, synced) /\ synced.snd_win = y.snd_win
    <2> HIDE DEF y, synced
    <2>1. ConnOK(a) /\ a.listed
      BY Zenon, <1>6, <1>7
    <2>2. SendSame(a, synced) /\ synced.snd_win = a.snd_win
      BY Zenon, <1>2, <2>1, SyncedSendSame DEF synced
    <2> HIDE DEF a
    <2>3. QED BY Zenon, <1>6, <2>2
  <1>11. /\ ConnOK(synced) /\ synced.listed
         /\ "SYN" \notin seg.flags => synced.state.rcvd = tcp.state.rcvd
    BY Zenon, <1>1, <1>2, <1>3, RxSyncedOK
  <1> HIDE DEF a, y, synced, seq
  <1>12. "SYN" \in synced.state.acked
    BY Zenon, <1>9, <1>10 DEF SendSame
  <1>13. CASE tcp' = Abort(synced, "reset")
    <2>1. "reset" \in Reasons \ {"none"}
      BY DEF Reasons
    <2>2. ~tcp'.listed
      BY Zenon, <1>11, <1>13, <2>1, AbortListed
    <2>3. QED BY Zenon, <2>2, WorkStays
  <1>14. CASE /\ tcp' = d /\ pc' = "queue"
              /\ ~("RST" \in seg.flags /\ RstAcceptable(synced, seq))
    <2>1. SendSame(synced, d) /\ d.snd_win = synced.snd_win
      <3>1. synced \in Connection
        BY Zenon, <1>11 DEF ConnOK
      <3>2. \A b, g : LET e == tcp_rx_enqueue(synced, b, g)
                     IN  SendSame(synced, e) /\ e.snd_win = synced.snd_win
        BY Zenon, <3>1, ReceiveSendSame
      <3>3. QED BY Zenon, <3>2
    <2> HIDE DEF d
    <2>2. "SYN" \in d.state.acked
      BY Zenon, <1>12, <2>1 DEF SendSame
    <2>3. y.snd_win > 0
      <3>1. ~("RST" \in seg.flags /\ "SYN" \notin synced.state.rcvd)
        BY Zenon, <1>12, <1>14 DEF RstAcceptable
      <3>2. QED BY Zenon, <1>9, <1>11, <3>1
    <2>4. WindowOpen(tcp')
      BY Zenon, <1>10, <1>14, <2>1, <2>2, <2>3 DEF WindowOpen
    <2>5. QED BY Zenon, <1>14, <2>4, WorkStays
  <1>15. QED BY Zenon, <1>3, <1>13, <1>14

(* The receive queue: what is left undone is left to the end of tcp_rx. *)
LEMMA WorkQueue ==
    ASSUME WorkInv, UploadInv', NEW env \in Environments,
           NEW r \in Reactions(tcp), tcp_process_rx_queue(r, env)
    PROVE  WorkInv'
  <1> DEFINE q     == Head(tcp.rx_queue)
             taken == [tcp EXCEPT !.rx_queue = Tail(@)]
             data  == tcp_rx_data(taken, q)
             x     == React(data, r, env)
             c     == IF q.fin THEN tcp_rx_fin(x.c, Add(q.seq, q.len))
                      ELSE x.c
             n     == wire.nxt
             m     == wire'.nxt
  <1>1. /\ pc = "queue" /\ tcp' = c /\ Transmitted(x, x.c.rcv_ack)
        /\ tcp.rx_queue # <<>> /\ pc' = pc
    BY Zenon DEF tcp_process_rx_queue, Applicable
  <1>2. /\ ConnOK(tcp) /\ tcp \in Connection /\ wire \in Wire /\ tcp.listed
        /\ LiveOK(tcp, n) /\ WindowOpen(tcp) /\ "SYN" \in tcp.state.rcvd
    BY Zenon, <1>1, WorkHolds DEF UploadInv, StateInv, QuietInv, TypeOK, Wire,
       ConnOK, RxAndReasonOK
  <1>3. n \in Nat
    BY <1>2 DEF Wire
  <1> HIDE DEF n
  <1>4. /\ ConnOK(taken) /\ taken.listed /\ taken.state = tcp.state
        /\ taken.xfer_closed = tcp.xfer_closed
        /\ taken.tx_queue = tcp.tx_queue /\ taken.tx_pos = tcp.tx_pos
        /\ LiveOK(taken, n) /\ q \in QueuedPacket
        /\ taken.snd_win = tcp.snd_win
    BY Zenon, <1>1, <1>2, <1>3, Taken, ReceiveSendSame
  <1> HIDE DEF q, taken
  <1>5. /\ ConnOK(data) /\ data.listed /\ data.state = taken.state
        /\ data.xfer_closed = taken.xfer_closed
        /\ data.tx_queue = taken.tx_queue /\ data.tx_pos = taken.tx_pos
        /\ LiveOK(data, n)
    BY Zenon, <1>3, <1>4, RxData
  <1>6. data.snd_win = taken.snd_win
    BY Zenon, <1>4, ReceiveSendSame DEF ConnOK
  <1> HIDE DEF data
  <1>7. WindowOpen(data) /\ "SYN" \in data.state.rcvd
    BY Zenon, <1>2, <1>4, <1>5, <1>6 DEF WindowOpen
  <1>8. r \in Reactions(data)
    BY Zenon, <1>4, <1>5 DEF Reactions, TxEnd, TxLen
  <1>9. /\ ConnOK(x.c) /\ x.sent \in BOOLEAN /\ x.c.listed
        /\ x.c.state.rcvd = data.state.rcvd
    BY Zenon, <1>5, <1>7, <1>8, ReactOK
  <1>10. WindowOpen(x.c)
    BY Zenon, <1>5, <1>7, <1>8, <1>9, ReactWork
  <1>11. m \in Nat /\ (m = n \/ (x.sent /\ m >= n))
    <2> HIDE DEF x
    <2>1. x.c \in Connection
      BY Zenon, <1>9 DEF ConnOK
    <2>2. wire' \in Wire /\ (m = n \/ (x.sent /\ m >= n))
      BY Zenon, <1>1, <1>2, <1>9, <2>1, TransmittedWire DEF n
    <2>3. QED BY <2>2 DEF Wire
  <1> HIDE DEF m
  <1>12. LiveOK(x.c, m)
    BY Zenon, <1>3, <1>5, <1>8, <1>9, <1>11, ReactLive
  <1> HIDE DEF x
  <1>13. WindowOpen(c)
    <2> DEFINE d == tcp_rx_fin(x.c, Add(q.seq, q.len))
    <2>1. "SYN" \in x.c.state.rcvd
      BY Zenon, <1>7, <1>9
    <2>2. WindowOpen(d)
      BY Zenon, <1>9, <1>10, <1>11, <1>12, <2>1, FinWork
    <2>3. c = d \/ c = x.c
      BY Zenon
    <2> HIDE DEF c, d
    <2>4. QED BY Zenon, <1>10, <2>2, <2>3
  <1> HIDE DEF c
  <1>14. QED BY Zenon, <1>1, <1>13, WorkStays

(* The fifth invariant holds initially. *)
LEMMA WorkInit == Init => WorkInv
  <1> SUFFICES ASSUME Init PROVE WorkInv
    OBVIOUS
  <1>1. UploadInv
    BY UploadInit
  <1>2. ~tcp.listed
    BY DEF Init, Fresh
  <1>3. QED BY SMTT(30), <1>1, <1>2 DEF WorkInv

(* A step that ends in a transmission attempt leaves nothing unscheduled. *)
LEMMA WorkXmit ==
    ASSUME WorkInv, UploadInv', tcp.listed, NEW d, ConnOK(d), WorkSame(tcp, d),
           NEW env \in Environments, Transmit(tcp_xmit_sack(d, env))
    PROVE  WorkInv'
  <1> DEFINE x == tcp_xmit_sack(d, env)
  <1>1. WindowOpen(d)
    BY Zenon, WorkHolds, WorkSameKeeps
  <1>2. Scheduled(x.c) /\ WindowOpen(x.c)
    BY Zenon, <1>1, XmitWork
  <1>3. tcp' = x.c
    BY Zenon DEF Transmit
  <1> HIDE DEF x
  <1>4. QED BY Zenon, <1>2, <1>3, WorkStays

(* Neither does what the application does between handlers. *)
LEMMA WorkReact ==
    ASSUME WorkInv, UploadInv', tcp.listed, pc # "queue",
           NEW env \in Environments, NEW r \in Reactions(tcp),
           Transmit(React(tcp, r, env))
    PROVE  WorkInv'
  <1> DEFINE x == React(tcp, r, env)
  <1>1. ConnOK(tcp) /\ WindowOpen(tcp) /\ Scheduled(tcp)
    BY Zenon, WorkHolds DEF UploadInv, StateInv, QuietInv
  <1>2. /\ x.c.listed => WindowOpen(x.c)
        /\ x.c.listed => Scheduled(x.c)
    BY Zenon, <1>1, ReactWork
  <1>3. tcp' = x.c
    BY Zenon DEF Transmit
  <1> HIDE DEF x
  <1>4. QED BY Zenon, <1>2, <1>3, WorkStays

(* The end of tcp_rx schedules the transmission process, or transmits.  *)
LEMMA WorkFinish ==
    ASSUME WorkInv, UploadInv', NEW env \in Environments, tcp_rx_finish(env)
    PROVE  WorkInv'
  <1> DEFINE s == [tcp EXCEPT !.process = TRUE]
             x == IF tcp.rx_queue = <<>> THEN Result(s, FALSE, FALSE)
                  ELSE tcp_xmit_sack(tcp, env)
             w == x.c.wait \/ TCP_CLOSED_GRACEFULLY(x.c.state)
             c == [x.c EXCEPT !.wait = w]
  <1>1. pc = "queue" /\ tcp' = c
    BY Zenon DEF tcp_rx_finish
  <1>2. ConnOK(tcp) /\ tcp \in Connection /\ WindowOpen(tcp)
    BY Zenon, <1>1, WorkHolds
    DEF UploadInv, StateInv, QuietInv, TypeOK
  <1>3. WorkSame(tcp, s) /\ s.process /\ s \in Connection
    <2>1. WorkSame(tcp, s)
      BY Zenon, <1>2, SmallWorkSame
    <2>2. s.process /\ s \in Connection
      BY Zenon, <1>2 DEF Connection
    <2>3. QED BY Zenon, <2>1, <2>2
  <1> HIDE DEF s
  <1>4. Scheduled(x.c) /\ WindowOpen(x.c) /\ x.c \in Connection
    <2>1. CASE tcp.rx_queue = <<>>
      <3>1. x.c = s
        BY <2>1 DEF Result
      <3> HIDE DEF x
      <3>2. WindowOpen(s)
        BY Zenon, <1>2, <1>3, WorkSameKeeps
      <3>3. QED BY Zenon, <1>3, <3>1, <3>2 DEF Scheduled
    <2>2. CASE tcp.rx_queue # <<>>
      <3> DEFINE y == tcp_xmit_sack(tcp, env)
      <3>1. Scheduled(y.c) /\ WindowOpen(y.c) /\ ConnOK(y.c)
        BY Zenon, <1>2, XmitWork, XmitSackOK
      <3>2. x = y
        BY Zenon, <2>2
      <3> HIDE DEF y, x
      <3>3. QED BY Zenon, <3>1, <3>2 DEF ConnOK
    <2>3. QED BY Zenon, <2>1, <2>2
  <1> HIDE DEF x
  <1>5. w \in BOOLEAN
    BY <1>4, ConnectionFields
  <1> HIDE DEF w
  <1>6. WorkSame(x.c, c) /\ c.timer = x.c.timer /\ c.process = x.c.process
    BY Zenon, <1>4, <1>5, SmallWorkSame
  <1> HIDE DEF c
  <1>7. Scheduled(c) /\ WindowOpen(c)
    BY Zenon, <1>4, <1>6, WorkSameKeeps
  <1>8. QED BY Zenon, <1>1, <1>7, WorkStays

(* Every step keeps the fifth invariant. *)
LEMMA WorkNext ==
    ASSUME PeerSyn = "never", 0 \notin PeerWindows, ShortUpload, WorkInv,
           [Next]_vars
    PROVE  WorkInv'
  <1>1. UploadInv /\ UploadInv'
    <2>1. PeerSyn # "early"
      OBVIOUS
    <2>2. QED BY Zenon, <2>1, UploadNext DEF WorkInv
  <1>2. /\ ConnOK(tcp) /\ tcp \in Connection
        /\ (pc # "idle" => tcp.listed)
        /\ (tcp.listed => WindowOpen(tcp))
        /\ tcp.listed /\ pc # "queue" => Scheduled(tcp)
    BY Zenon, WorkHolds DEF UploadInv, StateInv, QuietInv, TypeOK
  <1>3. {"app", "ok", "timeout", "reset", "cancel"} \subseteq
              Reasons \ {"none"}
    BY DEF Reasons
  <1>4. "idle" # "queue" /\ "notify" # "queue" /\ "notify" # "idle"
    OBVIOUS
  <1>5. CASE tcp_open
    <2>1. tcp' = Opened(tcp)
      BY <1>5 DEF tcp_open, Opened
    <2>2. tcp'.state = TCP_SYN_SENT /\ tcp'.timer
      BY Zenon, <1>2, <2>1 DEF Opened, Connection
    <2>3. "SYN" \notin tcp'.state.rcvd /\ "SYN" \notin tcp'.state.acked
      BY <2>2 DEF TCP_SYN_SENT, State
    <2>4. WindowOpen(tcp') /\ Scheduled(tcp')
      BY Zenon, <2>2, <2>3 DEF WindowOpen, Scheduled
    <2>5. QED BY Zenon, <1>1, <2>4, WorkStays
  <1>6. ASSUME NEW env \in Environments, process_step(env) PROVE WorkInv'
    <2> DEFINE d == [tcp EXCEPT !.process = FALSE]
    <2>1. tcp.listed /\ Transmit(tcp_xmit_sack(d, env))
      BY <1>6 DEF process_step, Idle
    <2>2. Kept(tcp, d) /\ WorkSame(tcp, d)
      BY Zenon, <1>2, <2>1, SmallChanges, SmallWorkSame
    <2> HIDE DEF d
    <2>3. QED BY Zenon, <1>1, <2>1, <2>2, WorkXmit DEF Kept
  <1>7. ASSUME NEW env \in Environments, NEW over \in BOOLEAN,
               tcp_expired(over, env)
        PROVE  WorkInv'
    <2> DEFINE d == [tcp EXCEPT !.timer = FALSE, !.count = @ + 1]
    <2>1. /\ tcp.listed
          /\ over => Transmit(Result(Abort(d, "timeout"), FALSE, FALSE))
          /\ ~over => Transmit(tcp_xmit_sack(d, env))
      BY Zenon, <1>7 DEF tcp_expired, Idle
    <2>2. Kept(tcp, d) /\ WorkSame(tcp, d)
      BY Zenon, <1>2, <2>1, SmallChanges, SmallWorkSame
    <2> HIDE DEF d
    <2>3. CASE ~over
      BY Zenon, <1>1, <2>1, <2>2, <2>3, WorkXmit DEF Kept
    <2>4. CASE over
      <3>1. tcp' = Abort(d, "timeout")
        BY Zenon, <2>1, <2>4 DEF Transmit, Result
      <3>2. ~tcp'.listed
        BY Zenon, <1>3, <2>2, <3>1, AbortListed DEF Kept
      <3>3. QED BY Zenon, <1>1, <3>2, WorkStays
    <2>5. QED BY Zenon, <2>3, <2>4
  <1>8. ASSUME NEW env \in Environments, tcp_keepalive_expired(env)
        PROVE  WorkInv'
    <2> DEFINE d == [tcp EXCEPT !.ack_pending = TRUE]
    <2>1. tcp.listed /\ Transmit(tcp_xmit_sack(d, env))
      BY <1>8 DEF tcp_keepalive_expired, Idle
    <2>2. Kept(tcp, d) /\ WorkSame(tcp, d)
      BY Zenon, <1>2, <2>1, SmallChanges, SmallWorkSame
    <2> HIDE DEF d
    <2>3. QED BY Zenon, <1>1, <2>1, <2>2, WorkXmit DEF Kept
  <1>9. ASSUME NEW env \in Environments, tcp_rx_finish(env) PROVE WorkInv'
    BY Zenon, <1>1, <1>9, WorkFinish
  <1>10. ASSUME NEW env \in Environments, NEW r \in Reactions(tcp),
                app_step(r, env)
         PROVE  WorkInv'
    BY Zenon, <1>1, <1>4, <1>10, WorkReact DEF app_step, Idle
  <1>11. ASSUME NEW env \in Environments, NEW r \in Reactions(tcp),
                tcp_process_rx_queue(r, env)
         PROVE  WorkInv'
    BY Zenon, <1>1, <1>11, WorkQueue
  <1>12. ASSUME NEW env \in Environments, NEW r \in Reactions(tcp),
                xfer_window_changed(r, env)
         PROVE  WorkInv'
    <2>1. tcp.listed /\ pc # "queue"
      BY Zenon, <1>2, <1>4, <1>12 DEF xfer_window_changed
    <2>2. QED BY Zenon, <1>1, <1>12, <2>1, WorkReact DEF xfer_window_changed
  <1>13. CASE tcp_wait_expired
    <2> DEFINE d == [tcp EXCEPT !.wait = FALSE]
    <2>1. tcp.listed /\ tcp' = Abort(d, "ok")
      BY <1>13 DEF tcp_wait_expired, Idle
    <2>2. Kept(tcp, d)
      BY Zenon, <1>2, <2>1, SmallChanges
    <2> HIDE DEF d
    <2>3. ~tcp'.listed
      BY Zenon, <1>3, <2>1, <2>2, AbortListed DEF Kept
    <2>4. QED BY Zenon, <1>1, <2>3, WorkStays
  <1>14. CASE tcp_shutdown
    <2> DEFINE d == tcp_close(tcp, "cancel")
    <2>1. tcp.listed /\ pc # "queue" /\ (tcp' = tcp \/ tcp' = d)
      BY Zenon, <1>4, <1>14 DEF tcp_shutdown, Idle
    <2>2. /\ "SYN" \notin tcp.state.rcvd => ~d.listed
          /\ "SYN" \in tcp.state.rcvd => WindowOpen(d) /\ Scheduled(d)
      BY Zenon, <1>2, <1>3, <2>1, CloseOK, CloseWork
    <2> HIDE DEF d
    <2>3. QED BY Zenon, <1>1, <1>2, <2>1, <2>2, WorkStays
  <1>15. CASE tcp_shutdown_finish
    <2>1. tcp.listed /\ tcp' = Abort(tcp, "cancel")
      BY Zenon, <1>15 DEF tcp_shutdown_finish, Idle
    <2>2. ~tcp'.listed
      BY Zenon, <1>2, <1>3, <2>1, AbortListed
    <2>3. QED BY Zenon, <1>1, <2>2, WorkStays
  <1>16. ASSUME NEW seg \in PeerSegments, tcp_rx(seg) PROVE WorkInv'
    BY Zenon, <1>1, <1>16, WorkRx
  <1>17. CASE peer_receive
    <2>1. UNCHANGED <<tcp, pc>>
      BY Zenon, <1>17 DEF peer_receive
    <2>2. QED BY Zenon, <1>1, <1>2, <2>1, WorkStays
  <1>18. CASE UNCHANGED vars
    <2>1. UNCHANGED <<tcp, pc>>
      BY Zenon, <1>18 DEF vars
    <2>2. QED BY Zenon, <1>1, <1>2, <2>1, WorkStays
  <1>19. QED
    BY Zenon, <1>5, <1>6, <1>7, <1>8, <1>9, <1>10, <1>11, <1>12, <1>13,
       <1>14, <1>15, <1>16, <1>17, <1>18 DEF Next

-----------------------------------------------------------------------------
(* The fifth invariant holds for every peer that answers our SYN with one  *)
(* that acknowledges it and never closes its window.                       *)
THEOREM WorkInvariant ==
    ASSUME PeerSyn = "never", 0 \notin PeerWindows, ShortUpload
    PROVE  Spec => []WorkInv
  <1>1. Init => WorkInv
    BY WorkInit
  <1>2. WorkInv /\ [Next]_vars => WorkInv'
    BY WorkNext
  <1>3. QED BY <1>1, <1>2, PTL DEF Spec

(* With such a peer, whatever can be sent, or has been sent and is not yet *)
(* acknowledged, has a running retransmission timer or a scheduled         *)
(* transmission whenever the stack is idle: no failed allocation, refused  *)
(* packet or partial acknowledgement makes the connection forget it.       *)
THEOREM NothingForgotten ==
    ASSUME PeerSyn = "never", 0 \notin PeerWindows, ShortUpload,
           TCP_PATH_MTU > 0
    PROVE  Spec => []WorkIsScheduled
  <1>1. WorkInv => WorkIsScheduled
    <2> SUFFICES ASSUME WorkInv, pc = "idle", tcp.listed,
                        XmitSeqLen(tcp) > 0 \/ wire.nxt > Sent(tcp)
                 PROVE  tcp.timer \/ tcp.process
      BY Zenon DEF WorkIsScheduled, Sent
    <2>1. /\ ConnOK(tcp) /\ tcp \in Connection /\ wire \in Wire
          /\ StateOK(tcp.state) /\ SendingOK(tcp, wire.nxt)
          /\ WindowOpen(tcp)
      BY Zenon, WorkHolds
      DEF UploadInv, StateInv, QuietInv, TypeOK, Wire, LiveOK
    <2>2. Scheduled(tcp)
      <3>1. "idle" # "queue"
        BY SMTT(30)
      <3>2. QED BY Zenon, <3>1, WorkHolds
    <2>3. /\ wire.nxt \in Nat /\ tcp.snd_win \in Nat /\ TCP_PATH_MTU \in Nat
      BY <2>1, ConnectionFields, TcpConnAssumption DEF Wire
    <2>4. /\ Sent(tcp) \in Nat /\ TxLen(tcp) \in Nat /\ SendEnd(tcp) \in Nat
      BY Zenon, <2>1, SendTypes
    <2>5. ASSUME wire.nxt > Sent(tcp) PROVE XmitSeqLen(tcp) > 0
      <3>1. Sent(tcp) < SendEnd(tcp)
        <4>1. wire.nxt <= SendEnd(tcp)
          BY Zenon, <2>1 DEF SendingOK
        <4>2. QED BY <2>3, <2>4, <2>5, <4>1
      <3>2. "SYN" \in tcp.state.acked => tcp.snd_win > 0
        BY Zenon, <2>1 DEF WindowOpen
      <3>3. \/ XmitSeqLen(tcp) = 1
            \/ /\ XmitSeqLen(tcp) = Minimum(Minimum(tcp.snd_win, TCP_PATH_MTU),
                                            TxLen(tcp))
               /\ Sent(tcp) + TxLen(tcp) = SendEnd(tcp)
               /\ "SYN" \in tcp.state.acked
            \/ Sent(tcp) = SendEnd(tcp)
        BY Zenon, <2>1, <2>3, XmitSeqLenCases
      <3>4. QED BY <2>3, <2>4, <3>1, <3>2, <3>3 DEF Minimum
    <2>6. QED BY Zenon, <2>2, <2>5 DEF Scheduled
  <1>2. QED BY <1>1, WorkInvariant, PTL
=============================================================================
