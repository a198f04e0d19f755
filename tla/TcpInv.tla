------------------------------- MODULE TcpInv -------------------------------
(***************************************************************************)
(* The inductive invariants behind the theorems of modules TcpStateProofs  *)
(* (the first two), TcpStreamProofs (the third) and TcpUploadProofs (the   *)
(* fourth and the fifth).                                                  *)
(***************************************************************************)
EXTENDS Tcp, TcpConnInv

(* The first invariant: whatever the peer does *)
QuietInv == TypeOK /\ ConnOK(tcp) /\ (pc # "idle" => tcp.listed)

(* The second, which holds as long as no SYN arrives before ours has been  *)
(* sent: the state flags form only the combinations tcp_close and tcp_rx_* *)
(* allow for, FIN follows an acknowledged SYN, each unacknowledged flag is *)
(* counted once as pending, the timers run only in the states their        *)
(* callbacks assert, and the peer has received no more than was sent.      *)
StateInv ==
    /\ QuietInv
    /\ tcp.listed => LiveOK(tcp, wire.nxt) /\ SettledOK(tcp)
    /\ ~tcp.listed /\ tcp.rc = "none" => wire.nxt = 0 /\ ~wire.est
    /\ peer_rcv <= wire.nxt
    /\ wire.est /\ tcp.listed => "SYN" \in tcp.state.rcvd

-----------------------------------------------------------------------------
(* Receiving.  The network may deliver a segment of any age, so that the   *)
(* signed comparison of sequence numbers is right as long as the stream is *)
(* shorter than half of their space.                                       *)
ShortStream == RxBytes < SeqSpace \div 2 /\ RxBytes + 2 < SeqSpace

(* A queued packet is a part of the peer's stream and names its place *)
PartOfStream(q) ==
    /\ q.seq = Add(PeerISS, q.pos)
    /\ q.pos > 0 /\ q.pos + q.len <= RxBytes + 1
    /\ q.fin => q.pos + q.len = RxBytes + 1

(* Units of the peer's sequence space received, the SYN included *)
Received(c) == Sub(c.rcv_ack, PeerISS)

(* A connection that has given n bytes to the application *)
ReceivingOK(c, n) ==
    /\ Received(c) \in 1..(RxBytes + 2)
    /\ ~c.xfer_closed => Received(c) = n + 1
    /\ \A i \in 1..Len(c.rx_queue) : PartOfStream(c.rx_queue[i])

(* The third invariant: what has been delivered is the beginning of the    *)
(* stream, rcv_ack counts it while the application is listening, a normal  *)
(* end is reported only after all of it, and no window is taken back.      *)
StreamInv ==
    /\ StateInv
    /\ \A i \in 1..Len(delivered) : delivered[i] = i
    /\ tcp.rc = "ok" => Len(delivered) = RxBytes
    /\ "SYN" \notin tcp.state.rcvd /\ ~tcp.xfer_closed => delivered = <<>>
    /\ tcp.listed /\ "SYN" \in tcp.state.rcvd =>
         ReceivingOK(tcp, Len(delivered))
    /\ ~wire.est => wire.edge = 0
    /\ tcp.listed /\ wire.est => wire.edge <= Received(tcp) + tcp.rcv_win

-----------------------------------------------------------------------------
(* Sending.  Acknowledgements may be of any age as well: no two positions  *)
(* of the upload have the same sequence number.                            *)
ShortUpload == TxBytes + 2 < SeqSpace

(* Units of our sequence space that are acknowledged, the SYN included *)
Sent(c) == Sub(c.snd_seq, ISS)

(* The end of the sequence space that c has or will have to send *)
SendEnd(c) == 1 + TxEnd(c) + One("FIN" \in c.state.sent)

(* snd_seq counts what is acknowledged, a FIN is sent only when the queue  *)
(* is empty, and nothing is sent beyond the end.                           *)
SendingOK(c, nxt) ==
    /\ Sent(c) = One("SYN" \in c.state.acked) + c.tx_pos
                 + One("FIN" \in c.state.acked)
    /\ c.tx_pos > 0 => "SYN" \in c.state.acked
    /\ "FIN" \in c.state.sent => c.tx_queue = <<>>
    /\ Sent(c) + c.snd_sent <= SendEnd(c) /\ nxt <= SendEnd(c)
    /\ TxEnd(c) <= TxBytes

(* The fourth invariant: bytes taken off the transmit queue have been      *)
(* received by the peer, and snd_seq, snd_sent and the highest number the  *)
(* network has seen lie within what there is to send.                      *)
UploadInv ==
    /\ StateInv
    /\ tcp.tx_pos > 0 => tcp.tx_pos < peer_rcv
    /\ ~tcp.listed /\ tcp.rc = "none" => tcp.tx_pos = 0 /\ tcp.snd_sent = 0
    /\ tcp.listed => SendingOK(tcp, wire.nxt)

(* The fifth, for a peer whose SYN always answers ours and that never      *)
(* closes its window: outside tcp_rx a connection with something to send   *)
(* has its retransmission timer running or its process scheduled.          *)
WorkInv ==
    /\ UploadInv
    /\ tcp.listed => /\ "SYN" \in tcp.state.rcvd => "SYN" \in tcp.state.acked
                     /\ "SYN" \in tcp.state.acked => tcp.snd_win > 0
    /\ tcp.listed /\ pc # "queue" /\ XmitSeqLen(tcp) > 0 => tcp.timer \/ tcp.process
=============================================================================
