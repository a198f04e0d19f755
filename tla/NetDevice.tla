------------------------------ MODULE NetDevice -----------------------------
(***************************************************************************)
(* A network device (net/netdevice.c) on top of the descriptor rings of    *)
(* the Realtek driver (drivers/net/realtek.c, not in legacy mode), with    *)
(* the card reading and writing the rings at any moment.  A packet the     *)
(* ring has no room for is deferred by the driver and transmitted when a   *)
(* completion makes room.                                                  *)
(*                                                                         *)
(* The loops of a poll are steps of their own, between which the card can  *)
(* act: "tx" and "rx" are the loops of the driver ("txrx" when both are to *)
(* run), "stack" the loop of net_poll that hands packets to the network    *)
(* layer, which may transmit.                                              *)
(***************************************************************************)
EXTENDS Lists, Functions

CONSTANTS
    NumTx, NumRx,  \* RTL_NUM_TX_DESC and RTL_NUM_RX_DESC
    Wrap,          \* the counters wrap here, at 2^32 in the code
    MaxTx, MaxRx,  \* bounds on the packets sent and received
    MaxOpens       \* bound on the times the device is opened

NetDeviceAssumption ==
    /\ {NumTx, NumRx} \subseteq Nat \ {0} /\ {MaxTx, MaxRx, MaxOpens} \subseteq Nat
    /\ Wrap \in Nat /\ Wrap > NumTx /\ Wrap > NumRx
    /\ Wrap % NumTx = 0 /\ Wrap % NumRx = 0

VARIABLES
    at,      \* what the software is doing
    netdev,  \* struct net_device: open, frozen and the three queues
    tx, rx,  \* struct realtek_ring, each with the card's own index
    isr,     \* the interrupt status register
    sent,    \* the number of packets given to netdev_tx
    fate,    \* what became of each of them
    wire,    \* the last packet the card put on the wire
    got,     \* the number of packets that reached the card
    passed,  \* the last packet handed to the network layer
    opens    \* the number of times the device was opened

vars == <<at, netdev, tx, rx, isr, sent, fate, wire, got, passed, opens>>

TxReset == [prod |-> 0, cons |-> 0, card |-> 0,
            desc |-> [i \in 0..(NumTx - 1) |-> [own |-> FALSE, pkt |-> 0]]]
RxReset == [prod |-> 0, cons |-> 0, card |-> 0,
            desc |-> [i \in 0..(NumRx - 1) |->
                        [own |-> FALSE, pkt |-> 0, iobuf |-> FALSE]]]
Closed == [open |-> FALSE, frozen |-> FALSE, tx_queue |-> <<>>,
           tx_deferred |-> <<>>, rx_queue |-> <<>>]

Used(ring) == (ring.prod - ring.cons) % Wrap
Inc(n) == (n + 1) % Wrap

-----------------------------------------------------------------------------
(* Transmission: T is a record of netdev, tx and fate *)

TxNow == [netdev |-> netdev, tx |-> tx, fate |-> fate]
TxBecome(T) == netdev' = T.netdev /\ tx' = T.tx /\ fate' = T.fate

Discard(T, S, f) == [T EXCEPT !.fate = [p \in DOMAIN @ |-> IF p \in S THEN f ELSE @[p]]]

(* list_del of the packet *)
Unlisted(q, p) == list_del(q, CHOOSE i \in DOMAIN q : q[i] = p)

(* netdev_tx_complete_err with an error: all deferred packets are cancelled *)
netdev_tx_complete_err(T, p) ==
    [Discard(T, {p} \cup Range(T.netdev.tx_deferred), "error") EXCEPT
        !.netdev.tx_queue = Unlisted(@, p),
        !.netdev.tx_deferred = <<>>]

(* Mutant: the packet is put before those deferred earlier *)
DeferFirst(T, p) ==
    [T EXCEPT !.netdev.tx_queue = Unlisted(@, p),
              !.netdev.tx_deferred = <<p>> \o @]

netdev_tx_defer(T, p) ==
    [T EXCEPT !.netdev.tx_queue = Unlisted(@, p),
              !.netdev.tx_deferred = Append(@, p)]

(* The packet cannot always be mapped for DMA *)
realtek_transmit(T, p, mapped) ==
    LET i == T.tx.prod % NumTx
    IN  IF Used(T.tx) >= NumTx THEN netdev_tx_defer(T, p)
        ELSE IF ~mapped THEN netdev_tx_complete_err(T, p)
        ELSE [T EXCEPT !.tx.prod = Inc(@),
                       !.tx.desc[i] = [own |-> TRUE, pkt |-> p]]

netdev_tx(T, p, mapped) ==
    LET Q == [T EXCEPT !.netdev.tx_queue = Append(@, p)]
    IN  IF T.netdev.open THEN realtek_transmit(Q, p, mapped)
        ELSE netdev_tx_complete_err(Q, p)

(* netdev_tx_complete_next with success: the oldest packet of the queue is *)
(* done, the first deferred packet is tried again                          *)
netdev_tx_complete_next(T, mapped) ==
    LET D == [Discard(T, {Head(T.netdev.tx_queue)}, "done") EXCEPT
                !.netdev.tx_queue = Tail(@)]
        p == Head(D.netdev.tx_deferred)
    IN  IF T.netdev.tx_queue = <<>> THEN T
        ELSE IF D.netdev.tx_deferred = <<>> THEN D
        ELSE netdev_tx([D EXCEPT !.netdev.tx_deferred = Tail(@)], p, mapped)

-----------------------------------------------------------------------------
(* Actions of the software *)

Init ==
    /\ at = "idle" /\ netdev = Closed /\ tx = TxReset /\ rx = RxReset /\ isr = {}
    /\ sent = 0 /\ fate = [p \in 1..MaxTx |-> "none"]
    /\ wire = 0 /\ got = 0 /\ passed = 0 /\ opens = 0

(* A packet is sent from outside the driver *)
Send ==
    /\ at \in {"idle", "stack"} /\ sent < MaxTx /\ sent' = sent + 1
    /\ \E mapped \in BOOLEAN :
         TxBecome(netdev_tx([TxNow EXCEPT !.fate[sent + 1] = "held"], sent + 1, mapped))
    /\ UNCHANGED <<at, rx, isr, wire, got, passed, opens>>

(* Memory is short: the first deferred packet is dropped *)
net_discard ==
    /\ at \in {"idle", "stack"} /\ netdev.tx_deferred # <<>>
    /\ TxBecome([Discard(TxNow, {Head(netdev.tx_deferred)}, "error") EXCEPT
                   !.netdev.tx_deferred = Tail(@)])
    /\ UNCHANGED <<at, rx, isr, sent, wire, got, passed, opens>>

(* net_poll and realtek_poll up to the loops; without an interrupt nothing *)
(* is polled                                                               *)
net_poll ==
    /\ at = "idle"
    /\ IF netdev.open /\ isr # {}
       THEN at' = CASE {"tx", "rx"} \subseteq isr -> "txrx"
                    [] isr \cap {"tx", "rx"} = {"tx"} -> "tx"
                    [] isr \cap {"tx", "rx"} = {"rx"} -> "rx"
                    [] OTHER -> "refill"
       ELSE at' = (IF netdev.frozen THEN "idle" ELSE "stack")
    /\ isr' = IF netdev.open THEN {} ELSE isr
    /\ at' # "stack" \/ netdev.rx_queue # <<>>
    /\ UNCHANGED <<netdev, tx, rx, sent, fate, wire, got, passed, opens>>

(* Mutant: a completion does not look at the deferred packets *)
PollTxOnce ==
    LET i == tx.cons % NumTx
    IN  /\ at \in {"tx", "txrx"}
        /\ IF tx.cons = tx.prod \/ tx.desc[i].own
           THEN at' = (IF at = "txrx" THEN "rx" ELSE "refill") /\ UNCHANGED <<netdev, tx, fate>>
           ELSE /\ TxBecome([Discard(TxNow, {Head(netdev.tx_queue)}, "done") EXCEPT
                               !.tx.cons = Inc(@), !.netdev.tx_queue = Tail(@)])
                /\ UNCHANGED at
        /\ UNCHANGED <<rx, isr, sent, wire, got, passed, opens>>

(* One turn of the loop *)
realtek_poll_tx ==
    LET i == tx.cons % NumTx
    IN  /\ at \in {"tx", "txrx"}
        /\ IF tx.cons = tx.prod \/ tx.desc[i].own
           THEN at' = (IF at = "txrx" THEN "rx" ELSE "refill") /\ UNCHANGED <<netdev, tx, fate>>
           ELSE /\ \E mapped \in BOOLEAN :
                     TxBecome(netdev_tx_complete_next(
                       [TxNow EXCEPT !.tx.cons = Inc(@)], mapped))
                /\ UNCHANGED at
        /\ UNCHANGED <<rx, isr, sent, wire, got, passed, opens>>

(* One turn of the loop: a packet goes to the receive queue, or is dropped *)
(* as bad                                                                  *)
realtek_poll_rx ==
    LET i == rx.cons % NumRx
    IN  /\ at = "rx"
        /\ IF rx.cons = rx.prod \/ rx.desc[i].own
           THEN at' = "refill" /\ UNCHANGED <<netdev, rx>>
           ELSE /\ \/ netdev' = [netdev EXCEPT !.rx_queue = Append(@, rx.desc[i].pkt)]
                   \/ UNCHANGED netdev
                /\ rx' = [rx EXCEPT !.cons = Inc(@), !.desc[i].iobuf = FALSE]
                /\ UNCHANGED at
        /\ UNCHANGED <<tx, fate, isr, sent, wire, got, passed, opens>>

(* n buffers could be allocated *)
realtek_refill_rx(R, n) ==
    LET filled == {(R.prod + j) % NumRx : j \in 0..(n - 1)}
    IN  [R EXCEPT !.prod = (@ + n) % Wrap,
                  !.desc = [i \in DOMAIN @ |-> IF i \in filled
                              THEN [own |-> TRUE, pkt |-> 0, iobuf |-> TRUE] ELSE @[i]]]

Refill ==
    /\ at = "refill"
    /\ \E n \in 0..(NumRx - Used(rx)) : rx' = realtek_refill_rx(rx, n)
    /\ at' = IF netdev.frozen \/ netdev.rx_queue = <<>> THEN "idle" ELSE "stack"
    /\ UNCHANGED <<netdev, tx, fate, isr, sent, wire, got, passed, opens>>

(* net_poll hands a packet to the network layer *)
net_rx ==
    /\ at = "stack"
    /\ IF netdev.rx_queue = <<>> THEN UNCHANGED <<netdev, passed>>
       ELSE /\ passed' = Head(netdev.rx_queue)
            /\ netdev' = [netdev EXCEPT !.rx_queue = Tail(@)]
    /\ at' = IF Len(netdev.rx_queue) <= 1 THEN "idle" ELSE "stack"
    /\ UNCHANGED <<tx, rx, isr, sent, fate, wire, got, opens>>

(* The holder of a frozen device takes packets by itself *)
netdev_rx_dequeue ==
    /\ at = "idle" /\ netdev.frozen /\ netdev.rx_queue # <<>>
    /\ passed' = Head(netdev.rx_queue)
    /\ netdev' = [netdev EXCEPT !.rx_queue = Tail(@)]
    /\ UNCHANGED <<at, tx, rx, isr, sent, fate, wire, got, opens>>

netdev_rx_freeze ==
    /\ at = "idle" /\ netdev.open /\ netdev' = [netdev EXCEPT !.frozen = ~@]
    /\ UNCHANGED <<at, tx, rx, isr, sent, fate, wire, got, passed, opens>>

(* realtek_open fills the receive ring as far as memory goes *)
netdev_open ==
    /\ at = "idle" /\ ~netdev.open /\ opens < MaxOpens /\ opens' = opens + 1
    /\ netdev' = [netdev EXCEPT !.open = TRUE]
    /\ tx' = TxReset /\ \E n \in 0..NumRx : rx' = realtek_refill_rx(RxReset, n)
    /\ isr' = {}
    /\ UNCHANGED <<at, sent, fate, wire, got, passed>>

(* Mutant: the queues are flushed before the driver is closed *)
CloseKeepsRing ==
    /\ at \in {"idle", "stack"} /\ netdev.open
    /\ fate' = [p \in DOMAIN fate |-> IF fate[p] = "held" THEN "error" ELSE fate[p]]
    /\ netdev' = [netdev EXCEPT !.open = FALSE, !.tx_queue = <<>>,
                                !.tx_deferred = <<>>, !.rx_queue = <<>>]
    /\ UNCHANGED <<at, tx, rx, isr, sent, wire, got, passed, opens>>

(* netdev_tx_flush cancels the oldest packet of the queue, and with it all *)
(* that are deferred, until the queue is empty                             *)
netdev_tx_flush(T) ==
    IF T.netdev.tx_queue = <<>> THEN T
    ELSE [Discard(T, Range(T.netdev.tx_queue) \cup Range(T.netdev.tx_deferred), "error")
            EXCEPT !.netdev.tx_queue = <<>>, !.netdev.tx_deferred = <<>>]

netdev_close ==
    /\ at \in {"idle", "stack"} /\ netdev.open
    /\ LET T == netdev_tx_flush([TxNow EXCEPT !.netdev.open = FALSE, !.tx = TxReset])
       IN  TxBecome([T EXCEPT !.netdev.rx_queue = <<>>])
    /\ rx' = RxReset
    /\ UNCHANGED <<at, isr, sent, wire, got, passed, opens>>

-----------------------------------------------------------------------------
(* Actions of the card; it has no access to the rings of a closed device *)

CardTx ==
    LET d == tx.desc[tx.card]
    IN  /\ d.own /\ wire' = d.pkt
        /\ tx' = [tx EXCEPT !.desc[tx.card].own = FALSE, !.card = (@ + 1) % NumTx]
        /\ isr' = isr \cup {"tx"}
        /\ UNCHANGED <<at, netdev, rx, sent, fate, got, passed, opens>>

(* Without a descriptor the packet is lost and the overrun reported *)
CardRx ==
    /\ got < MaxRx /\ got' = got + 1 /\ netdev.open
    /\ IF rx.desc[rx.card].own
       THEN /\ rx' = [rx EXCEPT !.desc[rx.card] = [own |-> FALSE, pkt |-> got + 1, iobuf |-> TRUE],
                                !.card = (@ + 1) % NumRx]
            /\ isr' = isr \cup {"rx"}
       ELSE isr' = isr \cup {"other"} /\ UNCHANGED rx
    /\ UNCHANGED <<at, netdev, tx, sent, fate, wire, passed, opens>>

Poll == net_poll \/ realtek_poll_tx \/ realtek_poll_rx \/ Refill \/ net_rx
Next ==
    \/ Send \/ net_discard \/ net_poll \/ realtek_poll_tx \/ realtek_poll_rx
    \/ Refill \/ net_rx \/ netdev_rx_dequeue \/ netdev_rx_freeze
    \/ netdev_open \/ netdev_close \/ CardTx \/ CardRx

Spec == Init /\ [][Next]_vars

-----------------------------------------------------------------------------
Outstanding == [j \in 1..Used(tx) |-> tx.desc[(tx.cons + j - 1) % NumTx].pkt]

(* netdev_tx_complete_next takes the oldest packet of the queue to be the  *)
(* one whose descriptor the driver has found complete: the queue and the   *)
(* ring hold the same packets in the same order, and nothing waits for a   *)
(* completion that cannot come                                             *)
QueueIsRing ==
    /\ netdev.tx_queue = Outstanding
    /\ netdev.tx_deferred # <<>> => Used(tx) = NumTx

(* netdev_tx_defer: "out-of-order transmissions and other nastiness" do    *)
(* not happen, packets reach the wire in the order they were sent, each at *)
(* most once                                                               *)
WireInOrder == [][wire' >= wire /\ (CardTx => wire' > wire)]_vars

(* netdev_close, netdev_tx_flush: the buffer of a descriptor that the card *)
(* owns is not freed, and a packet is freed exactly when it has left both  *)
(* queues                                                                  *)
BuffersOwned ==
    /\ \A i \in DOMAIN tx.desc : tx.desc[i].own => fate[tx.desc[i].pkt] = "held"
    /\ \A p \in 1..MaxTx : fate[p] = "held" <=>
         p \in Range(netdev.tx_queue) \cup Range(netdev.tx_deferred)

(* realtek_refill_rx, realtek_poll_rx: the card owns only descriptors      *)
(* between the two counters, each with a buffer, and a free slot has none  *)
RxRingSound ==
    \A i \in DOMAIN rx.desc :
        /\ rx.desc[i].iobuf <=> \E j \in 0..(Used(rx) - 1) : i = (rx.cons + j) % NumRx
        /\ rx.desc[i].own => rx.desc[i].iobuf

(* realtek_poll_rx, net_poll: packets come to the network layer in the     *)
(* order in which they arrived, none of them twice                         *)
PassedInOrder ==
    LET q == <<passed>> \o netdev.rx_queue
    IN  \A i \in 1..(Len(q) - 1) : q[i] < q[i + 1]

Received(p) == \E i \in DOMAIN rx.desc :
                 rx.desc[i].pkt = p /\ rx.desc[i].iobuf /\ ~rx.desc[i].own
=============================================================================
