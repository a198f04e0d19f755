-------------------------------- MODULE Link --------------------------------
(***************************************************************************)
(* The neighbour cache, which this module extends, and beside it the       *)
(* reassembly of fragments and a network device.  They share no state.     *)
(***************************************************************************)
EXTENDS Neighbour

CONSTANTS
    Datagrams, DataLen,                             \* Fragment
    NumTx, NumRx, Wrap, MaxTx, MaxRx, MaxOpens      \* NetDevice
VARIABLES
    buffer, returned,                               \* Fragment
    at, netdev, tx, rx, isr, sent, fate, wire, got, passed, opens  \* NetDevice

F == INSTANCE Fragment WITH packet <- returned
D == INSTANCE NetDevice

(* fragment.c: whatever is returned as a complete datagram is exactly the  *)
(* datagram that was sent, in whatever order its fragments arrived and     *)
(* however often.                                                          *)
PacketExact == F!PacketExact

(* fragment.c: every reassembly buffer in the list has its timer running,  *)
(* and so none stays for ever.                                             *)
TimerRuns == F!TimerRuns

(* netdevice.c, realtek.c: the queue that netdev_tx_complete_next takes    *)
(* from and the ring hold the same packets in the same order; the card     *)
(* owns only descriptors between the two counters, each with a buffer that *)
(* is not freed, across overruns of the ring, wraps of the counters,       *)
(* freezing and closing.                                                   *)
RingsSound == D!QueueIsRing /\ D!BuffersOwned /\ D!RxRingSound

(* netdev_tx_defer, realtek_poll_rx, net_poll: packets reach the wire in   *)
(* the order in which they were sent, and the network layer in the order   *)
(* in which they arrived, none of them twice.                              *)
PacketsInOrder == D!WireInOrder /\ []D!PassedInOrder
=============================================================================
