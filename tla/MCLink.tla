------------------------------- MODULE MCLink -------------------------------
(***************************************************************************)
(* What lies between the protocols and the wire, for TLC: reassembly, the  *)
(* neighbour cache, and the network device with its queues and rings.      *)
(* They share no state, and so a behaviour moves one of them, its part,    *)
(* while the others rest in their initial states.  The device is explored  *)
(* with many packets sent and at most one received (tx), and with many     *)
(* packets received and at most one sent (rx).                             *)
(***************************************************************************)
EXTENDS Link, TLC

VARIABLE part

fragmentVars == <<buffer, returned>>
deviceVars == <<at, netdev, tx, rx, isr, sent, fate, wire, got, passed, opens>>

ASSUME LinkAssumption ==
    F!FragmentAssumption /\ NeighbourAssumption /\ D!NetDeviceAssumption

(* Cache entries and link-layer addresses are interchangeable *)
Symmetry == Permutations(Entries) \cup Permutations(Lls)

LinkInit ==
    /\ part \in {"fragment", "neighbour", "tx", "rx"}
    /\ F!Init /\ Init /\ D!Init

LinkNext ==
    /\ UNCHANGED part
    /\ \/ part = "fragment" /\ F!Next /\ UNCHANGED <<vars, deviceVars>>
       \/ part = "neighbour" /\ Next /\ UNCHANGED <<fragmentVars, deviceVars>>
       \/ part = "tx" /\ D!Next /\ got' <= 1 /\ UNCHANGED <<vars, fragmentVars>>
       \/ part = "rx" /\ D!Next /\ sent' <= 1 /\ UNCHANGED <<vars, fragmentVars>>

LinkSpec == LinkInit /\ [][LinkNext]_<<part, vars, fragmentVars, deviceVars>>
=============================================================================
