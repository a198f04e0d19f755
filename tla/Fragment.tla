------------------------------ MODULE Fragment ------------------------------
(***************************************************************************)
(* Reassembly of fragmented IP packets (net/fragment.c).  A fragment of    *)
(* datagram d is the interval [from, to) of its bytes; a byte is           *)
(* represented by its offset.  A datagram may be cut up in several ways    *)
(* when it is repeated or takes several paths, and its fragments arrive    *)
(* lost, repeated and in any order.                                        *)
(***************************************************************************)
EXTENDS Integers, Sequences

CONSTANTS
    Datagrams,   \* the datagrams, told apart by is_fragment()
    DataLen      \* the number of bytes of each

FragmentAssumption == DataLen \in Nat \ {0}

VARIABLES
    buffer,      \* reassembly buffer of each datagram, or NoBuffer
    packet       \* the packet last returned for each datagram, or NoBuffer

vars == <<buffer, packet>>

NoBuffer == [iobuf |-> <<>>, timer |-> FALSE]

(* The payload of a fragment *)
Bytes(from, to) == [i \in 1..(to - from) |-> from + i - 1]

Init ==
    /\ buffer = [d \in Datagrams |-> NoBuffer]
    /\ packet = [d \in Datagrams |-> NoBuffer]

-----------------------------------------------------------------------------
Found(d) == buffer[d] # NoBuffer
ExpectedOffset(d) == IF Found(d) THEN Len(buffer[d].iobuf) ELSE 0

(* Mutant: a fragment that overlaps is accepted *)
AcceptsOverlap(d, from) == from <= ExpectedOffset(d)

(* "Drop out-of-order fragments" *)
Accepts(d, from) == from = ExpectedOffset(d)

(* A new reassembly buffer takes over the first fragment *)
create(d, from, to) ==
    /\ ~Found(d) /\ Accepts(d, from)
    /\ buffer' = [buffer EXCEPT ![d] =
                    [iobuf |-> Bytes(from, to), timer |-> TRUE]]
    /\ UNCHANGED packet

(* Mutant: the timer is not restarted *)
ExtendUntimed(d, from, to) ==
    /\ Found(d) /\ Accepts(d, from) /\ to < DataLen
    /\ buffer' = [buffer EXCEPT ![d] =
                    [iobuf |-> @.iobuf \o Bytes(from, to), timer |-> FALSE]]
    /\ UNCHANGED packet

(* The buffer is reallocated, and its timer stopped and restarted *)
extend(d, from, to) ==
    /\ Found(d) /\ Accepts(d, from) /\ to < DataLen
    /\ buffer' = [buffer EXCEPT ![d] =
                    [iobuf |-> @.iobuf \o Bytes(from, to), timer |-> TRUE]]
    /\ UNCHANGED packet

(* The final fragment: the packet is returned and the buffer freed *)
complete(d, from, to) ==
    /\ Found(d) /\ Accepts(d, from) /\ to = DataLen
    /\ packet' = [packet EXCEPT ![d] =
                    [iobuf |-> buffer[d].iobuf \o Bytes(from, to),
                     timer |-> FALSE]]
    /\ buffer' = [buffer EXCEPT ![d] = NoBuffer]

(* Out of sequence, or no memory for the buffer or for its extension.  A   *)
(* buffer that could not be extended is kept, and its timer is running.    *)
drop(d, from, to) == UNCHANGED vars

(* fragment_reassemble is only called for fragments, never for a whole     *)
(* packet: from > 0 or more fragments follow.                              *)
fragment_reassemble(d, from, to) ==
    /\ from < to /\ (from > 0 \/ to < DataLen)
    /\ \/ create(d, from, to)
       \/ extend(d, from, to)
       \/ complete(d, from, to)
       \/ drop(d, from, to)

fragment_expired(d) ==
    /\ buffer[d].timer
    /\ buffer' = [buffer EXCEPT ![d] = NoBuffer]
    /\ UNCHANGED packet

Next ==
    \E d \in Datagrams :
      \/ \E from \in 0..(DataLen - 1), to \in 1..DataLen :
           fragment_reassemble(d, from, to)
      \/ fragment_expired(d)

Spec == Init /\ [][Next]_vars

-----------------------------------------------------------------------------
TypeOK ==
    /\ buffer \in [Datagrams -> [iobuf : Seq(Nat), timer : BOOLEAN]]
    /\ packet \in [Datagrams -> [iobuf : Seq(Nat), timer : BOOLEAN]]

(* A packet that is returned is the datagram, complete and in order,       *)
(* whatever overlaps, gaps and repetitions its fragments had               *)
(* (fragment_reassemble).                                                  *)
PacketExact ==
    \A d \in Datagrams :
      packet[d] # NoBuffer => packet[d].iobuf = Bytes(0, DataLen)

(* No reassembly buffer exists without a running timer, also after a       *)
(* failed extension or an out-of-sequence fragment: nothing is leaked.     *)
TimerRuns ==
    \A d \in Datagrams : Found(d) => buffer[d].timer

(* What a buffer holds is a proper beginning of its datagram *)
Prefixes ==
    \A d \in Datagrams : Found(d) =>
      \E n \in 1..(DataLen - 1) : buffer[d].iobuf = Bytes(0, n)
=============================================================================
