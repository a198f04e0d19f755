------------------------------- MODULE TcpSeq -------------------------------
(***************************************************************************)
(* TCP sequence number arithmetic (include/ipxe/tcp.h) and the selective   *)
(* acknowledgement list built from the receive queue (net/tcp.c).          *)
(*                                                                         *)
(* Sequence numbers are uint32_t in the code; here they wrap at SeqSpace,  *)
(* which the configurations make small so that wrapping really happens.    *)
(* A SACK block is the half-open range [left, right); the code marks an    *)
(* unused slot of tcp->sack[] by left = right, the model leaves it out of  *)
(* the sequence.                                                           *)
(***************************************************************************)
EXTENDS Integers, Sequences

CONSTANTS
    SeqSpace,      \* size of the sequence number space (2^32 in the code)
    TCP_SACK_MAX   \* number of SACK blocks in one segment (3 in the code)

ASSUME SeqSpaceAssumption == SeqSpace \in Nat /\ SeqSpace > 1
ASSUME SackMaxAssumption == TCP_SACK_MAX \in Nat

SeqNo == 0 .. SeqSpace - 1

Add(a, n) == (a + n) % SeqSpace
Sub(a, b) == (a - b) % SeqSpace

(* The difference seq1 - seq2 read as a signed number *)
tcp_cmp(seq1, seq2) ==
    LET d == Sub(seq1, seq2)
    IN  IF d < SeqSpace \div 2 THEN d ELSE d - SeqSpace

tcp_in_window(seq, start, len) == Sub(seq, start) < len

-----------------------------------------------------------------------------
(* One pass of the search for the block holding "seq": "stop" is the break *)
SackScan(seq, acc, q) ==
    LET gap   == tcp_cmp(q.seq, acc.right) > 0
        right == IF tcp_cmp(q.nxt, acc.right) > 0 THEN q.nxt ELSE acc.right
    IN  IF acc.stop \/ (gap /\ tcp_cmp(q.seq, seq) > 0)
        THEN [acc EXCEPT !.stop = TRUE]
        ELSE [acc EXCEPT !.left = IF gap THEN q.seq ELSE @, !.right = right]

(* The SACK block holding "seq", or the empty range when there is none *)
tcp_sack_block(queue, rcv_ack, seq) ==
    LET none  == [left |-> rcv_ack, right |-> rcv_ack]
        scan[i \in 0..Len(queue)] ==
            IF i = 0 THEN [left |-> rcv_ack, right |-> rcv_ack, stop |-> FALSE]
            ELSE SackScan(seq, scan[i - 1], queue[i])
        found == scan[Len(queue)]
    IN  IF tcp_cmp(found.right, seq) < 0 THEN none
        ELSE [left |-> found.left, right |-> found.right]

(* Mutant: a block may be listed twice *)
SackAddAgain(new, block) ==
    IF Len(new) = TCP_SACK_MAX \/ block.left = block.right THEN new
    ELSE Append(new, block)

(* Add one candidate block to the new list, unless it is full, the block   *)
(* is empty or its left edge is already listed                             *)
SackAdd(new, block) ==
    IF \/ Len(new) = TCP_SACK_MAX
       \/ block.left = block.right
       \/ \E i \in DOMAIN new : new[i].left = block.left
    THEN new
    ELSE Append(new, block)

(* The new SACK list: the block of "seq" first, then the old blocks *)
tcp_sack(queue, rcv_ack, old, seq) ==
    LET block(s) == tcp_sack_block(queue, rcv_ack, s)
        list[i \in 0..Len(old)] ==
            IF i = 0 THEN SackAdd(<<>>, block(seq))
            ELSE SackAdd(list[i - 1], block(old[i].left))
    IN  list[Len(old)]

(* What tcp_rx_seq does to the SACK list once rcv_ack has moved *)
SackTrim(old, rcv_ack) ==
    LET clip(x) == IF tcp_cmp(x, rcv_ack) < 0 THEN rcv_ack ELSE x
        clipped == [i \in DOMAIN old |->
                      [left |-> clip(old[i].left), right |-> clip(old[i].right)]]
    IN  SelectSeq(clipped, LAMBDA b : b.left # b.right)
=============================================================================
