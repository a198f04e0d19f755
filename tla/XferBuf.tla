------------------------------ MODULE XferBuf -------------------------------
(***************************************************************************)
(* Data transfer buffers (core/xferbuf.c): where a download is put         *)
(* together.  A byte is represented by its offset in the file it comes     *)
(* from, so that a buffer shows which byte ended up where.                 *)
(***************************************************************************)
EXTENDS Integers, Sequences

CONSTANT SizeSpace   \* offsets and sizes wrap here (2^32 in the code)

SizeSpaceAssumption == SizeSpace \in Nat \ {0}

Unwritten == -1      \* what the buffer holds where nothing was written

EmptyBuffer == [len |-> 0, pos |-> 0, data |-> <<>>]

(* Mutant: the old contents are not kept *)
EnsureFresh(b, len) ==
    IF len <= b.len THEN b
    ELSE [b EXCEPT !.len = len, !.data = [i \in 1..len |-> Unwritten]]

(* Grow the buffer to at least "len" bytes (successful reallocation) *)
xferbuf_ensure_size(b, len) ==
    IF len <= b.len THEN b
    ELSE [b EXCEPT !.len = len,
                   !.data = [i \in 1..len |-> IF i <= b.len THEN b.data[i]
                                              ELSE Unwritten]]

(* -EOVERFLOW *)
WriteOverflows(offset, len) == (offset + len) % SizeSpace < offset

(* Write the bytes "bytes" at an absolute offset and move to their end *)
xferbuf_deliver(b, offset, bytes) ==
    LET big == xferbuf_ensure_size(b, offset + Len(bytes))
    IN  [big EXCEPT !.pos = offset + Len(bytes),
                    !.data = [i \in DOMAIN big.data |->
                                IF i > offset /\ i <= offset + Len(bytes)
                                THEN bytes[i - offset] ELSE big.data[i]]]

(* xfer_seek(): a delivery of no bytes *)
xfer_seek(b, offset) == xferbuf_deliver(b, offset, <<>>)
=============================================================================
