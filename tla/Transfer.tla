------------------------------ MODULE Transfer ------------------------------
(***************************************************************************)
(* The SAN device, which this module extends, beside it the overrides that *)
(* sandev_read lays over what it has read, and the HTTP transactions over  *)
(* their pooled connections.  A read is over when the overrides are        *)
(* applied, and so these share no state.                                   *)
(***************************************************************************)
EXTENDS Sanboot

CONSTANTS BlkSize, DiskBlocks, OverLen, MaxOver
CONSTANTS Https, Conns, Hosts, Methods, Size, Replies, MaxWaits
CONSTANT Viewed          \* the transaction whose opener is looked at
VARIABLES read_lba, blocks, overLoc, turns, read_buffer
VARIABLES http, conn, pool

V == INSTANCE SanOverride WITH
       lba <- read_lba, count <- blocks, i <- turns, buffer <- read_buffer
H == INSTANCE Http

(* sandev_read: every byte that is returned is the byte of the overlaid    *)
(* disk, wherever the read begins and ends relative to the ranges, and     *)
(* nothing beside the two buffers is touched.                              *)
ReadIsOverlaid == V!ReadIsOverlaid /\ V!InBounds

-----------------------------------------------------------------------------
(* What the opener of a transaction sees; a HEAD request transfers no file *)
HT == INSTANCE FileTransfer WITH
    have <- 0..(http[Viewed].got - 1),
    status <- CASE \/ http[Viewed].method = "HEAD"
                   \/ http[Viewed].status \in {"none", "running"} -> "running"
                [] http[Viewed].method # "HEAD" /\ http[Viewed].status = "ok" -> "ok"
                [] OTHER -> "failed"

(* httpcore.c: an HTTP transaction implements a file transfer.  Its opener *)
(* gets every byte once and in order, nothing of error pages or abandoned  *)
(* attempts, and is told of success only when the file is complete.        *)
HttpIsFileTransfer == HT!Spec

(* httpconn.c, pool.c: a pooled connection is open, has no user, and no    *)
(* request is outstanding and no byte of an earlier response on its way    *)
(* on it; a transaction only uses connections to its own server; and one   *)
(* that has a connection or a queued process has a state to run.  A        *)
(* recycled connection that its server has closed before it carried        *)
(* anything new never fails a transaction: the request is made again on    *)
(* another one.                                                            *)
PoolIsClean ==
    /\ [](H!PoolIsClean /\ H!StatePresent /\ H!RightHost)
    /\ H!StaleNeverFails
=============================================================================
