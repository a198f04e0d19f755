-------------------------------- MODULE Tftp --------------------------------
(***************************************************************************)
(* The TFTP client (net/udp/tftp.c) in its three modes: plain TFTP, RFC    *)
(* 2090 multicast ("tftm") and MTFTP, with the block bitmap                *)
(* (core/bitmap.c) and the buffer of the downloader that opened it.        *)
(*                                                                         *)
(* The server is a conforming one.  A request it receives opens a session  *)
(* with a port of its own (the TID); a session sends the block after each  *)
(* block that is acknowledged to it.  The network keeps no queue: what may *)
(* arrive is whatever a session may have sent, up to Delay blocks late.    *)
(***************************************************************************)
EXTENDS XferBuf, FiniteSetsExt

CONSTANTS
    FileLen,             \* length of the file on the server
    BlockSpace,          \* block numbers on the wire wrap here (2^16)
    TFTP_DEFAULT_BLKSIZE,
    BlkSizes,            \* block sizes a server may grant
    MTFTP_MAX_TIMEOUTS,
    Mode,                \* "tftp", "tftm" or "mtftp"
    ServerOptions,       \* may the server answer with an OACK?
    MtftpServer,         \* is there a server on the MTFTP port?
    Tids,                \* server ports
    Repeats,             \* may a block that was received arrive again?
    Delay,               \* how many blocks late such a repetition may be
    MaxRetries,          \* expiries before retry.c must report failure
    Faults               \* which of the failures below may happen

TftpAssumption ==
    /\ {FileLen, Delay, MaxRetries, MTFTP_MAX_TIMEOUTS} \subseteq Nat
    /\ BlockSpace \in Nat \ {0} /\ TFTP_DEFAULT_BLKSIZE \in Nat \ {0}
    /\ BlkSizes \subseteq Nat \ {0}
    /\ Mode \in {"tftp", "tftm", "mtftp"}
    /\ {ServerOptions, MtftpServer, Repeats} \subseteq BOOLEAN
    /\ Faults \subseteq {"deliver", "seek", "nomem", "reopen", "error", "close"}

VARIABLES
    tftp,      \* struct tftp_request
    buffer,    \* the downloader's buffer
    session    \* what the server keeps for each of its ports

vars == <<tftp, buffer, session>>

NoPeer == "none"
Closed == [open |-> FALSE, blksize |-> TFTP_DEFAULT_BLKSIZE, oack |-> FALSE,
           acks |-> {}]

-----------------------------------------------------------------------------
(* The block bitmap.  A bit is recorded only within the length; the code   *)
(* has no memory there for any other.                                      *)
NoBitmap == [bits |-> {}, length |-> 0, first_gap |-> 0]

bitmap_test(map, bit) == bit < map.length /\ bit \in map.bits

bitmap_resize(map, length) == [map EXCEPT !.length = length]

bitmap_set(map, bit) ==
    LET new == [map EXCEPT !.bits = @ \cup ({bit} \cap 0..(map.length - 1))]
    IN  [new EXCEPT !.first_gap =
           Min({b \in @..Max({@, map.length}) : ~bitmap_test(new, b)})]

(* Mutant: the last block is taken for all of them *)
BitmapLast(map) == bitmap_test(map, map.length - 1)

bitmap_full(map) == map.first_gap = map.length

-----------------------------------------------------------------------------
(* tftp_done: the first status is the one the opener sees; interfaces that *)
(* are already shut down stay so.                                          *)
tftp_done(t, rc) ==
    [t EXCEPT !.timer = FALSE, !.mc = FALSE,
              !.rc = IF @ = "none" THEN rc ELSE @]

tftp_reopen(t) == [t EXCEPT !.flags = @ \ {"SEND_ACK"}, !.peer = NoPeer]

tftp_presize(t, filesize) ==
    IF filesize <= t.filesize THEN t
    ELSE [t EXCEPT !.filesize = filesize,
                   !.bitmap = bitmap_resize(@, filesize \div t.blksize + 1)]

(* The buffer after tftp_presize has told the recipient the new size *)
Presized(b, t, filesize) ==
    IF filesize <= t.filesize THEN b
    ELSE xfer_seek(xfer_seek(b, filesize), 0)

(* tftp_send_packet restarts the timer and sends an RRQ or perhaps an ACK. *)
(* A successful stop of a running timer makes retry.c count from the start *)
tftp_send_packet(t) ==
    [t EXCEPT !.timer = TRUE, !.expiries = IF t.timer THEN 0 ELSE @]

(* What the server may learn from that packet, if it is not lost: an RRQ   *)
(* opens a session, an ACK is counted by the session it is sent to.  The   *)
(* RRQ asks for options if RRQ_SIZES is set.  "open" are the sessions that *)
(* can still reach us.                                                     *)
Sent(t, open) ==
    \/ session' = open
    \/ /\ t.rc = "none" /\ t.peer = NoPeer
       /\ MtftpServer \/ "MTFTP_RECOVERY" \notin t.flags
       /\ \E tid \in Tids, b \in BlkSizes, options \in {FALSE, ServerOptions} :
            LET oack == options /\ "RRQ_SIZES" \in t.flags IN
            /\ ~open[tid].open
            /\ session' = [open EXCEPT ![tid] =
                 [open |-> TRUE, oack |-> oack,
                  blksize |-> IF oack THEN b ELSE TFTP_DEFAULT_BLKSIZE,
                  acks |-> IF oack THEN {} ELSE {0}]]
    \/ /\ t.rc = "none" /\ t.peer # NoPeer /\ "SEND_ACK" \in t.flags
       /\ open[t.peer].open
       /\ session' = [open EXCEPT ![t.peer].acks = @ \cup {t.bitmap.first_gap}]

-----------------------------------------------------------------------------
(* The server's file in blocks of "size", numbered from 1.  The last block *)
(* is shorter than the others, and empty if nothing is left for it.        *)
Blocks(size) == 1..(FileLen \div size + 1)

BlockBytes(size, n) ==
    LET from == (n - 1) * size
    IN  [i \in 1..Min({size, FileLen - from}) |-> from + i - 1]

(* The blocks session "s" may have sent, or sent again, up to Delay ago *)
Sendable(s) ==
    {n \in Blocks(s.blksize) :
       \E a \in s.acks : n = a + 1 /\ Max(s.acks) - a <= Delay}

-----------------------------------------------------------------------------
Init ==
    /\ tftp = [flags |-> CASE Mode = "tftp"  -> {"RRQ_SIZES"}
                           [] Mode = "tftm"  -> {"RRQ_SIZES", "RRQ_MULTICAST"}
                           [] Mode = "mtftp" -> {"MTFTP_RECOVERY"},
               blksize |-> TFTP_DEFAULT_BLKSIZE, tsize |-> 0, filesize |-> 0,
               peer |-> NoPeer, bitmap |-> NoBitmap, mtftp_timeouts |-> 0,
               mc |-> Mode = "mtftp", timer |-> TRUE, expiries |-> 0,
               rc |-> "none"]
    /\ buffer = EmptyBuffer
    /\ session = [tid \in Tids |-> Closed]

(* Give up the multicast transfer: plain TFTP from the start *)
FallBack(t) ==
    [tftp_reopen(t) EXCEPT !.flags = {"RRQ_SIZES"}, !.mc = FALSE,
                           !.bitmap = NoBitmap, !.expiries = 0]

(* tftp_timer_expired.  retry.c never reports failure for the first expiry *)
(* and always does after MaxRetries.  After a reopening nothing sent to    *)
(* the old local port arrives any more.                                    *)
tftp_timer_expired(fail) ==
    LET t        == [tftp EXCEPT !.timer = FALSE,
                                 !.expiries = Min({@ + 1, MaxRetries})]
        recovery == "MTFTP_RECOVERY" \in t.flags
        waiting  == recovery /\ t.peer = NoPeer
        waited   == [t EXCEPT !.mtftp_timeouts =
                                IF waiting THEN @ + 1 ELSE @]
        fallback == waiting /\ waited.mtftp_timeouts > MTFTP_MAX_TIMEOUTS
        reopen   == fallback \/ (recovery /\ ~waiting)
        next     == CASE fallback -> FallBack(waited)
                      [] reopen /\ ~fallback -> tftp_reopen(t)
                      [] OTHER -> waited
    IN  /\ tftp.timer
        /\ IF fail THEN tftp.expiries > 0 ELSE tftp.expiries < MaxRetries
        /\ UNCHANGED buffer
        /\ \/ /\ fail /\ ~recovery
              /\ tftp' = tftp_done(t, "timeout") /\ UNCHANGED session
           \/ /\ reopen /\ "reopen" \in Faults
              /\ tftp' = tftp_done(next, "reopen") /\ UNCHANGED session
           \/ /\ recovery \/ ~fail
              /\ tftp' = tftp_send_packet(next)
              /\ Sent(next, IF reopen THEN [tid \in Tids |-> Closed]
                            ELSE session)

-----------------------------------------------------------------------------
(* tftp_rx: the TID filter.  The first packet fixes the peer.  A unicast   *)
(* packet has already switched on SEND_ACK, whoever sent it.               *)
Received(tid, unicast) ==
    [tftp EXCEPT !.flags = IF unicast THEN @ \cup {"SEND_ACK"} ELSE @,
                 !.peer = IF @ = NoPeer THEN tid ELSE @]

(* A packet of another session than the peer's is dropped *)
rx_wrong_tid(tid) ==
    /\ tftp.rc = "none" /\ tftp.peer \notin {NoPeer, tid}
    /\ session[tid].open
    /\ tftp' = [tftp EXCEPT !.flags = @ \cup {"SEND_ACK"}]
    /\ UNCHANGED <<buffer, session>>

(* tftp_rx_oack: the block size, the file size unless the server left it   *)
(* out, and in multicast mode whether we are the master client.  The       *)
(* multicast socket is opened by the first OACK that names an address.     *)
tftp_rx_oack(tid, tsize, mc, fault) ==
    LET r     == Received(tid, TRUE)
        multi == mc # "none"
        t1    == [r EXCEPT !.blksize = session[tid].blksize,
                           !.tsize = IF tsize THEN FileLen ELSE @,
                           !.mc = @ \/ multi,
                           !.flags = IF mc = "slave" THEN @ \ {"SEND_ACK"}
                                     ELSE @]
        grow  == t1.tsize > t1.filesize
        t2    == tftp_presize(t1, t1.tsize)
        shut  == IF fault = "seek" THEN tftp_done(t2, "deliver") ELSE t2
    IN  /\ tftp.rc = "none" /\ tftp.peer \in {NoPeer, tid}
        /\ session[tid].open /\ session[tid].oack
        /\ fault # "none" => fault \in Faults \cap {"seek", "nomem", "reopen"}
        /\ fault \in {"seek", "nomem"} => grow
        /\ multi => "RRQ_MULTICAST" \in t1.flags
        /\ fault = "reopen" => multi
        /\ CASE fault = "reopen" ->
                  /\ tftp' = tftp_done(t1, "reopen")
                  /\ UNCHANGED <<buffer, session>>
             [] fault = "nomem" ->
                  /\ tftp' = tftp_done(t2, "nomem")
                  /\ buffer' = Presized(buffer, t1, t1.tsize)
                  /\ UNCHANGED session
             [] OTHER ->
                  /\ tftp' = tftp_send_packet(shut)
                  /\ buffer' = IF fault = "seek" THEN buffer
                               ELSE Presized(buffer, t1, t1.tsize)
                  /\ Sent(shut, session)

-----------------------------------------------------------------------------

(* The block number of a DATA packet, unwrapped with the first gap; -1 is  *)
(* the refused block 0                                                     *)
BlockNumber(t, wire) ==
    LET base == ((t.bitmap.first_gap + 1) \div BlockSpace) * BlockSpace
    IN  base + wire - 1

(* tftp_rx_data of the n-th block of a session that uses blocks of "size" *)
tftp_rx_data(tid, size, n, unicast, fault) ==
    LET t      == Received(tid, unicast)
        bytes  == BlockBytes(size, n)
        block  == BlockNumber(t, n % BlockSpace)
        offset == (block * t.blksize) % SizeSpace
        bad    == block = -1 \/ Len(bytes) > t.blksize
                  \/ WriteOverflows(offset, Len(bytes))
        end    == offset + Len(bytes)
        t1     == tftp_presize(t, end)
        t2     == [t1 EXCEPT !.bitmap = bitmap_set(@, block)]
        t3     == tftp_send_packet(t2)
    IN  /\ tftp.rc = "none" /\ tftp.peer \in {NoPeer, tid}
        /\ fault # "none" => fault \in Faults \cap {"deliver", "nomem"}
        /\ fault = "nomem" => ~bad /\ end > t.filesize
        /\ CASE bad \/ fault = "deliver" ->
                  /\ tftp' = tftp_done(t, IF bad THEN "invalid" ELSE "deliver")
                  /\ UNCHANGED <<buffer, session>>
             [] ~bad /\ fault = "nomem" ->
                  /\ tftp' = tftp_done(t1, "nomem")
                  /\ buffer' = xferbuf_deliver(buffer, offset, bytes)
                  /\ UNCHANGED session
             [] OTHER ->
                  /\ tftp' = IF bitmap_full(t2.bitmap) THEN tftp_done(t3, "ok")
                             ELSE t3
                  /\ buffer' = Presized(xferbuf_deliver(buffer, offset, bytes),
                                        t, end)
                  /\ Sent(t2, session)

(* tftp_rx_error, and the malformed OACK or DATA packets that end a        *)
(* request in the same way                                                 *)
tftp_rx_error(tid) ==
    /\ "error" \in Faults /\ tftp.rc = "none" /\ session[tid].open
    /\ tftp.peer \in {NoPeer, tid}
    /\ tftp' = tftp_done(Received(tid, TRUE), "error")
    /\ UNCHANGED <<buffer, session>>

(* The opener aborts the download *)
tftp_close ==
    /\ "close" \in Faults /\ tftp.rc = "none"
    /\ tftp' = tftp_done(tftp, "closed")
    /\ UNCHANGED <<buffer, session>>

-----------------------------------------------------------------------------
Fault == Faults \cup {"none"}

rx_oack ==
    \E tid \in Tids, tsize \in BOOLEAN, fault \in Fault,
       mc \in {"none", "master", "slave"} : tftp_rx_oack(tid, tsize, mc, fault)

(* DATA in answer to our ACK, or to a request without options *)
rx_unicast ==
    \E tid \in Tids, fault \in Fault :
      \E n \in Sendable(session[tid]) :
        /\ Repeats \/ n - 1 \notin tftp.bitmap.bits
        /\ tftp_rx_data(tid, session[tid].blksize, n, TRUE, fault)

(* DATA of a transfer we share with other clients: any block at any time *)
rx_multicast ==
    /\ tftp.mc
    /\ \E tid \in Tids, fault \in Fault :
         \/ /\ Mode = "tftm" /\ session[tid].oack
            /\ \E n \in Blocks(session[tid].blksize) :
                 tftp_rx_data(tid, session[tid].blksize, n, FALSE, fault)
         \/ /\ Mode = "mtftp" /\ MtftpServer
            /\ \E n \in Blocks(TFTP_DEFAULT_BLKSIZE) :
                 tftp_rx_data(tid, TFTP_DEFAULT_BLKSIZE, n, FALSE, fault)

Next ==
    \/ \E fail \in BOOLEAN : tftp_timer_expired(fail)
    \/ rx_oack \/ rx_unicast \/ rx_multicast
    \/ \E tid \in Tids : rx_wrong_tid(tid) \/ tftp_rx_error(tid)
    \/ tftp_close

Spec == Init /\ [][Next]_vars

(* The timer is polled again and again; a request or acknowledgement that  *)
(* is repeated for ever is received in the end, and so is its answer.      *)
Progress(A) == A /\ (session' # session \/ tftp'.rc # tftp.rc)

-----------------------------------------------------------------------------
TypeOK ==
    /\ tftp.flags \subseteq {"SEND_ACK", "RRQ_SIZES", "RRQ_MULTICAST",
                             "MTFTP_RECOVERY"}
    /\ tftp.peer \in Tids \cup {NoPeer}
    /\ {tftp.tsize, tftp.filesize, tftp.blksize, tftp.expiries,
        tftp.mtftp_timeouts, buffer.len} \subseteq Nat
    /\ tftp.bitmap.bits \subseteq 0..(tftp.bitmap.length - 1)
    /\ tftp.bitmap.first_gap \in 0..tftp.bitmap.length
    /\ {tftp.timer, tftp.mc} \subseteq BOOLEAN
    /\ DOMAIN buffer.data = 1..buffer.len

(* A successful end means that the buffer is the file, byte for byte and   *)
(* not longer, whatever was lost, repeated or received from another        *)
(* session (tftp_rx_data, tftp_presize, bitmap_full).                      *)
CompleteIsExact ==
    tftp.rc = "ok" => buffer.data = [i \in 1..FileLen |-> i - 1]

(* Every byte in the buffer is at its own offset, and every block that is  *)
(* marked in the bitmap, hence acknowledged and never asked for again, is  *)
(* in the buffer (tftp_rx_data; the block number is only 16 bits wide).    *)
MarkedIsStored ==
    /\ \A i \in DOMAIN buffer.data : buffer.data[i] \in {Unwritten, i - 1}
    /\ \A b \in tftp.bitmap.bits, i \in 1..tftp.blksize :
         b * tftp.blksize + i <= FileLen
           => buffer.data[b * tftp.blksize + i] # Unwritten

(* The packets of a conforming server are never refused as block 0, as     *)
(* longer than the block size or as beyond the largest offset              *)
(* (tftp_rx_data), although the block number 0 does occur after the wrap   *)
(* and two sessions may use different block sizes.                         *)
NeverRefused == tftp.rc # "invalid"

(* A multicast download that has not fallen back to plain TFTP ends only   *)
(* with the whole file, although its blocks arrive in any order, from the  *)
(* middle on, and the request is reopened in between.                      *)
MulticastCompletes ==
    tftp.rc = "ok" /\ "MTFTP_RECOVERY" \in tftp.flags
      => buffer.data = [i \in 1..FileLen |-> i - 1]
=============================================================================
