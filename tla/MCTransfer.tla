----------------------------- MODULE MCTransfer -----------------------------
(***************************************************************************)
(* What moves files and blocks, for TLC: HTTP, the SAN device and the      *)
(* overrides that iVentoy lays over what it reads, which this module       *)
(* extends, TFTP, and the iSCSI initiator.  HTTP and TFTP are shown to     *)
(* implement FileTransfer.  A behaviour moves one of them in one setting,  *)
(* its part, while the others rest in their initial states.                *)
(*                                                                         *)
(*   plain       TFTP with every fault, repetitions and two server ports   *)
(*   wrap        a file of more blocks than there are block numbers        *)
(*   tftm        TFTP with the multicast option                            *)
(*   fallback    MTFTP without a server on its port                        *)
(*   mtftp       MTFTP with one                                            *)
(*   http        two transactions that share one server's connections      *)
(*   hosts       the same with two servers                                 *)
(*   replies     one transaction and every kind of response                *)
(*   sanboot     commands over several paths                               *)
(*   override    the overrides                                             *)
(*   iscsi       the iSCSI initiator and a target                          *)
(***************************************************************************)
EXTENDS Transfer

VARIABLES
    part, tftp, buffer, session,
    open, status, port, tx, rx, iob, loop, scsi_command, data, window, r2t, din,
    result, wire, target, stream

sanbootVars == <<opened, closed, path_rc, active, timer, command, command_rc,
                 pc, events, retries, lba, moved>>
overrideVars == <<read_lba, blocks, overLoc, turns, read_buffer>>
diskVars == <<sanbootVars, overrideVars>>
tftpVars == <<tftp, buffer, session>>
httpVars == <<http, conn, pool>>
iscsiVars == <<open, status, port, tx, rx, iob, loop, scsi_command, data, window,
               r2t, din, result, wire, target, stream>>

AllFaults == {"deliver", "seek", "nomem", "reopen", "error", "close"}

T == INSTANCE Tftp WITH
       Mode <- "tftp", MtftpServer <- FALSE, FileLen <- 3, BlkSizes <- {1, 2},
       SizeSpace <- 64, BlockSpace <- 8, TFTP_DEFAULT_BLKSIZE <- 1,
       MTFTP_MAX_TIMEOUTS <- 1, ServerOptions <- TRUE, Tids <- {"tid1", "tid2"},
       Repeats <- TRUE, Delay <- 8, MaxRetries <- 2, Faults <- AllFaults
W == INSTANCE Tftp WITH
       Mode <- "tftp", MtftpServer <- FALSE, FileLen <- 3, BlkSizes <- {1},
       SizeSpace <- 64, BlockSpace <- 2, TFTP_DEFAULT_BLKSIZE <- 1,
       MTFTP_MAX_TIMEOUTS <- 1, ServerOptions <- TRUE, Tids <- {"tid1", "tid2"},
       Repeats <- FALSE, Delay <- 0, MaxRetries <- 1, Faults <- {}
M == INSTANCE Tftp WITH
       Mode <- "tftm", MtftpServer <- FALSE, FileLen <- 3, BlkSizes <- {2},
       SizeSpace <- 64, BlockSpace <- 8, TFTP_DEFAULT_BLKSIZE <- 1,
       MTFTP_MAX_TIMEOUTS <- 1, ServerOptions <- TRUE, Tids <- {"tid1", "tid2"},
       Repeats <- TRUE, Delay <- 8, MaxRetries <- 1, Faults <- AllFaults
F == INSTANCE Tftp WITH
       Mode <- "mtftp", MtftpServer <- FALSE, FileLen <- 3, BlkSizes <- {2},
       SizeSpace <- 64, BlockSpace <- 8, TFTP_DEFAULT_BLKSIZE <- 1,
       MTFTP_MAX_TIMEOUTS <- 1, ServerOptions <- TRUE, Tids <- {"tid1", "tid2"},
       Repeats <- TRUE, Delay <- 8, MaxRetries <- 2, Faults <- AllFaults
U == INSTANCE Tftp WITH
       Mode <- "mtftp", MtftpServer <- TRUE, FileLen <- 3, BlkSizes <- {2},
       SizeSpace <- 64, BlockSpace <- 8, TFTP_DEFAULT_BLKSIZE <- 1,
       MTFTP_MAX_TIMEOUTS <- 1, ServerOptions <- TRUE, Tids <- {"tid1", "tid2"},
       Repeats <- TRUE, Delay <- 8, MaxRetries <- 1, Faults <- AllFaults

O == INSTANCE Http WITH Hosts <- {1, 2}, Replies <- {"ok"}
E == INSTANCE Http WITH
       Https <- {"h1"}, Methods <- {"GET", "HEAD"}, MaxWaits <- 1,
       Replies <- {"ok", "auth", "again", "retry", "redirect", "error", "bad"}

I == INSTANCE Iscsi WITH
       command <- scsi_command,
       BhsLen <- 2, ReadLen <- 3, WriteLen <- 5, OutLen <- 2, MaxCommands <- 2,
       MaxRedirects <- 1, Redirects <- {"named"}, SplitRedirect <- FALSE,
       TargetUser <- TRUE, Targets <- {"open", "chap"}

ASSUME TransferAssumption ==
    /\ T!TftpAssumption /\ W!TftpAssumption /\ M!TftpAssumption
    /\ F!TftpAssumption /\ U!TftpAssumption /\ T!SizeSpaceAssumption
    /\ H!HttpAssumption /\ O!HttpAssumption /\ E!HttpAssumption
    /\ SanbootAssumption /\ V!SanOverrideAssumption /\ I!IscsiAssumption

TransferInit ==
    /\ part \in {"plain", "wrap", "tftm", "fallback", "mtftp",
                 "http", "hosts", "replies", "sanboot", "override", "iscsi"}
    /\ CASE part = "tftm" -> M!Init
         [] part \in {"fallback", "mtftp"} -> F!Init
         [] OTHER -> T!Init
    /\ H!Init /\ Init /\ I!Init
    /\ V!Init /\ (part = "override" \/ (read_lba = 0 /\ blocks = 1 /\ overLoc = <<>>))

TransferNext ==
    /\ UNCHANGED part
    /\ \/ /\ UNCHANGED <<httpVars, diskVars, iscsiVars>>
          /\ \/ part = "plain" /\ T!Next
             \/ part = "wrap" /\ W!Next
             \/ part = "tftm" /\ M!Next
             \/ part = "fallback" /\ F!Next
             \/ part = "mtftp" /\ U!Next
       \/ /\ UNCHANGED <<tftpVars, diskVars, iscsiVars>>
          /\ \/ part = "http" /\ H!Next
             \/ part = "hosts" /\ O!Next
             \/ part = "replies" /\ E!Next
       \/ /\ UNCHANGED <<tftpVars, httpVars, iscsiVars>>
          /\ \/ part = "sanboot" /\ Next /\ UNCHANGED overrideVars
             \/ part = "override" /\ V!Next /\ UNCHANGED sanbootVars
       \/ part = "iscsi" /\ I!Next /\ UNCHANGED <<tftpVars, httpVars, diskVars>>

TransferSpec ==
    TransferInit
      /\ [][TransferNext]_<<part, tftpVars, httpVars, diskVars, iscsiVars>>

-----------------------------------------------------------------------------
FT == INSTANCE FileTransfer WITH
    Size <- 3,
    have <- IF part = "mtftp" THEN {}
            ELSE {i \in 0..2 : i < buffer.len /\ buffer.data[i + 1] = i},
    status <- CASE part = "mtftp" \/ tftp.rc = "none" -> "running"
                [] tftp.rc = "ok" -> "ok"
                [] OTHER -> "failed"

(* tftp.c: a TFTP download implements the file transfer its opener relies  *)
(* on.  Bytes are handed over without ever being spoilt, whatever is lost, *)
(* repeated, late or from another session, and success is reported once    *)
(* and with the whole file, also with multicast and after falling back     *)
(* from a multicast server that does not answer.                           *)
TftpIsFileTransfer == FT!Spec

(* tftp_rx_data, tftp_presize, bitmap_full: every block marked in the      *)
(* bitmap, hence acknowledged and never asked for again, is in the buffer  *)
(* at its own offset; success means that the buffer is the file and not    *)
(* longer; and a conforming server's packets are never refused, although   *)
(* the block number on the wire wraps.                                     *)
TftpStored ==
    /\ part # "mtftp" => T!TypeOK /\ T!MarkedIsStored /\ T!CompleteIsExact
    /\ part = "mtftp" => U!TypeOK /\ U!MulticastCompletes
    /\ part = "wrap" => W!NeverRefused

(* iscsi.c: a read that ended well returned every byte in its place and a  *)
(* write that ended well gave the target every byte once and in order,     *)
(* however PDUs and packets were cut; the assertions that the transmit     *)
(* engine is idle hold, and a redirection leads to the port it names.      *)
TransferExact == I!TransferExact /\ I!IdleWhenAsserted /\ I!PortAsTold

(* iscsi.c: every command in progress has an owner waiting for its end and *)
(* is reported once; what is to be sent is being driven; no command goes   *)
(* to a target that has not proved who it is; and a new connection starts  *)
(* with the header of a PDU.                                               *)
CommandOwned ==
    I!CommandOwned /\ I!TxDriven /\ I!Authenticated /\ I!FreshConnection
=============================================================================
