------------------------------- MODULE MCLive -------------------------------
(***************************************************************************)
(* What must happen in the end, for TLC: small instances of the components *)
(* that wait, under the fairness that the main loop, the timers and the    *)
(* other side of each protocol give them.  A behaviour moves one           *)
(* component, its part, while the others rest in their initial states.     *)
(***************************************************************************)
EXTENDS MCData, Sequences

VARIABLES
    part,
    run_queue, executing, owners, count, freed,
    at, netdev, tx_ring, rx_ring, isr, given, fate, last_wire, got, passed, opens,
    neighbours, entry, packet, busy, latest,
    job_pc, monojob_rc, idle, completed, job, job_buffer, image, jobs,
    dhcp_session, settings, buf, number, seen, owed, tried,
    tftp, buffer, tftp_session,
    zone, dns, dns_timer, dns_count, sent, sends, dns_result,
    http, http_conn, pool,
    conn, session, list, tls_window, up, down, server, cache,
    mux, blk, raw_queue, disc, content,
    opened, closed, path_rc, active, timer, command, command_rc, pc, events,
    retries, lba, moved,
    open, status, port, tx, rx, iob, loop, scsi_command, data, window, r2t, din,
    result, wire, target, stream

processVars == <<run_queue, executing, owners, count, freed>>
deviceVars == <<at, netdev, tx_ring, rx_ring, isr, given, fate, last_wire, got,
                passed, opens>>
neighbourVars == <<neighbours, entry, packet, busy, latest>>
monojobVars == <<job_pc, monojob_rc, idle, completed, job, job_buffer, image, jobs>>
dhcpVars == <<dhcp_session, settings, buf, number, seen, owed, tried>>
tftpVars == <<tftp, buffer, tftp_session>>
dnsVars == <<zone, dns, dns_timer, dns_count, sent, sends, dns_result>>
httpVars == <<http, http_conn, pool>>
tlsVars == <<conn, session, list, tls_window, up, down, server, cache>>
peermuxVars == <<mux, blk, raw_queue, disc, content>>
sanbootVars == <<opened, closed, path_rc, active, timer, command, command_rc,
                 pc, events, retries, lba, moved>>
iscsiVars == <<open, status, port, tx, rx, iob, loop, scsi_command, data, window,
               r2t, din, result, wire, target, stream>>

Q == INSTANCE Process WITH
       Procs <- {"p1", "p2", "p3"}, Reschedule <- {"p1", "p2"},
       MaxOwners <- 1, MaxNest <- 2
E == INSTANCE NetDevice WITH
       tx <- tx_ring, rx <- rx_ring, sent <- given, wire <- last_wire,
       NumTx <- 1, NumRx <- 1, Wrap <- 2, MaxTx <- 2, MaxRx <- 2, MaxOpens <- 1
N == INSTANCE Neighbour WITH
       Addrs <- {"a1"}, Lls <- {"l1"}, Packets <- {"p1", "p2"},
       Entries <- {"e1", "e2"}, MaxRetries <- 2
J == INSTANCE Monojob WITH
       pc <- job_pc, buffer <- job_buffer, Blocks <- 2, Timeout <- 2, MaxJobs <- 1
D == INSTANCE Dhcp WITH
       session <- dhcp_session,
       Packets <- AllPackets, Plans <- AllPlans, Bufs <- {1, 2}, MaxDeferrals <- 1,
       NakCopies <- 2, PollLag <- 1, MaxSessions <- 1
F == INSTANCE Tftp WITH
       session <- tftp_session, Mode <- "tftp", MtftpServer <- FALSE, FileLen <- 3,
       BlkSizes <- {2}, SizeSpace <- 64, BlockSpace <- 8, TFTP_DEFAULT_BLKSIZE <- 1,
       MTFTP_MAX_TIMEOUTS <- 1, ServerOptions <- TRUE, Tids <- {"tid1", "tid2"},
       Repeats <- TRUE, Delay <- 8, MaxRetries <- 1, Faults <- {"seek", "nomem"}
X == INSTANCE Dns WITH
       timer <- dns_timer, result <- dns_result,
       Zones <- FewZones, TooLong <- {}, Counts <- {1}, MaxSends <- 4,
       Late <- TRUE, Cand <- <<"h.s", "h">>, Ids <- {0, 1}, First <- "A",
       Follows <- TRUE, Glue <- {"ns"}, MaxCname <- 2, IndexWrap <- 2
H == INSTANCE Http WITH
       conn <- http_conn,
       Https <- {"h1"}, Conns <- {1, 2}, Hosts <- {1}, Methods <- {"GET"},
       Size <- 1, MaxWaits <- 1, Replies <- {"ok", "auth", "retry", "error"}
T == INSTANCE Tls WITH
       window <- tls_window,
       Conns <- {1, 2}, MaxRequests <- 0, Tickets <- {TRUE}, Names <- {TRUE},
       ClientCert <- FALSE, Secure <- {TRUE}, MaxData <- 0
M == INSTANCE Peermux WITH
       queue <- raw_queue,
       Slots <- {1, 2}, Segments <- <<3>>, Skipped <- {}, Locations <- {"p"},
       RawMax <- 1, MaxCycles <- 1, DefaultTimeout <- 1, CountSpace <- 8,
       Faults <- {"retrieval"}
S == INSTANCE Sanboot WITH
       NumPaths <- 1, Count <- 2, MaxCount <- 1, SanRetries <- 1, Batch <- 2
I == INSTANCE Iscsi WITH
       command <- scsi_command,
       BhsLen <- 2, ReadLen <- 3, WriteLen <- 5, OutLen <- 2, MaxCommands <- 1,
       MaxRedirects <- 0, Redirects <- {"named"}, SplitRedirect <- FALSE,
       TargetUser <- TRUE, Targets <- {"chap"}

LiveInit ==
    /\ part \in {"process", "device", "neighbour", "job", "dhcp", "tftp", "dns",
                 "http", "tls", "peermux", "sanboot", "iscsi"}
    /\ Q!Init /\ E!Init /\ N!Init /\ J!Init /\ D!Init /\ F!Init /\ H!Init
    /\ T!Init /\ M!Init /\ S!Init /\ I!Init
    /\ X!Init /\ (part = "dns" \/ zone = {RR("h", "A", "a2"), RR("ns", "A", "a9")})

LiveNext ==
    /\ UNCHANGED part
    /\ IF part = "process" THEN Q!Next ELSE UNCHANGED processVars
    /\ IF part = "device" THEN E!Next ELSE UNCHANGED deviceVars
    /\ IF part = "neighbour" THEN N!Next ELSE UNCHANGED neighbourVars
    /\ IF part = "job" THEN J!Next ELSE UNCHANGED monojobVars
    /\ IF part = "dhcp" THEN D!Next ELSE UNCHANGED dhcpVars
    /\ IF part = "tftp" THEN F!Next ELSE UNCHANGED tftpVars
    /\ IF part = "dns" THEN X!Next ELSE UNCHANGED dnsVars
    /\ IF part = "http" THEN H!Next ELSE UNCHANGED httpVars
    /\ IF part = "tls" THEN T!Next ELSE UNCHANGED tlsVars
    /\ IF part = "peermux" THEN M!Next ELSE UNCHANGED peermuxVars
    /\ IF part = "sanboot" THEN S!Next ELSE UNCHANGED sanbootVars
    /\ IF part = "iscsi" THEN I!Next ELSE UNCHANGED iscsiVars

-----------------------------------------------------------------------------
(* Fairness.  The main loop calls step() for ever and every step returns;  *)
(* the network stack process polls the card, which transmits what it is    *)
(* given; loops and callbacks run to their end and timers are polled; the  *)
(* clock ticks while monojob_wait looks at it.  In each part it is enough  *)
(* that one of the things that can happen does.                            *)
MainLoop ==
    /\ WF_processVars(part = "process" /\ (Q!step \/ Q!step_end))
    /\ WF_deviceVars(part = "device" /\ E!Poll)
    /\ WF_deviceVars(part = "device" /\ E!CardTx)
    /\ WF_neighbourVars(part = "neighbour" /\
         (N!transmit_deferred \/ N!transmit_end \/ N!request_end))
    /\ SF_neighbourVars(part = "neighbour" /\
         \E e \in {"e1", "e2"}, fail \in BOOLEAN : N!neighbour_expired(e, fail))
    /\ WF_monojobVars(part = "job" /\ (J!other_step \/ J!no_tick \/ J!monojob_close))
    /\ SF_monojobVars(part = "job" /\ J!tick)

(* DHCP: the timer is polled and time passes.  TFTP: a request or an       *)
(* acknowledgement that is repeated for ever is received in the end, and   *)
(* so is its answer.  DNS: the timer expires, the last time as a failure.  *)
Datagrams ==
    /\ WF_dhcpVars(part = "dhcp" /\ (D!Pass \/ D!dhcp_timer_expired))
    /\ WF_tftpVars(part = "tftp" /\ \E fail \in BOOLEAN : F!tftp_timer_expired(fail))
    /\ SF_tftpVars(part = "tftp" /\
         (\/ \E fail \in BOOLEAN : F!Progress(F!tftp_timer_expired(fail))
          \/ F!Progress(F!rx_oack) \/ F!Progress(F!rx_unicast)))
    /\ WF_dnsVars(part = "dns" /\ X!dns_timer_expired)

(* HTTP and TLS: processes and timers run, TCP announces room once a new   *)
(* connection is established and delivers, servers and validator answer.   *)
(* Peer content: processes run and timers that are running expire.         *)
Streams ==
    /\ WF_httpVars(part = "http" /\
         (\/ \E room \in BOOLEAN : H!http_step("h1", FALSE, room)
          \/ /\ H!http_step("h1", TRUE, TRUE)
             /\ \A c \in {1, 2} : http_conn[c].user = "h1" =>
                  "recycled" \notin http_conn[c].flags
          \/ \E ok \in BOOLEAN : H!http_expired("h1", ok)
          \/ \E c \in {1, 2} :
               \/ \E reply \in {"ok", "auth", "retry", "error"},
                     framing \in {"length", "chunked", "close"}, keep \in BOOLEAN :
                       H!server_reply(c, reply, framing, keep)
               \/ \E ok \in BOOLEAN : H!http_conn_deliver(c, ok)
               \/ /\ http_conn[c].left.part = "none" /\ ~http_conn[c].pending
                  /\ http_conn[c].user = "h1" /\ http["h1"].state = "identity"
                  /\ \E rc \in {0, 1}, ok \in BOOLEAN : H!http_conn_socket_close(c, rc, ok)))
    /\ WF_tlsVars(part = "tls" /\ \E c \in {1, 2} :
         (\/ T!tls_tx_step(c) \/ T!WindowOpens(c) \/ T!tls_new_ciphertext(c)
          \/ T!ServerStep(c) \/ \E ok \in BOOLEAN : T!tls_validator_done(c, ok)))
    /\ WF_peermuxVars(part = "peermux" /\
         (\/ M!peermux_step(FALSE) \/ M!peerblk_step(FALSE)
          \/ \E i \in {1, 2} : M!peerblk_expired(i)
          \/ \E i \in {1, 2}, good \in BOOLEAN : M!peerblk_decrypt(i, good)))

(* SAN device: the processor runs, the timer expires, a path that is being *)
(* opened becomes available or fails.  iSCSI: the process runs, TCP        *)
(* delivers and its window opens, the target answers.                      *)
Disks ==
    /\ WF_sanbootVars(part = "sanboot" /\
         (S!no_reopen \/ S!reopen_check \/ S!wait_check \/ S!return \/ S!step
          \/ (\E k \in 0..1 : S!reopen_begin(k))
          \/ (\E outcome \in {"error", "started", "over"} : S!sandev_command_rw(outcome))))
    /\ SF_sanbootVars(part = "sanboot" /\
         (\/ S!sandev_command_expired
          \/ pc = "reopening step" /\ (S!path_available(1) \/ S!path_closed(1, S!Error))))
    /\ WF_iscsiVars(part = "iscsi" /\
         (\/ I!iscsi_tx_step \/ I!TxPause \/ I!iscsi_tx_bhs \/ I!iscsi_tx_nothing
          \/ I!iscsi_tx_data \/ I!WindowChanged \/ I!TargetAnswers
          \/ (\E n \in 1..Len(stream) : I!Deliver(n))
          \/ (\E what \in {"later", "close", "next"} : I!RxRound(what))))

LiveSpec ==
    /\ LiveInit
    /\ [][LiveNext]_<<part, processVars, deviceVars, neighbourVars, monojobVars,
                      dhcpVars, tftpVars, dnsVars, httpVars, tlsVars, peermuxVars,
                      sanbootVars, iscsiVars>>
    /\ MainLoop /\ Datagrams /\ Streams /\ Disks

-----------------------------------------------------------------------------
(* process.c: a process that stays queued is executed again and again. *)
QueuedRuns == Q!QueuedRuns

Buffered ==
    \/ part = "device" /\ (\/ \E p \in 1..2 : fate[p] = "held"
                           \/ \E p \in 1..2 : E!Received(p))
    \/ part = "neighbour" /\ \E p \in {"p1", "p2"} : packet[p].status = "deferred"

(* netdevice.c, realtek.c, neighbour.c: of finitely many packets, all      *)
(* leave the queues in the end.  They are completed or dropped, deferred   *)
(* ones too; received ones are taken from the ring, also those that arrive *)
(* during the poll of another; and a packet that waits for a link-layer    *)
(* address is transmitted or reported as an error.  Again and again, no    *)
(* packet is held.                                                         *)
PacketsLeave == []<>~Buffered

Waiting ==
    \/ part = "job" /\ job_pc # "start"
    \/ part = "dhcp" /\ D!Active
    \/ part = "tftp" /\ (tftp.rc = "none" \/ tftp.timer)
    \/ part = "dns" /\ X!Live
    \/ part = "http" /\ http["h1"].status = "running"
    \/ part = "tls" /\ \E c \in {1, 2} : conn[c].state = "open" /\ ~T!tls_ready(conn[c])
    \/ part = "peermux" /\ M!Running
    \/ part = "sanboot" /\ pc # "idle"
    \/ part = "iscsi" /\ open /\ (status.phase # "full" \/ data # 0)

(* monojob.c, dhcp.c, tftp.c, dns.c, httpcore.c, tls.c, peermux.c,         *)
(* sanboot.c, iscsi.c: whoever waits for a job, a DHCP session, a file, a  *)
(* name, a page, a negotiation, peer content, a disk block, a login or a   *)
(* command is told of its end, whatever the servers and the peers send and *)
(* whichever connections or paths fail: again and again nobody waits.      *)
RequestsEnd == []<>~Waiting
=============================================================================
