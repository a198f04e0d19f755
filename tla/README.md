# Verification of the iPXE network stack used by iVentoy

The repository holds iVentoy's PXE loader: a fork of iPXE under
`src/iPXE/ipxe-bd13697/src/`, to which all paths below are relative. This
directory models the parts of it that a network boot runs through in TLA+,
checks the models with TLC on small instances and proves properties of some of
them with TLAPS. `PROJECT.json` lists components, runs, the map from
definitions to source lines, hazards, findings and theorems.

## The system

iPXE is single-threaded. A main loop calls `step()` (`core/process.c`), which
runs the first process of the run queue; permanent processes poll the network
devices and the retry timers. Everything else happens in callbacks: a received
packet, an expired timer or a process step calls into an object, which calls
its neighbours through object interfaces (`core/interface.c`). Interleaving
therefore means two things: the order in which the loop reaches packets,
timers and processes, and *re-entry*, where a callee calls back into its
caller, or allocates memory and so makes a cache discarder take packets out of
a caller's queue. The other actors are outside: servers, peers and a network
that loses, repeats and reorders, and the network card, which reads and writes
its descriptor rings while the program runs.

| Part | Module | What is hard | What is shown |
|---|---|---|---|
| Retry timers (`net/retry.c`) | `RetryTimer` | clock wrap, callbacks touching their own timer, one expiry per poll | exact references, no early expiry, failure is reached |
| Processes, references (`core/process.c`, `core/refcnt.c`) | `Process` | a step that removes, frees or re-enters itself | exact references, nobody starves |
| Interfaces (`core/interface.c`, `core/xfer.c`, `core/open.c`) | `Interface` | closing that recurses through a chain of objects | exact references, no half-closed connection |
| Transfer buffers (`core/xferbuf.c`) | `XferBuf` | offsets beyond the end, wrapping sizes | used by `Tftp` and `Peerblk` |
| Heap and I/O buffers (`core/malloc.c`, `core/iobuf.c`) | `Malloc` | splitting, merging, discarding inside an allocation, overflow | no overlap, nothing lost, failure only when full |
| Foreground job, downloader (`core/monojob.c`, `core/downloader.c`) | `Monojob` | completion racing a key or the timeout | no job left behind, image as long as what came |
| Network device, Realtek rings (`net/netdevice.c`, `drivers/net/realtek.c`) | `NetDevice` | the card acts at any moment; deferral; closing with packets under way | ring and queue agree, order kept, packets leave |
| Neighbours, ARP (`net/neighbour.c`, `net/arp.c`) | `Neighbour` | entries discarded while their packets are being sent | latest address, no packet stranded |
| Fragments (`net/fragment.c`) | `Fragment` | order, overlap, failed allocation | exact datagrams, no leak |
| TCP (`net/tcp.c`, `core/pending.c`) | `TcpSeq`, `TcpConn`, `Tcp` | loss, reordering, wrap, failed allocation, re-entry during delivery | in-order stream, no silent truncation, complete deletion |
| TFTP, MTFTP (`net/udp/tftp.c`, `core/bitmap.c`) | `Tftp` | 16-bit block numbers, two sessions, multicast, fall-back | implements `FileTransfer` |
| HTTP and its pool (`net/tcp/httpcore.c`, `net/tcp/httpconn.c`, `core/pool.c`) | `Http` | the server's close racing reuse, half-read responses | implements `FileTransfer`, pool is clean |
| DHCP (`net/udp/dhcp.c`) | `Dhcp` | offers in any order, refusals, four states, stale settings | the best offer is used, sessions end |
| DNS (`net/udp/dns.c`) | `Dns` | late answers, aliases, search list, changing servers | the address is right, requests end |
| TLS (`net/tls.c`) | `Tls` | connections of a session sharing secrets, cipher changes, renegotiation | no record refused, consistent sessions |
| PeerDist (`net/peerblk.c`, `net/peermux.c`, `net/peerdisc.c`) | `Peerblk`, `Peermux` | parallel blocks in one file, retries, raw queue | content whole and verified |
| SAN device (`core/sanboot.c`) | `Sanboot`, `SanOverride` | closure or timeout during a command; overlapping overrides | only moved blocks are reported, reads are overlaid exactly |
| iSCSI (`net/tcp/iscsi.c`) | `Iscsi` | PDUs cut anywhere, a response that starts the next command, redirection | transfers exact, commands owned |

## Modules

Each component module has the state of the component as variables, one action
per operation, handler or step under its C name where there is one, and its
properties. They keep the control of the code and abstract the data: a byte is
its position in what it belongs to, a name, an address or a secret is a value
that can only be compared.

| Module | Models |
|---|---|
| the component modules above | see below |
| `FileTransfer` | the abstract specification of a download: bytes handed over are never spoilt, success is reported once and with the whole file |
| `Core`, `Link`, `Transfer` | components that are proved about, put side by side: `Core` has timers, processes and the foreground job, `Link` neighbours, fragments and the network device, `Transfer` the SAN device, its overrides and HTTP with the file transfer it implements |
| `MCCore`, `MCLink`, `MCTransfer`, `MCServices`, `MCLive` | instances for TLC; the first three extend the module above of the same name, so that the properties TLC checks are those of the theorems |
| `MCData` | DHCP packets and DNS zones of these instances |
| `TcpConnInv`, `TcpInv` | inductive invariants of TCP |
| `Lists` | removal from the linked lists of `include/ipxe/list.h` |
| `ListFacts` | lemmas about sequences, and about linked lists that are cut, extended and searched, and small facts about numbers |
| `TcpStateProofs`, `TcpStreamProofs`, `TcpUploadProofs` | proofs about TCP: what each operator preserves, the connection's state, the two directions of the stream |
| `CoreProofs` | proofs about `RetryTimer`, `Process` and `Monojob` |
| `LinkProofs`, `DeviceProofs` | proofs about `Neighbour` and `Fragment`, and about `NetDevice` |
| `TransferProofs` | proofs about `Http`, `SanOverride` and `Sanboot` |

The MC modules instantiate several components that share no state, some of
them with several sets of constants. A variable `part`, chosen in the initial
state and never changed, says which instance a behaviour moves; the others
rest in their initial states. The states reached are the union of those of
the separate models. Components that do work on shared state are composed in
one module: `Http` has transactions, connections and pool, `NetDevice` the
device core, the driver and the card, `Monojob` the waiting loop and the
downloader, `Neighbour` the cache and ARP, `Malloc` heap, I/O buffers and
discarders, `Peermux` multiplexer, block downloads, raw queue and discovery.

### TCP

`tcp` is the record `struct tcp_connection`. `state` keeps the three flag sets
of `tcp_state`. Data is reduced to positions: a transmit buffer is the position
of its last byte, a received segment carries the position of its first byte, so
that "which byte" can be compared although payloads are gone. Timestamps, MSS,
checksums and option layout influence none of this state and are left out; the
options that do (SACK permitted, window scale) are kept. Buffers sent by the
application are not empty.

An entry point is one action, except `tcp_rx`: it calls the application for
each packet it takes off the queue and once more when the window has changed,
and the application may send, close or allocate there (`Reactions`). `pc`
records where `tcp_rx` is; no other entry point runs before it is done.
`Environments` collects what surrounds a transmission: the application's
window, and whether the buffer could not be allocated ("noiob"), was allocated
after the discarder removed a queued packet ("squeezed"), was refused by the
network layer ("txfail") or sent.

The network stores nothing. Since segments may be lost, repeated and delayed,
what may arrive is every segment the peer could have sent up to now:
`wire` holds what our segments have told it, `peer_rcv` how much of ours it
has received. The peer conforms to RFC 793: it stays within the widest window
advertised (or probes one unit past it), acknowledges what it has received,
and may cut a repeated part up differently. A segment that acknowledges
something we never sent, before the connection is established, is answered
with a reset and changes no state; it is not an action.

`tcp_expired` does not repeat the back-off: it may report failure after the
first expiry and must after `MaxRetries`. That it must is what
`FailureIsReached` shows of `RetryTimer`; that the first expiry, of a zero
timeout, never does follows from doubling zero.

### Retry timers

A timer runs when it is on the list. Its object is referenced by its owner (who
may let go at any time), by the running timer and, during an expiry, by the
callback; `refcnt` is the code's counter, which frees the object below zero.
An expiry is two steps, `retry_poll` up to the callback and `expired_return`,
and between them the callback may start or stop its own or other timers; the
clock may tick. `age` and `polled` are history. `tick` and `owner_put` stand
for `currticks()` and the users of timers.

### The other components

* `Process`: `run_queue`, the stack `executing` of steps in progress, and for
  each object its count, its owners and whether it has been freed. A step and
  its return are two actions; between them the code of the step may add,
  remove, take or drop any process and enter `step()` again.
* `Interface`: `dest` and `enabled` per interface, references per object, and
  `todo`, the call stack flattened to the primitive operations still to be
  executed. The close operation of each interface is one of those that occur
  in the code: the default, one that closes all interfaces of the object
  together (`intfs_shutdown`), or one after the other.
* `Malloc`: the free list, the counters, the objects on the heap and the
  allocation in progress, which pauses between its search of the list and the
  discarders. Sizes and alignments wrap at `W`.
* `Monojob`: `pc` is the place in the loop of `monojob_wait`; what other
  processes do in `step()`, a key, a tick and the timeout are actions. `job`
  and `image` are the downloader and its image.
* `NetDevice`: queues of the device, both rings with their counters, the
  interrupt status and a history of every packet. The loops of a poll are
  separate actions so that the card can act between two rounds.
* `Neighbour`: cache entries with address, timer and queue; `busy` holds the
  entry a loop or a request is using, so that discards can happen there.
* `Fragment`: one reassembly buffer per datagram, as the sequence of offsets
  it holds.
* `Tftp`: the request structure, the buffer of its downloader, and the server's
  sessions. The network keeps no queue: what a session may have sent, up to
  `Delay` blocks ago, may arrive. `Faults` selects failing calls: delivery,
  seek, allocation, reopening, an error packet, closing by the user.
* `Http`: `http`, `conn` and `pool` are the three structures; `conn` includes
  what the server has sent on it and has not been received.
* `Dhcp`: the session, the registered settings blocks, and received packets as
  buffers with references. Time moves to the next moment at which a comparison
  in the code changes its outcome.
* `Dns`: the request, the set of queries sent, and the zone the servers answer
  from.
* `Tls`: connections with keys and sequence numbers for both directions, the
  handshake digest as the sequence of messages it covers, the shared session,
  the order of connections in its list, and servers that follow the protocol.
* `Peerblk`: the position in the stream of one block, the digest, the
  thresholds that separate what goes to the file from what is buffered, and
  the stages of decryption. `Peermux`: multiplexer, slots, raw queue and
  discovery, where an attempt's data is right or not.
* `Sanboot`: `pc` is the place in `sandev_rw` and the functions it calls; one
  `step()` handles up to `Batch` events. `SanOverride`: the loop over the
  override ranges at the end of `sandev_read`, one range per action.
* `Iscsi`: login status, transmit and receive engine, the command and its
  data, and the target with the bytes it has sent. A round of the receive loop
  is an action, since a handler may close, redirect or start a command.

## Runs

| Run | Parts | Shows | States |
|---|---|---|---|
| `tcp_download` | | the application is given the peer's stream in order (`StreamInOrder`); a clean end means the whole stream (`NoSilentTruncation`); an advertised window is never withdrawn (`WindowKept`); the SACK list names only data that is held (`SackHonest`); deletion is complete (`DeletedIsQuiet`); crossing SYNs, half-close and shutdown keep the inductive invariant of the receiving side (`StreamInv`) and the assertion on SYN and FIN (`NeverSynAndFin`) | 336,860 |
| `tcp_upload` | | a byte is dropped only when the peer has it (`AckedIsReceived`); pending operations are exact (`PendingExact`); unsent or unacknowledged sequence space has a timer or a scheduled process (`WorkIsScheduled`) | 320,715 |
| `tcp_live` | | a download ends (`DownloadEnds`), a closed connection is deleted (`ClosedIsDeleted`) | 4,662 |
| `core` | timers (free, and with a prompt main loop), processes, interfaces (two sets of close operations), heap (without and with offsets), job | `ReferencesExact`, `NoEarlyExpiry`, `TimersServed`, `ProcessReferences`, `InterfacesSound`, `HeapSound`, `NothingLeft` | 669,172 |
| `link` | fragments, neighbours, device sending, device receiving | `PacketExact`, `TimerRuns`, `NeighbourSound`, `TxToLatest`, `RingsSound`, `PacketsInOrder` | 346,866 |
| `transfer` | TFTP plain, at the wrap, multicast, MTFTP with and without a server; HTTP with one and two servers, and with every kind of response; SAN device, overrides, iSCSI | TFTP and HTTP implement `FileTransfer` (`TftpIsFileTransfer`, `HttpIsFileTransfer`), acknowledged blocks are stored (`TftpStored`), pooled connections are clean and stale ones harmless (`PoolIsClean`), a SAN caller is told only of blocks that were moved (`SanSound`), reads are overlaid exactly (`ReadIsOverlaid`), iSCSI commands have an owner (`CommandOwned`) and move every byte to its place (`TransferExact`) | 336,654 |
| `services` | DHCP; DNS with late answers, and with every small zone; TLS with two connections, and renegotiated; a PeerDist block, and a content | `LeaseIsBest`, `AddressIsRight`, `NegotiationSound`, `BlocksExact` | 556,858 |
| `live` | processes, device, neighbours, job, DHCP, TFTP, DNS, HTTP, TLS, PeerDist, SAN device, iSCSI | queued processes run (`QueuedRuns`), packets leave every queue (`PacketsLeave`), requests of every kind end (`RequestsEnd`) | 33,411 |

The remaining four runs are violations, see below. Each property is stated in
words where it is defined; those of the MC modules are conjunctions of the
properties of the component modules.

### Refinement

TFTP (`MCTransfer`): the bytes of the download buffer that are in their place
are `have`, the reported status is `status`. The mapping covers plain and
multicast transfers and the fall-back of an MTFTP request nobody answers. The
part `mtftp`, in which the fall-back after a part of the file was received
breaks the promise (see below), is mapped to a transfer that has not begun.

HTTP (`Transfer`): `have` is the bytes given to the opener of one transaction,
`Viewed`, out of those that share connections, and `status` is what it is told;
a redirection and a failure are both "failed", since the opener has not got its
file. A HEAD request transfers no file and is mapped to a transfer that goes
on. This refinement is also proved.

### Bounds

* TCP: `SeqSpace` 16 with both initial numbers next to the end, so that
  sequence numbers wrap within a connection; streams of up to 4 bytes and
  windows of up to 6 keep differences below half the space, as windows of 2^21
  do in 2^32. `TCP_PATH_MTU` 2 with 3 bytes to send: partial acknowledgements
  and several segments. `AppWindows` contains 0: the application closes its
  window. `MaxRetries` 1 or 2: a retransmission and a failure.
* Timers: a tick space small enough for the clock to wrap while they run.
  `MaxCount`, `MaxAge` and `MaxSmoothed` only bound the exploration. The floor
  of seven ticks (`FloorKept`) needs larger timeouts and is left to its proof.
* Processes: three, of which two reschedule themselves, and two nested steps.
  Interfaces: four objects in a chain of two transports, a filter with two
  interfaces and an opener, which is the longest chain one close can travel
  and come back on; `MaxTodo` is checked never to be exceeded (`NoRunaway`).
* Heap: nine blocks of the minimum size with ragged ends, two or three
  objects, sizes at the edges of rounding and two that overflow.
* Link: two descriptors per ring and counters that wrap at four, so that the
  ring overflows and the counters wrap; four packets; the device is opened
  twice. Two packets to two neighbours, with memory for a third entry, suffice
  for an entry to be discarded and created anew under a loop.
* TFTP: three bytes in blocks of one or two; block numbers wrap at eight, or
  at two for `wrap`. HTTP: two transactions, two connections, one byte, so
  that the connection of one is reused by the other. The pieces a body is cut
  into do not matter: every byte is delivered separately.
* DHCP: two servers of different priority, a ProxyDHCP server, boot servers,
  BOOTP, refusals, two sessions. DNS: all zones over nine records, and aliases
  one longer than the limit; `MaxSends` stands for the finitely many questions
  and the limit on repetitions of each. TLS: two connections with resumption, or one with
  two renegotiations, from a server that sends renegotiation information or from
  one that does not. PeerDist: a block of five bytes trimmed at every place; a
  segment of three blocks, one of them skipped, and a segment of one block, in
  two slots with one raw download at a time, so that slots share a segment and
  are used again.
* `live` has two TLS connections of one session, and three blocks of one segment
  in two slots; the other requests are those of the runs above on smaller
  instances.
* SAN and iSCSI: three paths, four blocks in commands of two, two retries, up
  to three events in one `step()`; a disk of
  eight bytes with every read and every pair of ranges; two iSCSI commands, a
  redirection, packets cut at every byte.

Deadlock is not checked: connections, requests and sessions end, and an
instance in which all of them have ended stops. That none stops early is what
the liveness properties and `WorkIsScheduled` say.

### Fairness

TCP (`FairSpec` in `Tcp`): strong fairness of the transmit process and the
timers, since the main loop polls them again and again and allocations and
transmissions do not fail for ever (`Good`); `tcp_rx` runs to its end. The
network delivers often enough, and the peer repeats what the connection still
needs with its newest acknowledgement (`Needed`), as a conforming sender does
until it is acknowledged. Uploads are not claimed to end: there is no persist
timer, so a lost window update may stall one. FIN_WAIT_2 has no timer; that a
closed connection leaves it depends on the peer's FIN.

`MCLive` states the fairness of the other components in four groups. Where
several actions drive a component, fairness is of all of them together, weakly
or strongly: something that can happen does, of whichever connection, entry or
block. Only the poll of a device and its card are fair each by itself.
`MainLoop`: `step()` is called for ever and steps return, the device is polled
and the card transmits, loops and callbacks run to their end, a running
neighbour timer expires, the clock ticks. `Datagrams`: timers of DHCP, TFTP and
DNS expire; for TFTP, what is repeated for ever arrives in the end (strong
fairness: the client repeats its request or acknowledgement at every expiry).
DHCP and DNS end whatever the servers send, provided that DHCPNAKs answer
requests. `Streams`: processes and timers run, TCP
opens its window on a connection that is new and delivers, servers answer.
`Disks`: the loop of `sandev_rw` runs, the command timer expires, a path being
opened becomes available or fails, the iSCSI target answers. Nothing is assumed
about which answer comes.

## Disagreements with the code's comments

Four are runs that end in a violation:

* `tcp_early_syn`: when a SYN arrives before ours was sent, `snd_sent` is 0 and
  the ACK that `tcp_close` pretends (`net/tcp.c:401`) is out of range. FIN is
  then added to the unacknowledged SYN, against the comment and assertion at
  line 646.
* `tcp_shutdown_in_syn_rcvd`: in SYN_RCVD the pretended ACK already marks the
  FIN and stops the timer, so `tcp_close` skips `process_add`; called from
  `tcp_shutdown`, nothing schedules the FIN. `tcp_xfer_close` transmits itself
  and is not affected.
* `tcp_shrunk_window`: `snd_sent` is documented as SND.NXT-SND.UNA (line 66)
  but is recomputed from the current window.
* `san_reopen`: while several paths are being opened, one wins, a surplus one
  is closed with status 0 (`core/sanboot.c:405`) and the winner fails, all in
  one `step()`. `sandev_reopen` then reports success without an active path,
  against the assertion at line 459. With one path it cannot happen
  (`OnePathActive`).

None of those about TCP affects a connection that is established first. The theorems
about states assume that no SYN comes early (`PeerSyn # "early"`).

Others were met while modelling. The models contain the behaviour; the last
column says how the passing runs keep clear of it, and so how to see it.

| Code | Comment | What happens | In the runs |
|---|---|---|---|
| `net/udp/tftp.c:806` | 269, "Known minimum file size" | a repeated block just below a multiple of 65536 is taken for one a whole block space further on, and the transfer cannot complete | `wrap` has `Repeats` FALSE |
| `net/udp/tftp.c:277` | 521, "discard the block bitmap" | a fall-back from MTFTP keeps `filesize`, so the new bitmap stays empty and the next block ends the transfer with success | part `mtftp` is checked with `MulticastCompletes` and not with `CompleteIsExact` |
| `core/monojob.c:118` | 79, "Job final status code" | a key or the timeout found after the job completed in the same tick replaces its status | `NothingLeft` says nothing of the status reported for a job that succeeded |
| `core/malloc.c:336,353` | "only at the very end", "only at the very start of the heap" | an I/O buffer with an offset to its alignment makes pieces too small for a block get lost in the middle | `LeakAtEnds` is not claimed of part `offset` |
| `net/udp/dns.c:869` | 865, "We asked for a CNAME record. If we got a response ... issue it" | the test compares the wrong question type: an alias found by a CNAME question is not followed | `Follows` is TRUE: servers add what an alias points to |
| `net/udp/dns.c:691` | 855, "got nothing; try the CNAME" | an answer to the previous question has the same identifier and counts as an empty answer to this one | `FirstMatch` is claimed of part `prompt` only |
| `net/peerblk.c:638` | `include/ipxe/peerblk.h:94` | a peer that cannot be opened leaves the thresholds a header too far, and the block in the wrong place | `MaxFails` is 0; 1 shows it in `DeliveredIsExact` |
| `net/peerblk.c:1231` | 1230, "If the block was plaintext ..." | nothing of a plaintext answer is added to the digest, so that it is refused | refused attempts are allowed |
| `net/peerblk.c:501` | `include/ipxe/peerblk.h:138` | a raw download that cannot be opened is taken off the count before it was added, which wraps | `Faults` is without "raw"; with it `CountIsOpen` fails |
| `net/peerdisc.c:582` | 622, "If there are no more segments, close the socket" | if the first segment cannot be created the sockets stay open | `Faults` is without "segment"; with it `NothingLeft` fails |
| `net/tcp/iscsi.c:1748` | 304, "resets the session state" | after a redirection that came in several packets the receive engine starts in the middle of a header | `SplitRedirect` is FALSE; TRUE shows it in `FreshConnection` |
| `net/tcp/iscsi.c:892` | `include/ipxe/iscsi.h:22` | a redirection without a port leads to the byte-swapped default port | `Redirects` is without "default"; with it `PortAsTold` fails |
| `net/tls.c:3416` | 3412, "Serialise server negotiations" | a renegotiating connection at the end of the list is not seen by those before it | `Serialised` is claimed without renegotiation |
| `net/tls.c:2385` | 2376 | a full handshake without a new ticket keeps the old ticket beside the new secret | `Tickets` has one member |
| `net/tls.c:1991` | 1982 | a full handshake without an identifier keeps the old one beside the new secret | without tickets only named sessions are explored |

Assumptions about the code's surroundings that the models make explicit: the
main loop polls timers at most `PollLag` late (one stalled for several seconds
would let `dhcp.c` skip boot servers it never asked); DHCPNAKs answer requests
(`NakCopies`; a stream of others would keep a session going); registering
settings does not fail; a TLS server sends no application data during a
renegotiation, which `tls.c` refuses, and chooses a version and a cipher suite
the client offered: the errors of `tls_new_server_hello` about these are not
modelled. Those of `iscsi_handle_string` about a malformed, rejected or
unsuitable value are one kind of login response, which ends the session.

## Proofs

For every value of the constants that satisfies the assumptions named.

### TCP

Five inductive invariants: `QuietInv`, `StateInv` on top of it, `StreamInv` and
`UploadInv` each on top of that, and `WorkInv` on top of `UploadInv`. What they
say of a connection record is in `TcpConnInv`, the whole of them in `TcpInv`.
The first halves of `TcpStateProofs`, `TcpStreamProofs` and `TcpUploadProofs`
show once per operator of `TcpConn` what it preserves; the step proofs have one
case per action.

* `QuietInv` gives `TypeCorrect` and `DeletedStaysQuiet`. Completeness of the
  deletion is not inductive: `tcp_close` calls `pending_put` a fixed number of
  times, so the counters have to be bounded before it, and a transmission
  attempted after the deletion must find nothing to send. `ConnOK` adds this:
  pending data equals the queue, at most one pending flag without FIN and two
  with it, the queue holds only unacknowledged positions in order, packets
  wait only after the peer's SYN.
* `StateInv` gives `SynAndFinApart`, `TimersInTheirStates` and
  `PendingCounted`. It adds which flag combinations occur (`StateOK`), that FIN
  is sent only after SYN was acknowledged, that flags are counted exactly, and
  that until our SYN is acknowledged it is all that was sent, so that the ACK
  `tcp_close` pretends is in range. `LiveOK` holds even inside `tcp_rx`,
  `SettledOK` between handlers.
* `StreamInv` gives `DeliveryInOrder`, `EndIsTheEnd` and `WindowNeverShrinks`.
  `rcv_ack` counts what the application has been given for as long as it
  listens; every packet of the receive queue is a part of the stream and its
  sequence number names its place (`PartOfStream`); and no advertised right edge
  lies beyond `rcv_ack` plus the current window. Packets in the queue may be
  wholly or partly old. That the part `tcp_rx_data` cuts off is exactly what
  has been delivered already is where in-order delivery comes from, and this
  rests on the signed comparison of sequence numbers being right.
* `UploadInv` gives `NothingLostByAcks`. `snd_seq` counts the units of
  our sequence space (SYN, bytes, FIN) that are acknowledged; a FIN is sent only
  with an empty queue; `snd_sent` and everything the network has seen lie within
  what there is to send, so that an acknowledgement of whatever age that is in
  range is one of something the peer has received.
* `WorkInv` gives `NothingForgotten`. A connection between handlers that has
  unsent data within the window, an unacknowledged SYN or FIN or unacknowledged
  data has its retransmission timer running or its process scheduled, also when
  an allocation failed or the lower layer refused the packet.

Assumptions, each for a reason in the code or the protocol:

* `PeerSyn # "early"` (all but the first): no SYN of the peer arrives
  before ours has been transmitted. With such a SYN the assertion that SYN and
  FIN are not sent together fails, which is the subject of a finding.
* `ShortStream` and `ShortUpload`: the model's network delivers segments of any
  age, where the real one forgets them. A number is then unambiguous only if
  the whole stream fits into half the sequence space (signed comparisons of
  received data) and the whole upload into the space (acknowledgements are
  compared with `snd_seq` as unsigned differences). The numbers themselves may
  start anywhere and wrap.
* `PeerSyn = "never"` and no closed window (`WorkInv`): the peer's SYN comes
  with the acknowledgement of ours. After crossing SYNs a shutdown in SYN_RCVD
  does forget its FIN, which is the subject of another finding; and with a
  closed window and nothing outstanding `tcp.c` has no timer to probe the peer.
  `NothingForgotten` also takes `TCP_PATH_MTU` to be positive.

### Timers, processes, jobs: `CoreProofs`

* `RetryTypeCorrect` and `ReferencesStayExact` from `RetryInv` (types, no timer
  listed twice, one reference per holder); `FloorStays` assuming
  `RoomToDouble` (`MIN_TIMEOUT` at most 7, and room to double every timeout);
  `NeverEarly` from `AgesOK`: for a running timer the wrapped difference
  between clock and start time is the age modulo the tick space, so it never
  exceeds the age.
* `ReferencesCounted` from `ProcessInv`, for any finite set of processes and
  any depth of nested steps. The references of an object are its entry in the
  run queue, each `step()` that is inside its process and its other owners;
  the invariant says that the count is one less than their number and that an
  object is freed exactly when there are none, and that no process is queued
  twice. Its proof rests on lemmas about how often a process occurs in a queue
  or a stack of steps from which one entry is taken or to which one is added.
* `JobsLeaveNothing` from `JobInv`, for files of any length, any timeout and any
  number of jobs. What monojob_wait returns is decided steps before it returns,
  so the invariant has to say what a success already recorded means while the
  loop goes on, and that a job that is over has left its length to the image
  and is given nothing more. The length is the end of the last block that came
  (`Longest`), since blocks come in any order.

### Neighbours, fragments: `LinkProofs`

* `NeighboursSound` from `NeighbourInv`, for any sets of entries, addresses
  and packets. `EntryOK` says of an entry that its references are the cache's,
  the timer's and the loop's or callback's that works on it; that only a cached
  entry has a timer or packets; that packets wait only while the timer runs or
  the queue is being emptied; and that an entry whose timer is stopped has the
  address announced last. A transmission allocates memory, and the cache
  discarder may then destroy the entry whose queue is being emptied: `BusyOK`
  says what holds of that entry whether or not it is still cached.
  `NeighbourAssumption` says that `"none"`, which stands for the null pointer
  and the unset address, is no entry and no address.
* `SentWhereAnnounced`: an action property. A packet is transmitted only to
  the address announced last, because an entry with a stopped timer holds that
  address and a changed one replaces it before the queue is emptied.
* `PacketExactTheorem` and `TimerRunsTheorem`, for any number and length of
  datagrams. The invariant adds what every buffer in progress holds: a prefix
  of its datagram, so that a fragment accepted at its end extends the prefix.

### Network device: `DeviceProofs`

`DeviceRings` and `PacketOrder` from `DeviceInv`, for rings of any size and
counters that wrap at any common multiple of the sizes above them, as 2^32 is
(`NetDeviceAssumption`), and for any interleaving of card and driver.

* `Ring` relates the counters of a ring, the card's own index and the set of
  descriptors the card owns: *n* descriptors are in use, the card is done with
  the first *k*, and it owns exactly the others. `RingFill`, `RingTake` and
  `RingDone` show that filling, taking back and completing descriptors keep
  this, from lemmas on what differences and slots are when counters wrap.
* `TxInv`: the transmit queue is what the ring holds, in order; the deferred
  packets come after them, and there are some only if the ring is full; a
  packet that has not been reported to its sender is in exactly one of the two.
  A closed device holds none.
* `RxInv`: exactly the descriptors in use have buffers; those the card is done
  with hold packets in the order of arrival, all later than those in the
  receive queue and the last one handed on. The packets the card could not
  store are why this is an order and not an equation.

### HTTP: `TransferProofs`

`PoolStaysClean` and `HttpTransfersFile` from `HttpInvariant`, for any sets of
transactions, connections and servers, any length of the file and any replies
(`HttpAssumption`: `"none"`, the null pointer, is no transaction).

* `ConnOK` says of each connection that it is pooled and idle, in use and
  serving its user, or free memory. `Serves` is the heart: in each state of the
  transaction, what its server has still to send is nothing, the header that
  answers its request, or exactly the rest of the body (`InBody`: what was
  received and what is to come make up the body, for each way to frame it). This is
  why a connection is clean at the moment it goes to the pool, and why a
  clean close in the middle of a body is never taken for its end.
* `TransOK` says of a transaction alone when it is over and that what it has
  handed on is the file's beginning, and the file on success.
* One operation runs through several intermediate states: a transaction is
  detached, its connection pooled or dropped, another one taken. `Rest` is what
  holds of everything but the transaction that is being worked on; `Closes`,
  `Connects`, `Reopens` and `Completes` show once per operator how it leads
  from there back to the invariant.
* The two facts about steps, that a stale connection never fails a
  transaction and that every step is one of a file transfer, follow from the
  same lemmas, which also say what a step may do to a transaction (`Allowed`).

### SAN devices: `TransferProofs`

* `OverlayExact`, for every size of block, disk and range and any number of
  ranges, which may overlap. `LoopInv` says that after *i* turns the buffer is
  the read part of the disk overlaid with the first *i* ranges.
  `OverrideExact` shows, for each of the five ways a range can lie relative to
  the read, that a turn changes exactly the bytes the range reaches;
  `OverlaidHit` and `OverlaidMiss` say what one more range does.
* `SanDeviceSound` from `SanInv`, for any number of paths, blocks, retries and
  events in one `step()`. Every path is in exactly one of the two lists and the
  active one is opened; a command is in progress only while the caller waits,
  through the active path and for the blocks the caller has come to; the blocks
  before these have been moved, and they too once the command is over without
  an error.
* `OnePathActive`: the assertion of `sandev_command_rw` for a device with one
  path, from `OnePathInv`: a closed path has failed.

### Only model-checked

* Liveness (`tcp_live`, `live`): out of the prover's reach.
* `SackHonest` and `AddressIsRight`: the SACK list and the scan of a DNS answer
  are recursive functions of a queue and of a message, and what they compute
  needs induction over these.
* `TimersServed`: that one expiry per poll is enough bounds the lateness of all
  timers together by their number, a sum over a set; and that failure is
  reached compares powers of two.
* `HeapSound`: `free` scans the list of free blocks with a fold, and what a fold
  computes needs induction too.
* The refinement of `FileTransfer` by TFTP, `TftpStored`, `InterfacesSound` and
  the invariants of `Dhcp`, `Tls`, PeerDist and `Iscsi` are within the prover's
  reach in principle; no proof has been attempted.

## Not modelled

* Within the modelled parts: several TCP connections and `tcp_demux` (each
  connection has its own state and the list is only searched by port); routing
  and port binding failures of `tcp_open`; header parsing errors, which drop
  the packet; TLS record layout, cryptography and alerts; content encodings,
  NTLM and block access of HTTP; the encoding of DNS names; parsing of iSCSI
  root paths and settings, and the iBFT; registration, ACPI and EFI
  descriptions of SAN devices; legacy mode and probing of the Realtek card;
  concatenation and DMA mapping of I/O buffers; debugging output.
* IPv4, IPv6, ICMP, UDP and NDP: lookups and header construction with little
  state of their own. Reassembly and neighbour discovery, which have some, are
  modelled.
* Settings, images, scripting, menus: sequential tree and string manipulation
  and user interface. Of iVentoy's additions the override of sector ranges is
  modelled; the rest is firmware glue and sequential I/O.
* Fibre Channel, Infiniband, 802.11, SLAM, NFS, FTP and other protocols off the
  PXE boot path: each would be a project of its own.
* Other drivers, firmware interfaces, GRUB and EFI headers: hardware
  programming and vendored or generated code. Cryptography and string
  libraries: arithmetic and parsing on data out of the reach of TLC.
