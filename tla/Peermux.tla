------------------------------ MODULE Peermux -------------------------------
(***************************************************************************)
(* A PeerDist download (net/peermux.c, net/peerblk.c, net/peerdisc.c):     *)
(* the multiplexer starts block downloads in a few slots; each tries the   *)
(* peers discovered for its segment in turn and then, through a queue      *)
(* that limits how many run at once, the origin server; discovery is       *)
(* shared by all blocks of a segment.  What an attempt's data goes through *)
(* is in Peerblk: here an attempt delivers the right block or not.         *)
(***************************************************************************)
EXTENDS Integers, Sequences, SequencesExt

CONSTANTS
    Slots,       \* 1..PEERMUX_MAX_BLOCKS
    Segments,    \* the content: a sequence of numbers of blocks
    Skipped,     \* <<segment, block>> pairs outside the trimmed range
    Locations,   \* where peers may be found
    RawMax,      \* PEERBLK_RAW_MAX
    MaxCycles,   \* PEERBLK_MAX_ATTEMPT_CYCLES
    DefaultTimeout,  \* PEERDISC_DEFAULT_TIMEOUT_SECS
    CountSpace,  \* the queue's count wraps here (2^32 in the code)
    Faults       \* which allocations may fail: subset of
                 \* {"retrieval", "raw", "segment"}

PeermuxAssumption ==
    /\ {RawMax, MaxCycles, DefaultTimeout, CountSpace} \subseteq Nat \ {0}
    /\ RawMax < CountSpace
    /\ Segments \in Seq(Nat \ {0})
    /\ Faults \subseteq {"retrieval", "raw", "segment"}

VARIABLES
    mux,       \* multiplexer: state, process, position, idle and busy slots
    blk,       \* the block download in each slot
    queue,     \* raw queue: list, count and process
    disc,      \* discovery: peers of each segment, timeout, sockets, recent peer
    content    \* what the file holds of each block

vars == <<mux, blk, queue, disc, content>>

Blocks == UNION { {s} \X (1..Segments[s]) : s \in 1..Len(Segments) }

Null     == -1    \* no peer tried yet
ListHead == 0     \* the head of the list of peers

(* doing: "timer", "retrieval", "decrypt", "queued", "opening" or "raw";   *)
(* delay says that the timer waits for discovery, queue that the download  *)
(* belongs to the raw queue                                                *)
Closed == [doing |-> "closed", block |-> <<0, 0>>, peer |-> Null, cycles |-> 0,
           delay |-> FALSE, queue |-> FALSE]

Open(B) == { i \in Slots : B[i].doing # "closed" }

SegmentOf(b) == b.block[1]

Clients(B, s) == { i \in Open(B) : SegmentOf(B[i]) = s }

Now == [mux |-> mux, blk |-> blk, queue |-> queue, disc |-> disc, content |-> content]

Become(T) ==
    \E U \in {T} :
        /\ mux' = U.mux
        /\ blk' = U.blk
        /\ queue' = U.queue
        /\ disc' = U.disc
        /\ content' = U.content

Init ==
    /\ mux = [state |-> "info", process |-> FALSE, segment |-> 0, block |-> 0,
              idle |-> SetToSortSeq(Slots, <), busy |-> {}]
    /\ blk = [i \in Slots |-> Closed]
    /\ queue = [list |-> <<>>, count |-> 0, process |-> FALSE]
    /\ disc = [peers |-> [s \in 1..Len(Segments) |-> <<>>], timeout |-> DefaultTimeout,
               sockets |-> FALSE, recent |-> <<>>]
    /\ content = [b \in Blocks |-> "none"]

-----------------------------------------------------------------------------
(* Discovery (net/peerdisc.c) *)

(* A new peer ends the wait of the segment's blocks (peerblk_discovered) *)
peerdisc_discovered(T, s, loc) ==
    IF loc \in ToSet(T.disc.peers[s]) THEN T
    ELSE [T EXCEPT !.disc.peers[s] = Append(@, loc),
                   !.disc.recent = <<loc>>,
                   !.blk = [i \in Slots |->
                              IF i \in Clients(T.blk, s) /\ T.blk[i].peer = Null
                              THEN [T.blk[i] EXCEPT !.delay = FALSE] ELSE T.blk[i]]]

(* Find or create the segment; "fails" when the creation fails *)
peerdisc_open(T, s, fails) ==
    LET opened == IF Open(T.blk) = {} THEN [T EXCEPT !.disc.sockets = TRUE] ELSE T
    IN  IF Clients(T.blk, s) # {} \/ fails \/ T.disc.recent = <<>> THEN opened
        ELSE peerdisc_discovered(opened, s, T.disc.recent[1])

(* The last client of a segment takes it away, the last segment the sockets *)
peerdisc_close(T, i) ==
    LET s == SegmentOf(T.blk[i])
    IN  [T EXCEPT !.disc.timeout = IF T.disc.peers[s] = <<>> /\ @ > 0 THEN @ - 1 ELSE @,
                  !.disc.peers[s] = IF Clients(T.blk, s) = {i} THEN <<>> ELSE @,
                  !.disc.sockets = Open(T.blk) # {i},
                  !.blk[i] = Closed]

-----------------------------------------------------------------------------
(* Block downloads (net/peerblk.c) *)

(* A download that is not in the list counts as an open one *)
peerblk_dequeue(T, i) ==
    IF ~T.blk[i].queue THEN T
    ELSE LET out == [T EXCEPT !.blk[i].queue = FALSE]
         IN  IF i \in ToSet(T.queue.list)
             THEN [out EXCEPT !.queue.list = SelectSeq(@, LAMBDA j : j # i)]
             ELSE [out EXCEPT !.queue.count = (@ + CountSpace - 1) % CountSpace,
                              !.queue.process = TRUE]

(* Nothing is under way any more: no timer, transfer, decryption or queue *)
peerblk_reset(T, i) == [peerblk_dequeue(T, i) EXCEPT !.blk[i].doing = "stopped"]

(* peerblk_close() up to the interface to the multiplexer *)
CloseBlock(T, i) == peerdisc_close(peerblk_reset(T, i), i)

(* Everything is shut down, in the order of the slots *)
peermux_close(T, rc) ==
    LET shut == FoldLeft(LAMBDA U, i : IF i \in Open(U.blk) THEN CloseBlock(U, i) ELSE U,
                         T, SetToSortSeq(Slots, <))
    IN  [shut EXCEPT !.mux.state = rc, !.mux.process = FALSE]

(* A block's end frees its slot; an error ends the whole download *)
peermux_block_close(T, i, rc) ==
    LET idle == [T EXCEPT !.mux.idle = Append(@, i), !.mux.busy = @ \ {i}]
    IN  IF rc # "ok" THEN peermux_close(idle, rc)
        ELSE [idle EXCEPT !.mux.process = TRUE]

peerblk_close(T, i, rc) == peermux_block_close(CloseBlock(T, i), i, rc)

(* An attempt ends: with the right digest the block is complete, otherwise *)
(* the next attempt is scheduled                                           *)
peerblk_done(T, i, good) ==
    IF good THEN peerblk_close(T, i, "ok")
    ELSE [peerblk_reset(T, i) EXCEPT !.blk[i].doing = "timer", !.blk[i].delay = FALSE]

peerblk_enqueue(T, i) ==
    [T EXCEPT !.blk[i].queue = TRUE, !.blk[i].doing = "queued",
              !.queue.list = Append(@, i), !.queue.process = TRUE]

(* The content is discovered segment by segment; once it has peers the     *)
(* first attempt need not wait                                             *)
peerblk_open(T, i, b) ==
    LET U == peerdisc_open(T, b[1], FALSE)
    IN  [U EXCEPT !.blk[i] = [Closed EXCEPT !.doing = "timer", !.block = b,
                                            !.delay = U.disc.peers[b[1]] = <<>>
                                                      /\ U.disc.timeout > 0]]

(* The timer: give up the attempt under way.  The next peer that can be    *)
(* opened is tried; after the last one comes the raw queue, and after that *)
(* the next cycle begins, or the download fails.                           *)
peerblk_expired(i) ==
    /\ blk[i].doing \in {"timer", "retrieval", "raw"}
    /\ LET T     == peerblk_reset(Now, i)
           peers == disc.peers[SegmentOf(blk[i])]
           turn  == blk[i].peer = ListHead
           from  == IF blk[i].peer = Null THEN ListHead ELSE blk[i].peer
       IN  \/ /\ turn /\ blk[i].cycles + 1 >= MaxCycles
              /\ Become(peerblk_close(T, i, "error"))
           \/ /\ ~(turn /\ blk[i].cycles + 1 >= MaxCycles)
              /\ LET C == IF turn THEN [T EXCEPT !.blk[i].cycles = @ + 1] ELSE T
                 IN  \/ \E p \in (from + 1)..Len(peers) :
                           /\ p = from + 1 \/ "retrieval" \in Faults
                           /\ Become([C EXCEPT !.blk[i].peer = p,
                                               !.blk[i].doing = "retrieval"])
                     \/ /\ from = Len(peers) \/ "retrieval" \in Faults
                        /\ Become(peerblk_enqueue([C EXCEPT !.blk[i].peer = ListHead], i))

(* The queue's process: open the first queued download if there is room *)
peerblk_step(fails) ==
    /\ queue.process
    /\ LET T == [Now EXCEPT !.queue.process = FALSE]
       IN  IF queue.count >= RawMax \/ queue.list = <<>> THEN ~fails /\ Become(T)
           ELSE LET i == queue.list[1]
                    U == [T EXCEPT !.queue.process = TRUE, !.queue.list = Tail(@),
                                   !.blk[i].doing = "opening"]
                IN  IF fails THEN "raw" \in Faults /\ Become(peerblk_close(U, i, "error"))
                    ELSE Become([U EXCEPT !.blk[i].doing = "raw", !.queue.count = @ + 1])

(* Data arrives; its end is another step.  The file holds what came last. *)
peerblk_rx(i) ==
    /\ blk[i].doing \in {"retrieval", "raw"}
    /\ Become([Now EXCEPT !.content[blk[i].block] = "partial"])

(* The origin server has sent everything, or failed *)
peerblk_raw_close(i, good) ==
    /\ blk[i].doing = "raw"
    /\ LET T == [Now EXCEPT !.content[blk[i].block] = IF good THEN "good" ELSE "partial"]
       IN  Become(peerblk_done(T, i, good))

(* The peer has sent a whole message, which is then decrypted, or not *)
peerblk_retrieval_close(i, good) ==
    /\ blk[i].doing = "retrieval"
    /\ IF good THEN Become([Now EXCEPT !.content[blk[i].block] = "cipher",
                                       !.blk[i].doing = "decrypt"])
       ELSE Become(peerblk_done(Now, i, FALSE))

peerblk_decrypt(i, good) ==
    /\ blk[i].doing = "decrypt"
    /\ LET T == [Now EXCEPT !.content[blk[i].block] = IF good THEN "good" ELSE "partial"]
       IN  Become(peerblk_done(T, i, good))

-----------------------------------------------------------------------------
(* The multiplexer (net/peermux.c) *)

(* The content information has arrived, or has not *)
peermux_info_close(rc) ==
    /\ mux.state = "info"
    /\ Become(IF rc = "ok" THEN [Now EXCEPT !.mux.state = "run", !.mux.process = TRUE]
              ELSE peermux_close(Now, rc))

(* Start the next block in the first idle slot.  The process stops when    *)
(* there is no idle slot or no block left; when the last block has ended   *)
(* the download is over.                                                   *)
peermux_step(fails) ==
    /\ mux.process
    /\ LET last == mux.segment = 0 \/ mux.block = Segments[mux.segment]
           s    == IF last THEN mux.segment + 1 ELSE mux.segment
           b    == IF last THEN 1 ELSE mux.block + 1
           T    == [Now EXCEPT !.mux.segment = s, !.mux.block = b]
       IN  IF mux.idle = <<>> THEN ~fails /\ Become([Now EXCEPT !.mux.process = FALSE])
           ELSE IF last /\ mux.segment = Len(Segments)
           THEN ~fails /\ Become(IF mux.busy = {} THEN peermux_close(Now, "ok")
                                 ELSE [Now EXCEPT !.mux.process = FALSE])
           ELSE IF <<s, b>> \in Skipped THEN ~fails /\ Become(T)
           ELSE IF fails
           THEN /\ "segment" \in Faults
                /\ Clients(blk, s) = {}
                /\ Become(peermux_close(peerdisc_open(T, s, TRUE), "error"))
           ELSE Become([peerblk_open(T, mux.idle[1], <<s, b>>) EXCEPT
                          !.mux.idle = Tail(@), !.mux.busy = @ \cup {mux.idle[1]}])

(* The recipient closes the download *)
peermux_cancel ==
    /\ mux.state \in {"info", "run"}
    /\ Become(peermux_close(Now, "cancelled"))

(* A discovery reply for a segment; one for an unknown segment still       *)
(* restores the timeout                                                    *)
peerdisc_socket_rx(s, loc) ==
    /\ disc.sockets
    /\ LET T == [Now EXCEPT !.disc.timeout = DefaultTimeout]
       IN  Become(IF Clients(blk, s) = {} THEN T ELSE peerdisc_discovered(T, s, loc))

Over == mux.state \notin {"info", "run"} /\ ~queue.process /\ UNCHANGED vars

(* Only the process is left to run down after the download is over *)
Next ==
    \/ \E i \in Slots : peerblk_expired(i)
    \/ \E i \in Slots : peerblk_rx(i)
    \/ \E i \in Slots, good \in BOOLEAN : peerblk_raw_close(i, good)
    \/ \E i \in Slots, good \in BOOLEAN : peerblk_retrieval_close(i, good)
    \/ \E i \in Slots, good \in BOOLEAN : peerblk_decrypt(i, good)
    \/ \E fails \in BOOLEAN : peerblk_step(fails)
    \/ \E fails \in BOOLEAN : peermux_step(fails)
    \/ \E rc \in {"ok", "error"} : peermux_info_close(rc)
    \/ peermux_cancel
    \/ \E s \in 1..Len(Segments), loc \in Locations : peerdisc_socket_rx(s, loc)
    \/ Over

Spec == Init /\ [][Next]_vars

-----------------------------------------------------------------------------
Running == mux.state = "run"

(* peermux_step() reports success only when every block of the content     *)
(* that is not trimmed away is in the file, verified, and no failed or     *)
(* late attempt has spoilt it since.                                       *)
CompleteIsVerified ==
    mux.state = "ok" => \A b \in Blocks \ Skipped : content[b] = "good"

(* Once the download is over, by success, failure or cancellation, no      *)
(* block download, queue entry or discovery is left behind.                *)
NothingLeft ==
    mux.state \notin {"info", "run"} =>
        /\ Open(blk) = {}
        /\ queue.list = <<>> /\ queue.count = 0
        /\ ~disc.sockets
        /\ \A s \in 1..Len(Segments) : disc.peers[s] = <<>>

(* The raw queue's count is the "Number of open downloads" (peerblk.h),    *)
(* which never exceeds the maximum.                                        *)
CountIsOpen ==
    LET open == { i \in Slots : blk[i].doing = "raw" }
    IN  queue.count = Cardinality(open) /\ queue.count <= RawMax

(* Something always drives the download on: a queued block has the queue's *)
(* process coming or other downloads to wait for, a free slot is used as   *)
(* long as there are blocks to start, and no block stands still.           *)
SomethingDrives ==
    /\ queue.list # <<>> => queue.process \/ queue.count = RawMax
    /\ \A i \in Slots : blk[i].doing # "stopped"
    /\ Running => mux.process \/ mux.busy # {}
    /\ Running /\ mux.idle # <<>> /\ ~mux.process =>
          mux.segment = Len(Segments) /\ mux.block = Segments[mux.segment]
    /\ Running => mux.busy = Open(blk)

(* A block goes to the origin server only after every peer known for its   *)
(* segment has had its turn in this cycle: one step either moves to the    *)
(* next peer of the list or, past the last one, to the queue.              *)
EveryPeerTried ==
    [][ \A i \in Slots :
          (blk[i].doing \in {"timer", "retrieval"} /\ blk'[i].doing = "queued")
          => \/ blk[i].peer = Len(disc.peers[SegmentOf(blk[i])])
             \/ disc.peers[SegmentOf(blk[i])] = <<>> ]_vars

(* A block that waits for discovery has no peers: the first peer found     *)
(* ends the wait (peerblk_discovered).                                     *)
WaitsForPeers ==
    \A i \in Slots :
        blk[i].doing = "timer" /\ blk[i].delay => disc.peers[SegmentOf(blk[i])] = <<>>
=============================================================================
