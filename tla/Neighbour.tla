----------------------------- MODULE Neighbour ------------------------------
(***************************************************************************)
(* The neighbour cache (net/neighbour.c) with ARP (net/arp.c) as its       *)
(* discovery protocol.  Packets to an address that is not resolved wait in *)
(* the queue of its cache entry.  An entry can be discarded at any moment  *)
(* that memory is short, also while its own packets are being transmitted  *)
(* or its own request is being sent.                                       *)
(***************************************************************************)
EXTENDS Integers, Sequences, Functions, Lists

CONSTANTS
    Addrs,       \* network-layer addresses
    Lls,         \* link-layer addresses
    Packets,     \* packets to be sent, each once
    Entries,     \* memory for cache entries
    MaxRetries   \* expiries before retry.c must report failure

NeighbourAssumption ==
    MaxRetries \in Nat \ {0} /\ "none" \notin Addrs \cup Lls \cup Entries

VARIABLES
    neighbours,  \* the cache: a sequence of entries, most recently used first
    entry,       \* struct neighbour, for each entry
    packet,      \* what became of each packet
    busy,        \* the entry a loop or a callback is working on, if any
    latest       \* the link-layer address last announced for each address

vars == <<neighbours, entry, packet, busy, latest>>

Unused == [addr |-> "none", ll |-> "none", timer |-> FALSE, expiries |-> 0,
           queue |-> <<>>, refs |-> 0]
Idle == [act |-> "idle", e |-> "none", ll |-> "none"]
New == [status |-> "new", addr |-> "none", ll |-> "none"]

-----------------------------------------------------------------------------
Cached == Range(neighbours)

(* The cache without entry e *)
Without(e) ==
    list_del(neighbours, CHOOSE i \in DOMAIN neighbours : neighbours[i] = e)

ToFront(e) == <<e>> \o Without(e)

neighbour_has_ll_dest(n) == ~n.timer

(* stop_timer drops the reference of a running timer *)
stop_timer(n) ==
    [n EXCEPT !.timer = FALSE, !.refs = IF n.timer THEN @ - 1 ELSE @]

(* Mutant: discovery is not started *)
CreateIdle(a) == [Unused EXCEPT !.addr = a, !.refs = 1]

(* neighbour_create and neighbour_discover: the cache and the timer own a  *)
(* reference each                                                          *)
neighbour_discover(a) == [Unused EXCEPT !.addr = a, !.timer = TRUE, !.refs = 2]

neighbour_create(a) == [Unused EXCEPT !.addr = a, !.refs = 1]

(* A destroyed entry: its timer stopped, its queue empty and the cache's   *)
(* reference dropped                                                       *)
Destroyed(n) == [stop_timer(n) EXCEPT !.queue = <<>>, !.refs = @ - 1]

(* neighbour_destroy: out of the cache, the timer stopped, every deferred  *)
(* packet reported as an error, the cache's reference dropped              *)
neighbour_destroy(e) ==
    /\ neighbours' = Without(e)
    /\ entry' = [entry EXCEPT ![e] = Destroyed(@)]
    /\ packet' = [p \in Packets |->
                    IF p \in Range(entry[e].queue)
                    THEN [packet[p] EXCEPT !.status = "error"] ELSE packet[p]]

-----------------------------------------------------------------------------
Init ==
    /\ neighbours = <<>> /\ entry = [e \in Entries |-> Unused]
    /\ packet = [p \in Packets |-> New]
    /\ busy = Idle /\ latest = [a \in Addrs |-> "none"]

(* The last part of neighbour_tx, with the entry at the front of the cache *)
Transmit(p, a, e, n) ==
    IF neighbour_has_ll_dest(n)
    THEN /\ packet' = [packet EXCEPT ![p] =
                         [status |-> "sent", addr |-> a, ll |-> n.ll]]
         /\ entry' = [entry EXCEPT ![e] = n]
    ELSE /\ packet' = [packet EXCEPT ![p] =
                         [status |-> "deferred", addr |-> a, ll |-> "none"]]
         /\ entry' = [entry EXCEPT ![e] = [n EXCEPT !.queue = Append(@, p)]]

neighbour_tx(p, a) ==
    /\ busy = Idle /\ packet[p] = New
    /\ \/ \E e \in Cached :
            /\ entry[e].addr = a /\ neighbours' = ToFront(e)
            /\ Transmit(p, a, e, entry[e])
       \/ /\ \A e \in Cached : entry[e].addr # a
          /\ \/ \E e \in Entries :
                  /\ entry[e].refs = 0 /\ neighbours' = <<e>> \o neighbours
                  /\ Transmit(p, a, e, neighbour_discover(a))
             \/ \* -ENOMEM: the caller keeps the packet
                /\ packet' = [packet EXCEPT ![p].status = "error"]
                /\ UNCHANGED <<neighbours, entry>>
    /\ UNCHANGED <<busy, latest>>

(* neighbour_discovered up to the loop over the queue *)
neighbour_discovered(e, n, ll) ==
    /\ entry' = [entry EXCEPT ![e] =
                   [stop_timer(n) EXCEPT !.ll = ll, !.refs = @ + 1]]
    /\ busy' = [act |-> "transmit", e |-> e, ll |-> ll]

(* arp_rx: "Update neighbour cache entry for this sender, if any" *)
neighbour_update(a, ll) ==
    /\ busy = Idle
    /\ \/ \E e \in Cached :
            /\ entry[e].addr = a /\ neighbours' = ToFront(e)
            /\ neighbour_discovered(e, entry[e], ll)
       \/ /\ \A e \in Cached : entry[e].addr # a
          /\ UNCHANGED <<neighbours, entry, busy>>
    /\ latest' = [latest EXCEPT ![a] = ll]
    /\ UNCHANGED packet

(* neighbour_define for an address without an entry, the address having    *)
(* come in some other packet; with an entry it is neighbour_update         *)
neighbour_define(a, ll) ==
    /\ busy = Idle /\ \A e \in Cached : entry[e].addr # a
    /\ \E e \in Entries :
         /\ entry[e].refs = 0 /\ neighbours' = <<e>> \o neighbours
         /\ neighbour_discovered(e, neighbour_create(a), ll)
    /\ latest' = [latest EXCEPT ![a] = ll]
    /\ UNCHANGED packet

(* Mutant: only one deferred packet is transmitted *)
TransmitOne ==
    /\ busy.act = "transmit" /\ entry[busy.e].queue # <<>>
    /\ packet' = [packet EXCEPT ![Head(entry[busy.e].queue)] =
                    [@ EXCEPT !.status = "sent", !.ll = busy.ll]]
    /\ entry' = [entry EXCEPT ![busy.e].queue = Tail(@),
                              ![busy.e].refs = @ - 1]
    /\ busy' = Idle /\ UNCHANGED <<neighbours, latest>>

(* One iteration of that loop: net_tx of the first deferred packet *)
transmit_deferred ==
    /\ busy.act = "transmit" /\ entry[busy.e].queue # <<>>
    /\ packet' = [packet EXCEPT ![Head(entry[busy.e].queue)] =
                    [@ EXCEPT !.status = "sent", !.ll = busy.ll]]
    /\ entry' = [entry EXCEPT ![busy.e].queue = Tail(@)]
    /\ UNCHANGED <<neighbours, busy, latest>>

transmit_end ==
    /\ busy.act = "transmit" /\ entry[busy.e].queue = <<>>
    /\ entry' = [entry EXCEPT ![busy.e].refs = @ - 1]
    /\ busy' = Idle /\ UNCHANGED <<neighbours, packet, latest>>

-----------------------------------------------------------------------------

(* neighbour_expired.  retry.c has taken the timer out of its list and     *)
(* keeps its reference until the callback returns; the callback starts the *)
(* timer before it transmits the request.                                  *)
neighbour_expired(e, fail) ==
    LET n == entry[e] IN
    /\ busy = Idle /\ n.timer
    /\ IF fail THEN n.expiries > 0 ELSE n.expiries < MaxRetries
    /\ IF fail
       THEN neighbour_destroy(e) /\ UNCHANGED busy
       ELSE /\ entry' = [entry EXCEPT ![e].expiries = @ + 1, ![e].refs = @ + 1]
            /\ busy' = [act |-> "request", e |-> e, ll |-> "none"]
            /\ UNCHANGED <<neighbours, packet>>
    /\ UNCHANGED latest

request_end ==
    /\ busy.act = "request"
    /\ entry' = [entry EXCEPT ![busy.e].refs = @ - 1]
    /\ busy' = Idle /\ UNCHANGED <<neighbours, packet, latest>>

(* An allocation somewhere fails: "Drop oldest cache entry, if any" *)
neighbour_discard ==
    /\ neighbours # <<>>
    /\ neighbour_destroy(neighbours[Len(neighbours)])
    /\ UNCHANGED <<busy, latest>>

(* A network device is closed: every entry goes, the first one first *)
neighbour_flush ==
    /\ busy = Idle /\ neighbours # <<>>
    /\ neighbours' = <<>>
    /\ entry' = [e \in Entries |->
                   IF e \in Cached THEN Destroyed(entry[e]) ELSE entry[e]]
    /\ packet' = [p \in Packets |->
                    IF packet[p].status = "deferred"
                    THEN [packet[p] EXCEPT !.status = "error"] ELSE packet[p]]
    /\ UNCHANGED <<busy, latest>>

Next ==
    \/ \E p \in Packets, a \in Addrs : neighbour_tx(p, a)
    \/ \E a \in Addrs, ll \in Lls : neighbour_update(a, ll) \/ neighbour_define(a, ll)
    \/ transmit_deferred \/ transmit_end \/ request_end
    \/ \E e \in Entries, fail \in BOOLEAN : neighbour_expired(e, fail)
    \/ neighbour_discard \/ neighbour_flush

Spec == Init /\ [][Next]_vars

-----------------------------------------------------------------------------
(* A packet is only ever transmitted to the link-layer address announced   *)
(* last for its destination, although "has a valid link-layer address" is  *)
(* nothing but "the timer is not running" (neighbour_has_ll_dest).         *)
TxToLatest ==
    [][\A p \in Packets :
         packet'[p].status = "sent" /\ packet[p].status # "sent" =>
         packet'[p].ll \in Lls /\ packet'[p].ll = latest[packet'[p].addr]]_vars

(* A deferred packet waits in one queue only: that of a cached entry whose *)
(* discovery is going on, or of the entry whose queue is being emptied. No *)
(* packet is stranded in an entry that will not be looked at again.        *)
DeferredWaits ==
    \A p \in Packets : packet[p].status = "deferred" =>
      \E e \in Entries :
        /\ {f \in Entries : p \in Range(entry[f].queue)} = {e}
        /\ entry[e].addr = packet[p].addr /\ e \in Cached
        /\ entry[e].timer \/ (busy.act = "transmit" /\ busy.e = e)

(* An entry's references are the cache's, the running timer's and that of  *)
(* the loop or callback at work on it (neighbour_create, neighbour_destroy,*)
(* neighbour_discovered).                                                  *)
RefsExact ==
    \A e \in Entries :
      entry[e].refs = (IF e \in Cached THEN 1 ELSE 0) + (IF entry[e].timer THEN 1 ELSE 0)
                      + (IF busy.e = e THEN 1 ELSE 0)

(* assert ( list_empty ( &neighbour->tx_queue ) ) when an entry is freed   *)
FreedEmpty == \A e \in Entries : entry[e].refs = 0 => entry[e].queue = <<>>

(* Two entries for one address, of which neighbour_find only finds one, do *)
(* not exist.                                                              *)
OneEntryEach ==
    \A i, j \in DOMAIN neighbours :
      i # j => entry[neighbours[i]].addr # entry[neighbours[j]].addr

(* The four together: no packet is stranded and no entry is freed early,   *)
(* late or with packets in its queue (neighbour.c)                         *)
NeighbourSound == DeferredWaits /\ RefsExact /\ FreedEmpty /\ OneEntryEach
=============================================================================
