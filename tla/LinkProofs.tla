------------------------------ MODULE LinkProofs ----------------------------
(***************************************************************************)
(* Theorems about the neighbour cache, for any number of addresses,        *)
(* entries and packets, and about reassembly, for any number of datagrams  *)
(* and any length.                                                         *)
(***************************************************************************)
EXTENDS Link, ListFacts

-----------------------------------------------------------------------------
(* The neighbour cache *)

(* The reference that is there when b holds *)
One(b) == IF b THEN 1 ELSE 0

EntryRecord ==
    [addr : Addrs \cup {"none"}, ll : Lls \cup {"none"}, timer : BOOLEAN,
     expiries : Nat, queue : Seq(Packets), refs : Int]
PacketRecord ==
    [status : {"new", "sent", "deferred", "error"},
     addr : Addrs \cup {"none"}, ll : Lls \cup {"none"}]

(* What is at work on entry e *)
At(e) == IF busy.e = e THEN busy.act ELSE "idle"

(* A cache entry n, whether it is in the cache, and what is at work on it: *)
(* its references are exact, only a cached entry has a timer or packets,   *)
(* an entry without a timer has the address announced last, and its        *)
(* packets are the deferred ones of its address.                           *)
EntryOK(n, cached, stage, last, pkt) ==
    /\ n \in EntryRecord
    /\ n.refs = One(cached) + One(n.timer) + One(stage # "idle")
    /\ ~cached => ~n.timer /\ n.queue = <<>>
    /\ cached => n.addr \in Addrs
    /\ cached /\ ~n.timer => n.ll \in Lls /\ n.ll = last[n.addr]
    /\ n.queue # <<>> => n.timer \/ stage = "transmit"
    /\ Distinct(n.queue)
    /\ \A p \in Packets :
         In(n.queue, p) => pkt[p].status = "deferred" /\ pkt[p].addr = n.addr

(* What a loop or callback works on *)
BusyOK ==
    /\ busy.act \in {"idle", "transmit", "request"}
    /\ busy.act = "idle" => busy = Idle
    /\ busy.act # "idle" => busy.e \in Entries
    /\ busy.act = "transmit" =>
         /\ ~entry[busy.e].timer
         /\ In(neighbours, busy.e) => busy.ll = entry[busy.e].ll

NeighbourTypes ==
    /\ neighbours \in Seq(Entries) /\ Distinct(neighbours)
    /\ entry \in [Entries -> EntryRecord]
    /\ packet \in [Packets -> PacketRecord]
    /\ latest \in [Addrs -> Lls \cup {"none"}]

NeighbourInv ==
    /\ NeighbourTypes
    /\ \A e \in Entries :
         EntryOK(entry[e], In(neighbours, e), At(e), latest, packet)
    /\ BusyOK
    /\ \A p \in Packets : packet[p].status = "deferred" =>
         \E e \in Entries : In(entry[e].queue, p)
    /\ \A e, f \in Entries :
         In(neighbours, e) /\ In(neighbours, f) /\ entry[e].addr = entry[f].addr
         => e = f

LEMMA NeighbourTerms ==
    /\ \A s, u : u \in Range(s) <=> In(s, u)
    /\ \A u : u \in Cached <=> In(neighbours, u)
  <1>1. \A s, u : u \in Range(s) <=> In(s, u)
    BY DEF Range, In
  <1>2. QED BY Zenon, <1>1 DEF Cached

(* The cache without an entry that was in it. *)
LEMMA EntryDelisted ==
    ASSUME NEW e, neighbours \in Seq(Entries), Distinct(neighbours),
           In(neighbours, e)
    PROVE  /\ Without(e) \in Seq(Entries) /\ Distinct(Without(e))
           /\ \A u : In(Without(e), u) <=> In(neighbours, u) /\ u # e
  <1> DEFINE i == CHOOSE j \in DOMAIN neighbours : neighbours[j] = e
             r == list_del(neighbours, i)
  <1>1. i \in DOMAIN neighbours /\ neighbours[i] = e
    BY Zenon DEF In
  <1>2. Without(e) = r
    BY Zenon DEF Without
  <1> HIDE DEF i
  <1>3. /\ r \in Seq(Entries) /\ Distinct(r)
        /\ \A u : In(r, u) <=> In(neighbours, u) /\ u # neighbours[i]
    BY Zenon, <1>1, Delisted
  <1>4. QED BY Zenon, <1>1, <1>2, <1>3

(* neighbour_find moves an entry; the cache holds the same entries. *)
LEMMA MovedToFront ==
    ASSUME NEW e \in Entries, neighbours \in Seq(Entries),
           Distinct(neighbours), In(neighbours, e)
    PROVE  /\ ToFront(e) \in Seq(Entries) /\ Distinct(ToFront(e))
           /\ \A u : In(ToFront(e), u) <=> In(neighbours, u)
  <1> DEFINE r == Without(e)
  <1>1. /\ r \in Seq(Entries) /\ Distinct(r)
        /\ \A u : In(r, u) <=> In(neighbours, u) /\ u # e
    BY Zenon, EntryDelisted
  <1>2. ToFront(e) = <<e>> \o r
    BY Zenon DEF ToFront
  <1> HIDE DEF r
  <1>3. /\ <<e>> \o r \in Seq(Entries) /\ Distinct(<<e>> \o r)
        /\ \A u : In(<<e>> \o r, u) <=> In(r, u) \/ u = e
    BY Zenon, <1>1, Enlisted
  <1>4. QED BY Zenon, <1>1, <1>2, <1>3

(* A handler that works on entry e only, of which it makes n, and leaves   *)
(* alone what the others depend on.                                        *)
LEMMA EntryStep ==
    ASSUME NeighbourInv, NeighbourTypes', NEW e \in Entries, NEW n,
           entry' = [entry EXCEPT ![e] = n],
           \A f \in Entries : f # e =>
             /\ In(neighbours', f) <=> In(neighbours, f)
             /\ At(f)' = At(f)
             /\ In(neighbours, f) /\ ~entry[f].timer =>
                  latest'[entry[f].addr] = latest[entry[f].addr]
             /\ \A p \in Packets : In(entry[f].queue, p) => packet'[p] = packet[p]
             /\ In(neighbours, f) /\ In(neighbours', e) => entry[f].addr # n.addr,
           EntryOK(n, In(neighbours', e), At(e)', latest', packet'),
           BusyOK',
           \A p \in Packets : packet'[p].status = "deferred" =>
             \/ In(n.queue, p)
             \/ \E f \in Entries : f # e /\ In(entry[f].queue, p)
    PROVE  NeighbourInv'
  <1>1. /\ entry \in [Entries -> EntryRecord]
        /\ \A f \in Entries :
             EntryOK(entry[f], In(neighbours, f), At(f), latest, packet)
    BY Zenon DEF NeighbourInv, NeighbourTypes
  <1>2. entry'[e] = n /\ \A f \in Entries : f # e => entry'[f] = entry[f]
    BY <1>1
  <1>3. ASSUME NEW f \in Entries
        PROVE  EntryOK(entry'[f], In(neighbours', f), At(f)', latest', packet')
    <2>1. CASE f = e
      BY Zenon, <1>2, <2>1
    <2>2. CASE f # e
      <3> DEFINE c1 == In(neighbours, f)
                 c2 == In(neighbours', f)
                 stage == At(f)
                 m  == entry[f]
      <3>1. entry'[f] = m /\ At(f)' = stage
        BY Zenon, <1>2, <2>2
      <3>2. /\ c1 <=> c2
            /\ c1 /\ ~m.timer => latest'[m.addr] = latest[m.addr]
            /\ \A p \in Packets : In(m.queue, p) => packet'[p] = packet[p]
        BY Zenon, <2>2
      <3>3. EntryOK(m, c1, stage, latest, packet)
        BY Zenon, <1>1
      <3> HIDE DEF c1, c2, stage, m
      <3>4. EntryOK(m, c2, stage, latest', packet')
        BY Zenon, <3>2, <3>3 DEF EntryOK, One
      <3>5. QED BY Zenon, <3>1, <3>4 DEF c2
    <2>3. QED BY Zenon, <2>1, <2>2
  <1>4. ASSUME NEW p \in Packets, packet'[p].status = "deferred"
        PROVE  \E f \in Entries : In(entry'[f].queue, p)
    BY Zenon, <1>2, <1>4
  <1>5. ASSUME NEW f \in Entries, NEW g \in Entries, In(neighbours', f),
               In(neighbours', g), entry'[f].addr = entry'[g].addr
        PROVE  f = g
    <2>1. CASE f = e
      BY Zenon, <1>2, <1>5, <2>1
    <2>2. CASE g = e
      BY Zenon, <1>2, <1>5, <2>2
    <2>3. CASE f # e /\ g # e
      BY Zenon, <1>2, <1>5, <2>3 DEF NeighbourInv
    <2>4. QED BY Zenon, <2>1, <2>2, <2>3
  <1>6. QED BY Zenon, <1>3, <1>4, <1>5 DEF NeighbourInv

(* What the invariant says of an entry and its packets. *)
LEMMA EntryFacts ==
    ASSUME NeighbourInv, NEW e \in Entries
    PROVE  /\ EntryOK(entry[e], In(neighbours, e), At(e), latest, packet)
           /\ entry[e] \in EntryRecord
           /\ \A p \in Packets : In(entry[e].queue, p) =>
                In(neighbours, e) /\ packet[p].status = "deferred"
           /\ \A p \in Packets, f \in Entries :
                In(entry[e].queue, p) /\ In(entry[f].queue, p) => f = e
  <1>1. \A f \in Entries :
          EntryOK(entry[f], In(neighbours, f), At(f), latest, packet)
    BY Zenon DEF NeighbourInv
  <1>2. ASSUME NEW f \in Entries, NEW p \in Packets, In(entry[f].queue, p)
        PROVE  /\ In(neighbours, f) /\ packet[p].status = "deferred"
               /\ packet[p].addr = entry[f].addr
    <2>1. entry[f].queue # <<>>
      BY <1>2 DEF In
    <2>2. QED BY Zenon, <1>1, <1>2, <2>1 DEF EntryOK
  <1>3. ASSUME NEW p \in Packets, NEW f \in Entries,
               In(entry[e].queue, p), In(entry[f].queue, p)
        PROVE  f = e
    <2>1. In(neighbours, e) /\ In(neighbours, f) /\ entry[e].addr = entry[f].addr
      BY Zenon, <1>2, <1>3
    <2>2. QED BY Zenon, <2>1 DEF NeighbourInv
  <1>4. entry[e] \in EntryRecord
    BY Zenon, <1>1 DEF EntryOK
  <1>5. QED BY Zenon, <1>1, <1>2, <1>3, <1>4

(* A packet that is new is in no queue, and one that is deferred in some.  *)
LEMMA PacketFacts ==
    ASSUME NeighbourInv, NEW p \in Packets
    PROVE  /\ packet[p] = New => \A e \in Entries : ~In(entry[e].queue, p)
           /\ packet[p].status = "deferred" =>
                \E e \in Entries : In(entry[e].queue, p)
  <1>1. packet[p] = New => packet[p].status # "deferred"
    BY DEF New
  <1>2. \A e \in Entries : In(entry[e].queue, p) => packet[p].status = "deferred"
    BY Zenon, EntryFacts
  <1>3. QED BY Zenon, <1>1, <1>2 DEF NeighbourInv

(* Nothing is at work on any entry. *)
LEMMA NothingAt ==
    ASSUME NeighbourAssumption, busy = Idle
    PROVE  \A e \in Entries : At(e) = "idle"
  <1>1. busy.e = "none"
    BY DEF Idle
  <1>2. QED BY Zenon, <1>1 DEF At, NeighbourAssumption

(* neighbour_tx, once the entry is found or created: m is what it is then. *)
LEMMA TransmitKeeps ==
    ASSUME NeighbourAssumption, NeighbourInv,
           NEW p \in Packets, NEW a \in Addrs, NEW e \in Entries, NEW m,
           busy = Idle, busy' = busy, latest' = latest, packet[p] = New,
           neighbours' \in Seq(Entries), Distinct(neighbours'),
           In(neighbours', e),
           \A f \in Entries : f # e =>
             /\ In(neighbours', f) <=> In(neighbours, f)
             /\ In(neighbours, f) => entry[f].addr # a,
           EntryOK(m, TRUE, "idle", latest, packet), m.addr = a, ~In(m.queue, p),
           \A q \in Packets : In(entry[e].queue, q) => In(m.queue, q),
           Transmit(p, a, e, m)
    PROVE  NeighbourInv'
  <1> DEFINE gone == [status |-> "sent", addr |-> a, ll |-> m.ll]
             wait == [status |-> "deferred", addr |-> a, ll |-> "none"]
             long == [m EXCEPT !.queue = Append(m.queue, p)]
             n    == IF m.timer THEN long ELSE m
             k    == IF m.timer THEN wait ELSE gone
  <1>1. /\ m \in EntryRecord /\ m.timer \in BOOLEAN /\ m.queue \in Seq(Packets)
        /\ m.ll \in Lls \cup {"none"} /\ Distinct(m.queue)
    <2>1. m \in EntryRecord /\ Distinct(m.queue)
      BY Zenon DEF EntryOK
    <2>2. QED BY <2>1 DEF EntryRecord
  <1>2. /\ Append(m.queue, p) \in Seq(Packets) /\ Distinct(Append(m.queue, p))
        /\ \A u : In(Append(m.queue, p), u) <=> In(m.queue, u) \/ u = p
    <2>1. ASSUME NEW s \in Seq(Packets), Distinct(s), ~In(s, p)
          PROVE  /\ Append(s, p) \in Seq(Packets) /\ Distinct(Append(s, p))
                 /\ \A u : In(Append(s, p), u) <=> In(s, u) \/ u = p
      BY Zenon, <2>1, Appended
    <2>2. QED BY Zenon, <1>1, <2>1
  <1>3. /\ long \in EntryRecord /\ long.queue = Append(m.queue, p)
        /\ long.timer = m.timer /\ long.refs = m.refs /\ long.ll = m.ll
        /\ long.addr = m.addr
    BY Zenon, <1>1, <1>2 DEF EntryRecord
  <1>4. /\ gone \in PacketRecord /\ wait \in PacketRecord
        /\ gone.status = "sent" /\ wait.status = "deferred" /\ wait.addr = a
    BY <1>1 DEF PacketRecord
  <1>5. packet' = [packet EXCEPT ![p] = k] /\ entry' = [entry EXCEPT ![e] = n]
    BY Zenon, <1>1 DEF Transmit, neighbour_has_ll_dest
  <1> HIDE DEF gone, wait, long
  <1>6. /\ n \in EntryRecord /\ k \in PacketRecord /\ n.addr = a
        /\ \A q \in Packets : In(m.queue, q) => In(n.queue, q)
        /\ k.status = "deferred" => In(n.queue, p)
    <2>1. CASE m.timer
      BY Zenon, <1>1, <1>2, <1>3, <1>4, <2>1
    <2>2. CASE ~m.timer
      BY Zenon, <1>1, <1>4, <2>2
    <2>3. QED BY Zenon, <1>1, <2>1, <2>2
  <1>7. /\ packet \in [Packets -> PacketRecord]
        /\ entry \in [Entries -> EntryRecord]
        /\ latest \in [Addrs -> Lls \cup {"none"}]
    BY Zenon DEF NeighbourInv, NeighbourTypes
  <1>8. packet'[p] = k /\ \A q \in Packets : q # p => packet'[q] = packet[q]
    BY <1>5, <1>7
  <1>9. EntryOK(n, TRUE, "idle", latest, packet')
    <2>1. CASE m.timer
      <3>1. n = long /\ k = wait
        BY Zenon, <2>1
      <3>2. EntryOK(long, TRUE, "idle", latest, packet')
        BY Zenon, <1>2, <1>3, <1>4, <1>8, <2>1, <3>1 DEF EntryOK
      <3>3. QED BY Zenon, <3>1, <3>2
    <2>2. CASE ~m.timer
      <3>1. n = m
        BY Zenon, <2>2
      <3>2. EntryOK(m, TRUE, "idle", latest, packet')
        BY Zenon, <1>8 DEF EntryOK
      <3>3. QED BY Zenon, <3>1, <3>2
    <2>3. QED BY Zenon, <1>1, <2>1, <2>2
  <1> HIDE DEF n, k
  <1>10. NeighbourTypes'
    <2>1. packet' \in [Packets -> PacketRecord] /\ entry' \in [Entries -> EntryRecord]
      BY <1>5, <1>6, <1>7
    <2>2. QED BY Zenon, <1>7, <2>1 DEF NeighbourTypes
  <1>11. \A f \in Entries : At(f) = "idle" /\ At(f)' = "idle"
    <2>1. \A f \in Entries : At(f) = "idle"
      BY Zenon, NothingAt
    <2>2. QED BY Zenon, <2>1 DEF At
  <1>12. BusyOK'
    BY DEF BusyOK, Idle
  <1>13. \A f \in Entries, q \in Packets : f # e /\ In(entry[f].queue, q) =>
           packet'[q] = packet[q]
    BY Zenon, <1>8, PacketFacts
  <1>14. ASSUME NEW q \in Packets, packet'[q].status = "deferred"
         PROVE  \/ In(n.queue, q)
                \/ \E f \in Entries : f # e /\ In(entry[f].queue, q)
    BY Zenon, <1>6, <1>8, <1>14, PacketFacts
  <1>15. EntryOK(n, In(neighbours', e), At(e)', latest', packet')
    BY Zenon, <1>9, <1>11 DEF EntryOK, One
  <1>16. \A f \in Entries : f # e =>
           /\ In(neighbours', f) <=> In(neighbours, f)
           /\ At(f)' = At(f)
           /\ In(neighbours, f) /\ ~entry[f].timer =>
                latest'[entry[f].addr] = latest[entry[f].addr]
           /\ \A q \in Packets : In(entry[f].queue, q) => packet'[q] = packet[q]
           /\ In(neighbours, f) /\ In(neighbours', e) => entry[f].addr # n.addr
    BY Zenon, <1>6, <1>11, <1>13
  <1>17. QED BY Zenon, <1>5, <1>10, <1>12, <1>14, <1>15, <1>16, EntryStep

(* What the handlers write into an entry, and what it has then. *)
SetTimer(m, b, k) == [m EXCEPT !.timer = b, !.refs = k]
SetAddress(m, l, k) == [m EXCEPT !.ll = l, !.refs = k]
SetKey(m, a) == [m EXCEPT !.addr = a]
SetRefs(m, k) == [m EXCEPT !.refs = k]
SetQueue(m, q, k) == [m EXCEPT !.queue = q, !.refs = k]
SetExpiries(m, x, k) == [m EXCEPT !.expiries = x, !.refs = k]

HasFields(n, addr, ll, running, queue, refs) ==
    /\ n \in EntryRecord /\ n.addr = addr /\ n.ll = ll
    /\ n.timer = running /\ n.queue = queue /\ n.refs = refs

LEMMA SetTimerFields ==
    ASSUME NEW m \in EntryRecord, NEW b \in BOOLEAN, NEW k \in Int
    PROVE  HasFields(SetTimer(m, b, k), m.addr, m.ll, b, m.queue, k)
  BY Zenon DEF EntryRecord, HasFields, SetTimer

LEMMA SetAddressFields ==
    ASSUME NEW m \in EntryRecord, NEW l \in Lls, NEW k \in Int
    PROVE  HasFields(SetAddress(m, l, k), m.addr, l, m.timer, m.queue, k)
  BY Zenon DEF EntryRecord, HasFields, SetAddress

LEMMA SetKeyFields ==
    ASSUME NEW m \in EntryRecord, NEW a \in Addrs
    PROVE  HasFields(SetKey(m, a), a, m.ll, m.timer, m.queue, m.refs)
  BY DEF EntryRecord, HasFields, SetKey

LEMMA SetRefsFields ==
    ASSUME NEW m \in EntryRecord, NEW k \in Int
    PROVE  HasFields(SetRefs(m, k), m.addr, m.ll, m.timer, m.queue, k)
  BY DEF EntryRecord, HasFields, SetRefs

LEMMA SetQueueFields ==
    ASSUME NEW m \in EntryRecord, NEW q \in Seq(Packets), NEW k \in Int
    PROVE  HasFields(SetQueue(m, q, k), m.addr, m.ll, m.timer, q, k)
  BY Zenon DEF EntryRecord, HasFields, SetQueue

LEMMA SetExpiriesFields ==
    ASSUME NEW m \in EntryRecord, NEW x \in Nat, NEW k \in Int
    PROVE  HasFields(SetExpiries(m, x, k), m.addr, m.ll, m.timer, m.queue, k)
  BY Zenon DEF EntryRecord, HasFields, SetExpiries

(* stop_timer drops the timer's reference, if it was running. *)
LEMMA TimerStopped ==
    ASSUME NEW m \in EntryRecord
    PROVE  /\ stop_timer(m) \in EntryRecord /\ stop_timer(m).timer = FALSE
           /\ stop_timer(m).refs = m.refs - One(m.timer)
           /\ stop_timer(m).addr = m.addr /\ stop_timer(m).ll = m.ll
           /\ stop_timer(m).queue = m.queue
  <1> DEFINE k == IF m.timer THEN m.refs - 1 ELSE m.refs
  <1>1. m.refs \in Int
    BY DEF EntryRecord
  <1>2. k \in Int /\ k = m.refs - One(m.timer)
    <2>1. CASE m.timer
      BY <1>1, <2>1 DEF One
    <2>2. CASE ~m.timer
      BY <1>1, <2>2 DEF One
    <2>3. QED BY <2>1, <2>2
  <1>3. stop_timer(m) = [m EXCEPT !.timer = FALSE, !.refs = k]
    BY Zenon DEF stop_timer
  <1> HIDE DEF k
  <1> DEFINE n == stop_timer(m)
  <1>4. n = SetTimer(m, FALSE, k)
    BY Zenon, <1>3 DEF SetTimer
  <1> HIDE DEF n
  <1>5. /\ n \in EntryRecord /\ n.addr = m.addr /\ n.ll = m.ll
        /\ n.timer = FALSE /\ n.queue = m.queue /\ n.refs = k
    <2>1. FALSE \in BOOLEAN
      OBVIOUS
    <2>2. HasFields(SetTimer(m, FALSE, k), m.addr, m.ll, FALSE, m.queue, k)
      BY Zenon, <2>1, <1>2, SetTimerFields
    <2>3. QED BY Zenon, <1>4, <2>2 DEF HasFields
  <1>6. QED BY Zenon, <1>2, <1>5 DEF n

(* neighbour_discovered, once the entry is found or created: m is what it  *)
(* is then, and a its address.                                             *)
LEMMA DiscoveredKeeps ==
    ASSUME NeighbourAssumption, NeighbourInv,
           NEW a \in Addrs, NEW ll \in Lls, NEW e \in Entries, NEW m,
           busy = Idle, packet' = packet,
           latest' = [latest EXCEPT ![a] = ll],
           neighbours' \in Seq(Entries), Distinct(neighbours'),
           In(neighbours', e),
           \A f \in Entries : f # e =>
             /\ In(neighbours', f) <=> In(neighbours, f)
             /\ In(neighbours, f) => entry[f].addr # a,
           m \in EntryRecord, m.addr = a, m.refs = 1 + One(m.timer),
           Distinct(m.queue),
           \A q \in Packets : In(m.queue, q) =>
             packet[q].status = "deferred" /\ packet[q].addr = a,
           \A q \in Packets : In(entry[e].queue, q) => In(m.queue, q),
           neighbour_discovered(e, m, ll)
    PROVE  NeighbourInv'
  <1> DEFINE n == [stop_timer(m) EXCEPT !.ll = ll, !.refs = @ + 1]
  <1>1. /\ n \in EntryRecord /\ n.addr = a /\ n.ll = ll /\ ~n.timer
        /\ n.queue = m.queue /\ n.refs = 2
    <2> DEFINE t == stop_timer(m)
    <2>1. /\ t \in EntryRecord /\ t.timer = FALSE /\ t.refs = m.refs - One(m.timer)
          /\ t.addr = a /\ t.queue = m.queue
      BY Zenon, TimerStopped
    <2>2. m.timer \in BOOLEAN
      BY DEF EntryRecord
    <2>3. t.refs = 1
      BY <2>1, <2>2 DEF One
    <2> HIDE DEF t
    <2>4. n = SetAddress(t, ll, 2)
      BY <2>3 DEF t, SetAddress
    <2> HIDE DEF n
    <2>5. /\ n \in EntryRecord /\ n.addr = t.addr /\ n.ll = ll
          /\ n.timer = t.timer /\ n.queue = t.queue /\ n.refs = 2
      <3>1. 2 \in Int
        OBVIOUS
      <3>2. HasFields(SetAddress(t, ll, 2), t.addr, ll, t.timer, t.queue, 2)
        BY Zenon, <2>1, <3>1, SetAddressFields
      <3>3. QED BY Zenon, <2>4, <3>2 DEF HasFields
    <2>6. QED BY Zenon, <2>1, <2>5
  <1>2. entry' = [entry EXCEPT ![e] = n]
    BY Zenon DEF neighbour_discovered
  <1> HIDE DEF n
  <1>3. busy'.act = "transmit" /\ busy'.e = e /\ busy'.ll = ll
    BY DEF neighbour_discovered
  <1>4. /\ packet \in [Packets -> PacketRecord]
        /\ entry \in [Entries -> EntryRecord]
        /\ latest \in [Addrs -> Lls \cup {"none"}]
    BY Zenon DEF NeighbourInv, NeighbourTypes
  <1>5. /\ entry' \in [Entries -> EntryRecord] /\ entry'[e] = n
        /\ latest' \in [Addrs -> Lls \cup {"none"}] /\ latest'[a] = ll
        /\ \A b \in Addrs : b # a => latest'[b] = latest[b]
    BY <1>1, <1>2, <1>4
  <1>6. NeighbourTypes'
    BY Zenon, <1>4, <1>5 DEF NeighbourTypes
  <1>7. BusyOK'
    BY Zenon, <1>1, <1>3, <1>5 DEF BusyOK
  <1>8. /\ At(e)' = "transmit"
        /\ \A f \in Entries : f # e => At(f)' = At(f)
    <2>1. \A f \in Entries : At(f) = "idle"
      BY Zenon, NothingAt
    <2>2. QED BY Zenon, <1>3, <2>1 DEF At
  <1>9. EntryOK(n, In(neighbours', e), At(e)', latest', packet')
    <2>1. n.refs = One(TRUE) + One(FALSE) + One(TRUE)
      BY <1>1 DEF One
    <2>2. n.refs = One(In(neighbours', e)) + One(n.timer) + One("transmit" # "idle")
      BY Zenon, <1>1, <2>1 DEF One
    <2>3. EntryOK(n, In(neighbours', e), "transmit", latest', packet')
      BY Zenon, <1>1, <1>5, <2>2 DEF EntryOK
    <2>4. QED BY Zenon, <1>8, <2>3
  <1>10. \A f \in Entries : In(neighbours, f) => entry[f].addr \in Addrs
    BY Zenon, EntryFacts DEF EntryOK
  <1>11. \A f \in Entries : f # e =>
           /\ In(neighbours', f) <=> In(neighbours, f)
           /\ At(f)' = At(f)
           /\ In(neighbours, f) /\ ~entry[f].timer =>
                latest'[entry[f].addr] = latest[entry[f].addr]
           /\ \A q \in Packets : In(entry[f].queue, q) => packet'[q] = packet[q]
           /\ In(neighbours, f) /\ In(neighbours', e) => entry[f].addr # n.addr
    BY Zenon, <1>1, <1>5, <1>8, <1>10
  <1>12. \A q \in Packets : packet'[q].status = "deferred" =>
           \/ In(n.queue, q)
           \/ \E f \in Entries : f # e /\ In(entry[f].queue, q)
    BY Zenon, <1>1, PacketFacts
  <1>13. QED BY Zenon, <1>2, <1>6, <1>7, <1>9, <1>11, <1>12, EntryStep

(* neighbour_destroy of a cached entry, whatever is at work on it. *)
LEMMA DestroyKeeps ==
    ASSUME NeighbourInv, NEW e \in Entries, In(neighbours, e),
           neighbour_destroy(e), busy' = busy, latest' = latest
    PROVE  NeighbourInv'
  <1> DEFINE n == Destroyed(entry[e])
  <1>1. /\ EntryOK(entry[e], In(neighbours, e), At(e), latest, packet)
        /\ entry[e] \in EntryRecord
    BY Zenon, EntryFacts
  <1>2. /\ n \in EntryRecord /\ ~n.timer /\ n.queue = <<>>
        /\ n.refs = entry[e].refs - 1 - One(entry[e].timer)
    <2> DEFINE t == stop_timer(entry[e])
    <2>1. /\ t \in EntryRecord /\ t.timer = FALSE
          /\ t.refs = entry[e].refs - One(entry[e].timer)
      BY Zenon, <1>1, TimerStopped
    <2>2. One(entry[e].timer) \in Nat /\ entry[e].refs \in Int
      BY <1>1 DEF One, EntryRecord
    <2> HIDE DEF t
    <2>3. n = SetQueue(t, <<>>, t.refs - 1)
      BY Zenon DEF t, Destroyed, SetQueue
    <2> HIDE DEF n
    <2>4. t.refs - 1 \in Int /\ <<>> \in Seq(Packets)
      BY <2>1, <2>2
    <2>5. /\ n \in EntryRecord /\ n.timer = t.timer /\ n.queue = <<>>
          /\ n.refs = t.refs - 1
      <3>1. HasFields(SetQueue(t, <<>>, t.refs - 1),
                      t.addr, t.ll, t.timer, <<>>, t.refs - 1)
        BY Zenon, <2>1, <2>4, SetQueueFields
      <3>2. QED BY Zenon, <2>3, <3>1 DEF HasFields
    <2>6. QED BY <2>1, <2>2, <2>5
  <1>3. entry' = [entry EXCEPT ![e] = n]
    BY DEF neighbour_destroy
  <1> HIDE DEF n
  <1>4. /\ neighbours \in Seq(Entries) /\ Distinct(neighbours)
        /\ packet \in [Packets -> PacketRecord]
        /\ entry \in [Entries -> EntryRecord]
        /\ latest \in [Addrs -> Lls \cup {"none"}]
    BY Zenon DEF NeighbourInv, NeighbourTypes
  <1>5. /\ neighbours' \in Seq(Entries) /\ Distinct(neighbours')
        /\ \A u : In(neighbours', u) <=> In(neighbours, u) /\ u # e
    <2>1. neighbours' = Without(e)
      BY Zenon DEF neighbour_destroy
    <2>2. QED BY Zenon, <1>4, <2>1, EntryDelisted
  <1>6. \A p \in Packets : packet'[p] =
          IF In(entry[e].queue, p) THEN [packet[p] EXCEPT !.status = "error"]
          ELSE packet[p]
    BY NeighbourTerms DEF neighbour_destroy
  <1>7. \A p \in Packets : In(entry[e].queue, p) => packet'[p].status = "error"
    BY Zenon, <1>4, <1>6 DEF PacketRecord
  <1>8. packet' \in [Packets -> PacketRecord]
    BY SMTT(30), <1>4, NeighbourTerms DEF neighbour_destroy, PacketRecord
  <1>9. NeighbourTypes'
    <2>1. entry' \in [Entries -> EntryRecord]
      BY <1>2, <1>3, <1>4
    <2>2. QED BY Zenon, <1>4, <1>5, <1>8, <2>1 DEF NeighbourTypes
  <1>10. entry'[e] = n /\ \A f \in Entries : f # e => entry'[f] = entry[f]
    BY <1>3, <1>4
  <1>11. BusyOK'
    BY Zenon, <1>2, <1>5, <1>10 DEF BusyOK, NeighbourInv
  <1>12. EntryOK(n, In(neighbours', e), At(e)', latest', packet')
    <2>1. n.refs = One(In(neighbours', e)) + One(n.timer) + One(At(e) # "idle")
      <3>1. entry[e].refs = One(TRUE) + One(entry[e].timer) + One(At(e) # "idle")
        BY Zenon, <1>1 DEF EntryOK, One
      <3>2. /\ One(In(neighbours', e)) = 0 /\ One(n.timer) = 0
        BY Zenon, <1>2, <1>5 DEF One
      <3>3. QED BY <1>2, <3>1, <3>2 DEF One
    <2>2. At(e)' = At(e) /\ ~In(neighbours', e)
      BY Zenon, <1>5 DEF At
    <2>3. \A p : ~In(<<>>, p)
      BY DEF In
    <2>4. Distinct(<<>>)
      BY DEF Distinct
    <2>5. QED BY Zenon, <1>2, <2>1, <2>2, <2>3, <2>4 DEF EntryOK
  <1>13. \A f \in Entries : f # e =>
           /\ In(neighbours', f) <=> In(neighbours, f)
           /\ At(f)' = At(f)
           /\ In(neighbours, f) /\ ~entry[f].timer =>
                latest'[entry[f].addr] = latest[entry[f].addr]
           /\ \A q \in Packets : In(entry[f].queue, q) => packet'[q] = packet[q]
           /\ In(neighbours, f) /\ In(neighbours', e) => entry[f].addr # n.addr
    <2>1. \A f \in Entries, q \in Packets :
            f # e /\ In(entry[f].queue, q) => ~In(entry[e].queue, q)
      BY Zenon, EntryFacts
    <2>2. \A f \in Entries : At(f)' = At(f)
      BY Zenon DEF At
    <2>3. QED BY Zenon, <1>5, <1>6, <2>1, <2>2
  <1>14. ASSUME NEW q \in Packets, packet'[q].status = "deferred"
         PROVE  \E f \in Entries : f # e /\ In(entry[f].queue, q)
    <2>1. ~In(entry[e].queue, q)
      BY Zenon, <1>7, <1>14
    <2>2. packet[q].status = "deferred"
      BY Zenon, <1>6, <1>14, <2>1
    <2>3. QED BY Zenon, <2>1, <2>2, PacketFacts
  <1>15. QED BY Zenon, <1>3, <1>9, <1>11, <1>12, <1>13, <1>14, EntryStep

(* The end of the loop or of the request: the temporary reference goes. *)
LEMMA EndKeeps ==
    ASSUME NeighbourAssumption, NeighbourInv,
           transmit_end \/ request_end
    PROVE  NeighbourInv'
  <1>1. /\ busy.act # "idle" /\ (busy.act = "transmit" => entry[busy.e].queue = <<>>)
        /\ busy' = Idle /\ neighbours' = neighbours /\ packet' = packet
        /\ latest' = latest /\ entry' = [entry EXCEPT ![busy.e].refs = @ - 1]
    BY DEF transmit_end, request_end
  <1>2. busy.e \in Entries
    BY Zenon, <1>1 DEF NeighbourInv, BusyOK
  <1> PICK e \in Entries : e = busy.e
    BY Zenon, <1>2
  <1> DEFINE m == entry[e]
             n == SetQueue(m, m.queue, m.refs - 1)
  <1>3. At(e) = busy.act /\ \A f \in Entries : f # e => At(f) = "idle"
    BY Zenon DEF At
  <1>4. \A f \in Entries : At(f)' = "idle"
    <2>1. busy'.e = "none"
      BY <1>1 DEF Idle
    <2>2. QED BY Zenon, <2>1 DEF At, NeighbourAssumption
  <1>5. /\ EntryOK(m, In(neighbours, e), At(e), latest, packet)
        /\ m \in EntryRecord
    BY Zenon, <1>2, EntryFacts
  <1>6. /\ entry \in [Entries -> EntryRecord] /\ NeighbourTypes
    BY Zenon DEF NeighbourInv, NeighbourTypes
  <1>7. entry' = [entry EXCEPT ![e] = n]
    <2>1. m = [m EXCEPT !.queue = m.queue]
      BY <1>5 DEF EntryRecord
    <2>2. n = [m EXCEPT !.refs = m.refs - 1]
      BY Zenon, <2>1 DEF SetQueue
    <2> HIDE DEF n
    <2>3. QED BY <1>1, <2>2
  <1> HIDE DEF n, m
  <1>8. HasFields(n, m.addr, m.ll, m.timer, m.queue, m.refs - 1)
    <2>1. m.queue \in Seq(Packets) /\ m.refs - 1 \in Int
      BY <1>5 DEF EntryRecord
    <2>2. QED BY Zenon, <1>5, <2>1, SetQueueFields DEF n
  <1>9. BusyOK'
    BY <1>1 DEF BusyOK, Idle
  <1>10. EntryOK(n, In(neighbours', e), At(e)', latest', packet')
    <2>1. m.refs = One(In(neighbours, e)) + One(m.timer) + One(TRUE)
      BY Zenon, <1>1, <1>3, <1>5 DEF EntryOK, One
    <2>2. One(In(neighbours, e)) \in Nat /\ One(m.timer) \in Nat
      BY DEF One
    <2>3. m.refs - 1 = One(In(neighbours, e)) + One(m.timer) + One(FALSE)
      BY <2>1, <2>2 DEF One
    <2>4. n.refs = One(In(neighbours', e)) + One(n.timer) + One(At(e)' # "idle")
      <3>1. n.refs = m.refs - 1 /\ n.timer = m.timer /\ At(e)' = "idle"
        BY Zenon, <1>2, <1>4, <1>8 DEF HasFields
      <3>2. One(At(e)' # "idle") = One(FALSE)
        BY <3>1 DEF One
      <3>3. QED BY Zenon, <1>1, <2>3, <3>1, <3>2
    <2>5. m.queue # <<>> => m.timer
      BY Zenon, <1>1, <1>3, <1>5 DEF EntryOK, m
    <2>6. QED BY Zenon, <1>1, <1>5, <1>8, <2>4, <2>5 DEF EntryOK, HasFields
  <1>11. QED
    <2>1. NeighbourTypes'
      <3>1. entry' \in [Entries -> EntryRecord]
        BY <1>6, <1>7, <1>8 DEF HasFields
      <3>2. QED BY Zenon, <1>1, <1>6, <3>1 DEF NeighbourTypes
    <2>2. \A f \in Entries : f # e =>
            /\ In(neighbours', f) <=> In(neighbours, f)
            /\ At(f)' = At(f)
            /\ In(neighbours, f) /\ ~entry[f].timer =>
                 latest'[entry[f].addr] = latest[entry[f].addr]
            /\ \A q \in Packets : In(entry[f].queue, q) => packet'[q] = packet[q]
            /\ In(neighbours, f) /\ In(neighbours', e) => entry[f].addr # n.addr
      <3>1. \A f \in Entries : f # e /\ In(neighbours, f) /\ In(neighbours, e) =>
              entry[f].addr # m.addr
        BY Zenon DEF NeighbourInv, m
      <3>2. n.addr = m.addr
        BY Zenon, <1>8 DEF HasFields
      <3>3. \A f \in Entries : f # e => At(f)' = At(f)
        BY Zenon, <1>3, <1>4
      <3>4. QED BY Zenon, <1>1, <3>1, <3>2, <3>3
    <2>3. \A q \in Packets : packet'[q].status = "deferred" =>
            \/ In(n.queue, q)
            \/ \E f \in Entries : f # e /\ In(entry[f].queue, q)
      BY Zenon, <1>1, <1>8, PacketFacts DEF HasFields, m
    <2>4. QED BY Zenon, <1>7, <1>9, <1>10, <2>1, <2>2, <2>3, EntryStep

(* One iteration of the loop over the queue of the entry that busy names. *)
LEMMA DeferredKeeps ==
    ASSUME NeighbourInv, transmit_deferred
    PROVE  /\ NeighbourInv'
           /\ \A p \in Packets : packet'[p].status = "sent" =>
                \/ packet[p].status = "sent"
                \/ packet'[p].ll \in Lls /\ packet'[p].ll = latest[packet'[p].addr]
  <1>1. /\ busy.act = "transmit" /\ entry[busy.e].queue # <<>>
        /\ busy' = busy /\ neighbours' = neighbours /\ latest' = latest
        /\ packet' = [packet EXCEPT ![Head(entry[busy.e].queue)] =
                        [@ EXCEPT !.status = "sent", !.ll = busy.ll]]
        /\ entry' = [entry EXCEPT ![busy.e].queue = Tail(@)]
    BY DEF transmit_deferred
  <1>2. busy.e \in Entries
    BY Zenon, <1>1 DEF NeighbourInv, BusyOK
  <1> PICK e \in Entries : e = busy.e
    BY Zenon, <1>2
  <1> DEFINE m == entry[e]
             h == Head(m.queue)
             r == Tail(m.queue)
             n == SetQueue(m, r, m.refs)
             k == [packet[h] EXCEPT !.status = "sent", !.ll = busy.ll]
  <1>3. /\ EntryOK(m, In(neighbours, e), "transmit", latest, packet)
        /\ m \in EntryRecord
    <2>1. At(e) = "transmit"
      BY Zenon, <1>1 DEF At
    <2>2. QED BY Zenon, <2>1, EntryFacts
  <1>4. m.queue \in Seq(Packets) /\ m.refs \in Int /\ m.timer \in BOOLEAN
    BY <1>3 DEF EntryRecord
  <1>5. /\ entry \in [Entries -> EntryRecord] /\ packet \in [Packets -> PacketRecord]
        /\ NeighbourTypes
    BY Zenon DEF NeighbourInv, NeighbourTypes
  <1>6. /\ h \in Packets /\ In(m.queue, h)
        /\ r \in Seq(Packets) /\ Distinct(r)
        /\ \A u : In(r, u) <=> In(m.queue, u) /\ u # h
    <2>1. m.queue # <<>> /\ Distinct(m.queue)
      BY Zenon, <1>1, <1>3 DEF EntryOK
    <2>2. QED BY Zenon, <1>4, <2>1, Advanced
  <1>7. /\ In(neighbours, e) /\ ~m.timer /\ m.addr \in Addrs
        /\ busy.ll = m.ll /\ m.ll \in Lls /\ m.ll = latest[m.addr]
        /\ packet[h].addr = m.addr
    <2>1. In(neighbours, e)
      BY Zenon, <1>1, <1>3 DEF EntryOK
    <2>2. ~m.timer /\ busy.ll = m.ll
      BY Zenon, <1>1, <2>1 DEF NeighbourInv, BusyOK
    <2>3. QED BY Zenon, <1>3, <1>6, <2>1, <2>2 DEF EntryOK
  <1>8. entry' = [entry EXCEPT ![e] = n] /\ packet' = [packet EXCEPT ![h] = k]
    <2>1. [m EXCEPT !.queue = r] = SetQueue(m, r, m.refs)
      BY Zenon, <1>3, <1>4, <1>6 DEF EntryRecord, SetQueue
    <2>2. QED BY Zenon, <1>1, <2>1
  <1>9. /\ k \in PacketRecord /\ k.status = "sent" /\ k.addr = m.addr
        /\ k.ll = m.ll
    <2>1. packet[h] \in PacketRecord
      BY <1>5, <1>6
    <2> HIDE DEF m, h
    <2>2. QED BY Zenon, <1>7, <2>1 DEF PacketRecord
  <1> HIDE DEF m, h, r, n, k
  <1>10. HasFields(n, m.addr, m.ll, m.timer, r, m.refs)
    BY Zenon, <1>3, <1>4, <1>6, SetQueueFields DEF n
  <1>11. packet'[h] = k /\ \A q \in Packets : q # h => packet'[q] = packet[q]
    BY <1>5, <1>6, <1>8
  <1>12. EntryOK(n, In(neighbours, e), "transmit", latest, packet')
    <2>1. \A q \in Packets : In(n.queue, q) =>
            packet'[q].status = "deferred" /\ packet'[q].addr = n.addr
      <3>1. n.queue = r /\ n.addr = m.addr
        BY Zenon, <1>10 DEF HasFields
      <3>2. \A q \in Packets : In(m.queue, q) =>
              packet[q].status = "deferred" /\ packet[q].addr = m.addr
        BY Zenon, <1>3 DEF EntryOK
      <3>3. QED BY Zenon, <1>6, <1>11, <3>1, <3>2
    <2>2. Distinct(n.queue)
      BY Zenon, <1>6, <1>10 DEF HasFields
    <2>3. QED BY Zenon, <1>3, <1>7, <1>10, <2>1, <2>2 DEF EntryOK, HasFields
  <1>13. NeighbourTypes'
    <2>1. entry' \in [Entries -> EntryRecord] /\ packet' \in [Packets -> PacketRecord]
      BY Zenon, <1>5, <1>8, <1>9, <1>10 DEF HasFields
    <2>2. QED BY Zenon, <1>1, <1>5, <2>1 DEF NeighbourTypes
  <1>14. entry'[e] = n
    BY <1>5, <1>8
  <1>15. BusyOK'
    <2>1. ~n.timer /\ n.ll = busy.ll
      BY Zenon, <1>7, <1>10 DEF HasFields
    <2>2. BusyOK
      BY Zenon DEF NeighbourInv
    <2>3. QED BY Zenon, <1>1, <1>14, <2>1, <2>2 DEF BusyOK
  <1>16. At(e)' = "transmit" /\ \A f \in Entries : At(f)' = At(f)
    BY Zenon, <1>1 DEF At
  <1>17. EntryOK(n, In(neighbours', e), At(e)', latest', packet')
    BY Zenon, <1>1, <1>12, <1>16
  <1>18. \A f \in Entries : f # e =>
           /\ In(neighbours', f) <=> In(neighbours, f)
           /\ At(f)' = At(f)
           /\ In(neighbours, f) /\ ~entry[f].timer =>
                latest'[entry[f].addr] = latest[entry[f].addr]
           /\ \A q \in Packets : In(entry[f].queue, q) => packet'[q] = packet[q]
           /\ In(neighbours, f) /\ In(neighbours', e) => entry[f].addr # n.addr
    <2>1. \A f \in Entries, q \in Packets : f # e /\ In(entry[f].queue, q) => q # h
      <3>1. In(entry[e].queue, h)
        BY Zenon, <1>6 DEF m
      <3>2. ASSUME NEW f \in Entries, In(entry[f].queue, h) PROVE f = e
        BY Zenon, <1>6, <3>1, <3>2, EntryFacts
      <3>3. QED BY Zenon, <3>2
    <2>2. \A f \in Entries : f # e /\ In(neighbours, f) /\ In(neighbours, e) =>
            entry[f].addr # m.addr
      BY Zenon DEF NeighbourInv, m
    <2>3. n.addr = m.addr
      BY Zenon, <1>10 DEF HasFields
    <2>4. QED BY Zenon, <1>1, <1>11, <1>16, <2>1, <2>2, <2>3
  <1>19. \A q \in Packets : packet'[q].status = "deferred" =>
           \/ In(n.queue, q)
           \/ \E f \in Entries : f # e /\ In(entry[f].queue, q)
    <2> SUFFICES ASSUME NEW q \in Packets, packet'[q].status = "deferred"
                 PROVE  \/ In(n.queue, q)
                        \/ \E f \in Entries : f # e /\ In(entry[f].queue, q)
      OBVIOUS
    <2>1. q # h
      BY <1>9, <1>11
    <2>2. PICK f \in Entries : In(entry[f].queue, q)
      BY Zenon, <1>11, <2>1, PacketFacts
    <2>3. f = e => In(n.queue, q)
      BY Zenon, <1>6, <1>10, <2>1, <2>2 DEF HasFields, m
    <2>4. QED BY Zenon, <2>2, <2>3
  <1>20. NeighbourInv'
    BY Zenon, <1>8, <1>13, <1>15, <1>17, <1>18, <1>19, EntryStep
  <1>21. QED BY Zenon, <1>7, <1>9, <1>11, <1>20

(* neighbour_expired while retries are left: the timer runs on, and the    *)
(* reference of retry.c is held while the request is being sent.           *)
LEMMA RequestKeeps ==
    ASSUME NeighbourAssumption, NeighbourInv, NEW e \in Entries,
           neighbour_expired(e, FALSE)
    PROVE  NeighbourInv' /\ packet' = packet
  <1> DEFINE m == entry[e]
             n == SetExpiries(m, m.expiries + 1, m.refs + 1)
  <1>1. /\ busy = Idle /\ m.timer
        /\ busy' = [act |-> "request", e |-> e, ll |-> "none"]
        /\ neighbours' = neighbours /\ packet' = packet /\ latest' = latest
        /\ entry' = [entry EXCEPT ![e].expiries = @ + 1, ![e].refs = @ + 1]
    BY DEF neighbour_expired
  <1>2. /\ \A f \in Entries : At(f) = "idle"
        /\ EntryOK(m, In(neighbours, e), "idle", latest, packet)
        /\ m \in EntryRecord
    BY Zenon, <1>1, NothingAt, EntryFacts
  <1>3. m.expiries + 1 \in Nat /\ m.refs + 1 \in Int /\ m.refs \in Int
    BY <1>2 DEF EntryRecord
  <1>4. entry \in [Entries -> EntryRecord] /\ NeighbourTypes
    BY Zenon DEF NeighbourInv, NeighbourTypes
  <1>5. entry' = [entry EXCEPT ![e] = n]
    BY <1>1, <1>2, <1>4 DEF SetExpiries, EntryRecord
  <1> HIDE DEF n, m
  <1>6. HasFields(n, m.addr, m.ll, m.timer, m.queue, m.refs + 1)
    BY Zenon, <1>2, <1>3, SetExpiriesFields DEF n
  <1>7. busy'.act = "request" /\ busy'.e = e
    BY <1>1
  <1>8. At(e)' = "request" /\ \A f \in Entries : f # e => At(f)' = At(f)
    BY Zenon, <1>2, <1>7 DEF At
  <1>9. BusyOK'
    BY Zenon, <1>7 DEF BusyOK
  <1>10. EntryOK(n, In(neighbours', e), At(e)', latest', packet')
    <2>1. m.refs = One(In(neighbours, e)) + One(m.timer) + One(FALSE)
      BY Zenon, <1>2 DEF EntryOK, One
    <2>2. One(In(neighbours, e)) \in Nat /\ One(m.timer) \in Nat
      BY DEF One
    <2>3. m.refs + 1 = One(In(neighbours, e)) + One(m.timer) + One(TRUE)
      BY <2>1, <2>2 DEF One
    <2>4. n.refs = One(In(neighbours, e)) + One(n.timer) + One("request" # "idle")
      BY Zenon, <1>6, <2>3 DEF One, HasFields
    <2>5. EntryOK(n, In(neighbours, e), "request", latest, packet)
      BY Zenon, <1>1, <1>2, <1>6, <2>4 DEF EntryOK, HasFields
    <2>6. QED BY Zenon, <1>1, <1>8, <2>5
  <1>11. NeighbourTypes'
    <2>1. entry' \in [Entries -> EntryRecord]
      BY <1>4, <1>5, <1>6 DEF HasFields
    <2>2. QED BY Zenon, <1>1, <1>4, <2>1 DEF NeighbourTypes
  <1>12. \A f \in Entries : f # e =>
           /\ In(neighbours', f) <=> In(neighbours, f)
           /\ At(f)' = At(f)
           /\ In(neighbours, f) /\ ~entry[f].timer =>
                latest'[entry[f].addr] = latest[entry[f].addr]
           /\ \A q \in Packets : In(entry[f].queue, q) => packet'[q] = packet[q]
           /\ In(neighbours, f) /\ In(neighbours', e) => entry[f].addr # n.addr
    <2>1. \A f \in Entries : f # e /\ In(neighbours, f) /\ In(neighbours, e) =>
            entry[f].addr # m.addr
      BY Zenon DEF NeighbourInv, m
    <2>2. n.addr = m.addr
      BY Zenon, <1>6 DEF HasFields
    <2>3. QED BY Zenon, <1>1, <1>8, <2>1, <2>2
  <1>13. \A q \in Packets : packet'[q].status = "deferred" =>
           \/ In(n.queue, q)
           \/ \E f \in Entries : f # e /\ In(entry[f].queue, q)
    <2>1. n.queue = m.queue
      BY Zenon, <1>6 DEF HasFields
    <2>2. QED BY Zenon, <1>1, <2>1, PacketFacts DEF m
  <1>14. QED
    BY Zenon, <1>1, <1>5, <1>9, <1>10, <1>11, <1>12, <1>13, EntryStep

(* What a step may send, and where to *)
SentToLatest ==
    \A p \in Packets : packet'[p].status = "sent" =>
      \/ packet[p].status = "sent"
      \/ packet'[p].ll \in Lls /\ packet'[p].ll = latest[packet'[p].addr]

(* neighbour_tx sends at once only to an entry whose timer is not running. *)
LEMMA TransmitSends ==
    ASSUME NeighbourInv, NEW p \in Packets, NEW a \in Addrs, NEW e, NEW m,
           EntryOK(m, TRUE, "idle", latest, packet), m.addr = a,
           Transmit(p, a, e, m)
    PROVE  SentToLatest
  <1>1. packet \in [Packets -> PacketRecord]
    BY Zenon DEF NeighbourInv, NeighbourTypes
  <1>2. CASE m.timer
    <2>1. packet' = [packet EXCEPT ![p] =
                       [status |-> "deferred", addr |-> a, ll |-> "none"]]
      BY Zenon, <1>2 DEF Transmit, neighbour_has_ll_dest
    <2>2. QED BY <1>1, <2>1 DEF SentToLatest
  <1>3. CASE ~m.timer
    <2>1. packet' = [packet EXCEPT ![p] =
                       [status |-> "sent", addr |-> a, ll |-> m.ll]]
      BY Zenon, <1>3 DEF Transmit, neighbour_has_ll_dest
    <2>2. m.ll \in Lls /\ m.ll = latest[a]
      BY Zenon, <1>3 DEF EntryOK
    <2>3. QED BY <1>1, <2>1, <2>2 DEF SentToLatest
  <1>4. QED BY Zenon, <1>2, <1>3

(* The entries that neighbour_tx and neighbour_define create, in the       *)
(* memory of an entry that nothing refers to.                              *)
LEMMA CreatedEntry ==
    ASSUME NeighbourAssumption, NeighbourInv, NEW a \in Addrs,
           NEW e \in Entries, entry[e].refs = 0,
           \A f \in Cached : entry[f].addr # a,
           neighbours' = <<e>> \o neighbours
    PROVE  /\ EntryOK(neighbour_discover(a), TRUE, "idle", latest, packet)
           /\ HasFields(neighbour_discover(a), a, "none", TRUE, <<>>, 2)
           /\ HasFields(neighbour_create(a), a, "none", FALSE, <<>>, 1)
           /\ neighbours' \in Seq(Entries) /\ Distinct(neighbours')
           /\ In(neighbours', e) /\ \A q \in Packets : ~In(entry[e].queue, q)
           /\ \A f \in Entries : f # e =>
                /\ In(neighbours', f) <=> In(neighbours, f)
                /\ In(neighbours, f) => entry[f].addr # a
           /\ \A q : ~In(<<>>, q)
           /\ Distinct(<<>>)
  <1>1. \A q : ~In(<<>>, q)
    BY DEF In
  <1>2. Distinct(<<>>)
    BY DEF Distinct
  <1>3. /\ HasFields(neighbour_discover(a), a, "none", TRUE, <<>>, 2)
        /\ HasFields(neighbour_create(a), a, "none", FALSE, <<>>, 1)
    <2>1. HasFields(Unused, "none", "none", FALSE, <<>>, 0)
      BY DEF Unused, HasFields, EntryRecord
    <2> DEFINE m == SetKey(Unused, a)
    <2>2. /\ neighbour_discover(a) = SetTimer(m, TRUE, 2)
          /\ neighbour_create(a) = SetRefs(m, 1)
      BY Zenon DEF neighbour_discover, neighbour_create, SetKey, SetTimer, SetRefs
    <2>3. /\ m \in EntryRecord /\ m.addr = a /\ m.ll = "none"
          /\ m.timer = FALSE /\ m.queue = <<>>
      <3>1. HasFields(m, a, Unused.ll, Unused.timer, Unused.queue, Unused.refs)
        BY Zenon, <2>1, SetKeyFields DEF HasFields
      <3>2. QED BY Zenon, <2>1, <3>1 DEF HasFields
    <2> HIDE DEF m
    <2>4. 1 \in Int /\ 2 \in Int
      OBVIOUS
    <2>5. /\ HasFields(SetTimer(m, TRUE, 2), m.addr, m.ll, TRUE, m.queue, 2)
          /\ HasFields(SetRefs(m, 1), m.addr, m.ll, m.timer, m.queue, 1)
      BY Zenon, <2>3, <2>4, SetTimerFields, SetRefsFields
    <2>6. QED BY Zenon, <2>2, <2>3, <2>5
  <1>4. 2 = One(TRUE) + One(TRUE) + One(FALSE)
    BY DEF One
  <1>5. EntryOK(neighbour_discover(a), TRUE, "idle", latest, packet)
    <2> DEFINE n == neighbour_discover(a)
    <2> HIDE DEF n
    <2>1. /\ n \in EntryRecord /\ n.addr = a /\ n.timer = TRUE
          /\ n.queue = <<>> /\ n.refs = 2
      BY Zenon, <1>3 DEF HasFields, n
    <2>2. n.refs = One(TRUE) + One(n.timer) + One("idle" # "idle")
      BY Zenon, <1>4, <2>1 DEF One
    <2>3. EntryOK(n, TRUE, "idle", latest, packet)
      BY Zenon, <1>1, <1>2, <2>1, <2>2 DEF EntryOK
    <2>4. QED BY Zenon, <2>3 DEF n
  <1>6. EntryOK(entry[e], In(neighbours, e), At(e), latest, packet)
    BY Zenon, EntryFacts
  <1>7. ~In(neighbours, e)
    <2>1. entry[e].refs = One(In(neighbours, e)) + One(entry[e].timer) + One(At(e) # "idle")
      BY Zenon, <1>6 DEF EntryOK
    <2>2. QED BY <2>1 DEF One
  <1>8. \A q \in Packets : ~In(entry[e].queue, q)
    BY Zenon, <1>1, <1>6, <1>7 DEF EntryOK
  <1>9. /\ neighbours' \in Seq(Entries) /\ Distinct(neighbours')
        /\ \A u : In(neighbours', u) <=> In(neighbours, u) \/ u = e
    <2>1. neighbours \in Seq(Entries) /\ Distinct(neighbours)
      BY Zenon DEF NeighbourInv, NeighbourTypes
    <2>2. /\ <<e>> \o neighbours \in Seq(Entries) /\ Distinct(<<e>> \o neighbours)
          /\ \A u : In(<<e>> \o neighbours, u) <=> In(neighbours, u) \/ u = e
      BY Zenon, <1>7, <2>1, Enlisted
    <2>3. QED BY Zenon, <2>2
  <1>10. \A f : In(neighbours, f) => entry[f].addr # a
    BY Zenon, NeighbourTerms
  <1>11. QED BY Zenon, <1>1, <1>2, <1>3, <1>5, <1>8, <1>9, <1>10

(* An entry that neighbour_find finds. *)
LEMMA FoundEntry ==
    ASSUME NeighbourAssumption, NeighbourInv, NEW a \in Addrs,
           NEW e \in Cached, entry[e].addr = a, busy = Idle,
           neighbours' = ToFront(e)
    PROVE  /\ e \in Entries
           /\ EntryOK(entry[e], TRUE, "idle", latest, packet)
           /\ neighbours' \in Seq(Entries) /\ Distinct(neighbours')
           /\ In(neighbours', e)
           /\ \A f \in Entries : f # e =>
                /\ In(neighbours', f) <=> In(neighbours, f)
                /\ In(neighbours, f) => entry[f].addr # a
  <1>1. neighbours \in Seq(Entries) /\ Distinct(neighbours)
    BY Zenon DEF NeighbourInv, NeighbourTypes
  <1>2. In(neighbours, e)
    BY Zenon, NeighbourTerms
  <1>3. e \in Entries
    <2>1. PICK i \in DOMAIN neighbours : neighbours[i] = e
      BY Zenon, <1>2 DEF In
    <2>2. QED BY <1>1, <2>1, ElementOfSeq, LenProperties
  <1>4. EntryOK(entry[e], TRUE, "idle", latest, packet)
    <2>1. EntryOK(entry[e], In(neighbours, e), At(e), latest, packet)
      BY Zenon, <1>3, EntryFacts
    <2>2. At(e) = "idle"
      BY Zenon, <1>3, NothingAt
    <2>3. QED BY Zenon, <1>2, <2>1, <2>2 DEF EntryOK, One
  <1>5. /\ neighbours' \in Seq(Entries) /\ Distinct(neighbours')
        /\ \A u : In(neighbours', u) <=> In(neighbours, u)
    BY Zenon, <1>1, <1>2, <1>3, MovedToFront
  <1>6. \A f \in Entries : f # e /\ In(neighbours, f) => entry[f].addr # a
    BY Zenon, <1>2, <1>3 DEF NeighbourInv
  <1>7. QED BY Zenon, <1>2, <1>3, <1>4, <1>5, <1>6

LEMMA TxKeeps ==
    ASSUME NeighbourAssumption, NeighbourInv, NEW p \in Packets,
           NEW a \in Addrs, neighbour_tx(p, a)
    PROVE  NeighbourInv' /\ SentToLatest
  <1>1. /\ busy = Idle /\ packet[p] = New /\ busy' = busy /\ latest' = latest
    BY Zenon DEF neighbour_tx
  <1>2. ASSUME NEW e \in Cached, entry[e].addr = a,
               neighbours' = ToFront(e), Transmit(p, a, e, entry[e])
        PROVE  NeighbourInv' /\ SentToLatest
    <2> DEFINE m == entry[e]
    <2>1. /\ e \in Entries
          /\ EntryOK(m, TRUE, "idle", latest, packet)
          /\ neighbours' \in Seq(Entries) /\ Distinct(neighbours')
          /\ In(neighbours', e)
          /\ \A f \in Entries : f # e =>
               /\ In(neighbours', f) <=> In(neighbours, f)
               /\ In(neighbours, f) => entry[f].addr # a
      BY Zenon, <1>1, <1>2, FoundEntry
    <2>2. /\ ~In(m.queue, p) /\ m.addr = a /\ Transmit(p, a, e, m)
          /\ \A q \in Packets : In(entry[e].queue, q) => In(m.queue, q)
      BY Zenon, <1>1, <1>2, <2>1, PacketFacts
    <2> HIDE DEF m
    <2>3. SentToLatest
      BY Zenon, <2>1, <2>2, TransmitSends
    <2>4. NeighbourInv'
      BY ZenonT(40), <1>1, <2>1, <2>2, TransmitKeeps
    <2>5. QED BY Zenon, <2>3, <2>4
  <1>3. ASSUME \A f \in Cached : entry[f].addr # a, NEW e \in Entries,
               entry[e].refs = 0, neighbours' = <<e>> \o neighbours,
               Transmit(p, a, e, neighbour_discover(a))
        PROVE  NeighbourInv' /\ SentToLatest
    <2> DEFINE m == neighbour_discover(a)
    <2>1. /\ EntryOK(m, TRUE, "idle", latest, packet) /\ m.addr = a
          /\ m.queue = <<>>
          /\ neighbours' \in Seq(Entries) /\ Distinct(neighbours')
          /\ In(neighbours', e) /\ \A q \in Packets : ~In(entry[e].queue, q)
          /\ \A f \in Entries : f # e =>
               /\ In(neighbours', f) <=> In(neighbours, f)
               /\ In(neighbours, f) => entry[f].addr # a
          /\ \A q : ~In(<<>>, q)
      <3>1. HasFields(m, a, "none", TRUE, <<>>, 2)
        BY Zenon, <1>3, CreatedEntry
      <3>2. m.addr = a /\ m.queue = <<>>
        BY Zenon, <3>1 DEF HasFields
      <3>3. QED BY Zenon, <1>3, <3>2, CreatedEntry
    <2>2. Transmit(p, a, e, m)
      BY Zenon, <1>3
    <2> HIDE DEF m
    <2>3. ~In(m.queue, p) /\ \A q \in Packets : In(entry[e].queue, q) => In(m.queue, q)
      BY Zenon, <2>1
    <2>4. SentToLatest
      BY Zenon, <2>1, <2>2, TransmitSends
    <2>5. NeighbourInv'
      BY ZenonT(40), <1>1, <1>3, <2>1, <2>2, <2>3, TransmitKeeps
    <2>6. QED BY Zenon, <2>4, <2>5
  <1>4. ASSUME packet' = [packet EXCEPT ![p].status = "error"],
               neighbours' = neighbours, entry' = entry
        PROVE  NeighbourInv' /\ SentToLatest
    <2>1. packet \in [Packets -> PacketRecord] /\ NeighbourTypes
      BY Zenon DEF NeighbourInv, NeighbourTypes
    <2>2. /\ packet' \in [Packets -> PacketRecord] /\ packet'[p].status = "error"
          /\ \A q \in Packets : q # p => packet'[q] = packet[q]
      BY <1>4, <2>1 DEF PacketRecord
    <2>3. NeighbourTypes'
      BY Zenon, <1>1, <1>4, <2>1, <2>2 DEF NeighbourTypes
    <2>4. ASSUME NEW e \in Entries
          PROVE  EntryOK(entry[e], In(neighbours, e), At(e), latest, packet')
      <3>1. EntryOK(entry[e], In(neighbours, e), At(e), latest, packet)
        BY Zenon, EntryFacts
      <3>2. \A q \in Packets : In(entry[e].queue, q) => packet'[q] = packet[q]
        BY Zenon, <1>1, <2>2, PacketFacts
      <3>3. QED BY Zenon, <3>1, <3>2 DEF EntryOK
    <2>5. \A q \in Packets : packet'[q].status = "deferred" =>
            \E e \in Entries : In(entry[e].queue, q)
      <3>1. \A q \in Packets : packet'[q].status = "deferred" => q # p
        BY <2>2
      <3>2. QED BY Zenon, <2>2, <3>1, PacketFacts
    <2>6. \A e \in Entries : At(e)' = At(e)
      BY Zenon, <1>1 DEF At
    <2>7. BusyOK'
      BY Zenon, <1>1, <1>4 DEF NeighbourInv, BusyOK
    <2>8. \A e \in Entries :
            EntryOK(entry'[e], In(neighbours', e), At(e)', latest', packet')
      BY Zenon, <1>1, <1>4, <2>4, <2>6
    <2>9. \A e, f \in Entries :
            In(neighbours', e) /\ In(neighbours', f) /\ entry'[e].addr = entry'[f].addr
            => e = f
      BY Zenon, <1>4 DEF NeighbourInv
    <2>10. \A q \in Packets : packet'[q].status = "deferred" =>
             \E e \in Entries : In(entry'[e].queue, q)
      BY Zenon, <1>4, <2>5
    <2>11. NeighbourInv'
      BY Zenon, <2>3, <2>7, <2>8, <2>9, <2>10 DEF NeighbourInv
    <2>12. SentToLatest
      BY <2>2 DEF SentToLatest
    <2>13. QED BY Zenon, <2>11, <2>12
  <1>5. QED BY Zenon, <1>2, <1>3, <1>4 DEF neighbour_tx

LEMMA UpdateKeeps ==
    ASSUME NeighbourAssumption, NeighbourInv, NEW a \in Addrs, NEW ll \in Lls,
           neighbour_update(a, ll) \/ neighbour_define(a, ll)
    PROVE  NeighbourInv' /\ packet' = packet
  <1>1. /\ busy = Idle /\ packet' = packet
        /\ latest' = [latest EXCEPT ![a] = ll]
    BY Zenon DEF neighbour_update, neighbour_define
  <1>2. ASSUME NEW e \in Cached, entry[e].addr = a,
               neighbours' = ToFront(e), neighbour_discovered(e, entry[e], ll)
        PROVE  NeighbourInv'
    <2> DEFINE m == entry[e]
    <2>1. /\ e \in Entries /\ EntryOK(m, TRUE, "idle", latest, packet)
          /\ neighbours' \in Seq(Entries) /\ Distinct(neighbours')
          /\ In(neighbours', e)
          /\ \A f \in Entries : f # e =>
               /\ In(neighbours', f) <=> In(neighbours, f)
               /\ In(neighbours, f) => entry[f].addr # a
      BY Zenon, <1>1, <1>2, FoundEntry
    <2>2. neighbour_discovered(e, m, ll) /\ m.addr = a
      BY Zenon, <1>2
    <2> HIDE DEF m
    <2>3. m \in EntryRecord /\ m.refs = 1 + One(m.timer)
      <3>1. m.refs = One(TRUE) + One(m.timer) + One(FALSE) /\ m \in EntryRecord
        BY Zenon, <2>1 DEF EntryOK, One
      <3>2. One(m.timer) \in Nat
        BY DEF One
      <3>3. QED BY <3>1, <3>2 DEF One
    <2>4. /\ Distinct(m.queue)
          /\ \A q \in Packets : In(m.queue, q) =>
               packet[q].status = "deferred" /\ packet[q].addr = a
      BY Zenon, <2>1, <2>2 DEF EntryOK
    <2>5. \A q \in Packets : In(entry[e].queue, q) => In(m.queue, q)
      BY Zenon DEF m
    <2>6. QED BY ZenonT(40), <1>1, <2>1, <2>2, <2>3, <2>4, <2>5, DiscoveredKeeps
  <1>3. ASSUME \A f \in Cached : entry[f].addr # a, NEW e \in Entries,
               entry[e].refs = 0, neighbours' = <<e>> \o neighbours,
               neighbour_discovered(e, neighbour_create(a), ll)
        PROVE  NeighbourInv'
    <2> DEFINE m == neighbour_create(a)
    <2>1. /\ m \in EntryRecord /\ m.addr = a /\ m.timer = FALSE /\ m.refs = 1
          /\ m.queue = <<>> /\ Distinct(<<>>)
          /\ neighbours' \in Seq(Entries) /\ Distinct(neighbours')
          /\ In(neighbours', e) /\ \A q \in Packets : ~In(entry[e].queue, q)
          /\ \A f \in Entries : f # e =>
               /\ In(neighbours', f) <=> In(neighbours, f)
               /\ In(neighbours, f) => entry[f].addr # a
          /\ \A q : ~In(<<>>, q)
      <3>1. HasFields(m, a, "none", FALSE, <<>>, 1)
        BY Zenon, <1>3, CreatedEntry
      <3>2. /\ m \in EntryRecord /\ m.addr = a /\ m.timer = FALSE /\ m.refs = 1
            /\ m.queue = <<>>
        BY Zenon, <3>1 DEF HasFields
      <3>3. QED BY Zenon, <1>3, <3>2, CreatedEntry
    <2>2. neighbour_discovered(e, m, ll)
      BY Zenon, <1>3
    <2> HIDE DEF m
    <2>3. m.refs = 1 + One(m.timer)
      BY <2>1 DEF One
    <2>4. /\ Distinct(m.queue) /\ \A q \in Packets : ~In(m.queue, q)
      BY Zenon, <2>1
    <2>5. QED BY ZenonT(40), <1>1, <2>1, <2>2, <2>3, <2>4, DiscoveredKeeps
  <1>4. ASSUME \A f \in Cached : entry[f].addr # a, neighbours' = neighbours,
               entry' = entry, busy' = busy
        PROVE  NeighbourInv'
    <2>1. latest \in [Addrs -> Lls \cup {"none"}] /\ NeighbourTypes
      BY Zenon DEF NeighbourInv, NeighbourTypes
    <2>2. /\ latest' \in [Addrs -> Lls \cup {"none"}]
          /\ \A b \in Addrs : b # a => latest'[b] = latest[b]
      BY <1>1, <2>1
    <2>3. NeighbourTypes'
      BY Zenon, <1>1, <1>4, <2>1, <2>2 DEF NeighbourTypes
    <2>4. ASSUME NEW e \in Entries
          PROVE  EntryOK(entry[e], In(neighbours, e), At(e), latest', packet)
      <3>1. EntryOK(entry[e], In(neighbours, e), At(e), latest, packet)
        BY Zenon, EntryFacts
      <3>2. In(neighbours, e) => entry[e].addr # a
        BY Zenon, <1>4, NeighbourTerms
      <3>3. QED BY Zenon, <2>2, <3>1, <3>2 DEF EntryOK
    <2>5. \A e \in Entries : At(e)' = At(e)
      BY Zenon, <1>4 DEF At
    <2>6. BusyOK'
      BY Zenon, <1>4 DEF NeighbourInv, BusyOK
    <2>7. \A e \in Entries :
            EntryOK(entry'[e], In(neighbours', e), At(e)', latest', packet')
      BY Zenon, <1>1, <1>4, <2>4, <2>5
    <2>8. QED BY Zenon, <1>1, <1>4, <2>3, <2>6, <2>7 DEF NeighbourInv
  <1>5. QED BY Zenon, <1>1, <1>2, <1>3, <1>4 DEF neighbour_update, neighbour_define

(* neighbour_flush: nothing is left of the cache. *)
LEMMA FlushKeeps ==
    ASSUME NeighbourAssumption, NeighbourInv, neighbour_flush
    PROVE  NeighbourInv' /\ SentToLatest
  <1>1. /\ busy = Idle /\ neighbours' = <<>> /\ busy' = busy /\ latest' = latest
        /\ entry' = [e \in Entries |-> IF e \in Cached THEN Destroyed(entry[e])
                                       ELSE entry[e]]
        /\ packet' = [p \in Packets |->
                        IF packet[p].status = "deferred"
                        THEN [packet[p] EXCEPT !.status = "error"] ELSE packet[p]]
    BY Zenon DEF neighbour_flush
  <1>2. /\ packet \in [Packets -> PacketRecord] /\ NeighbourTypes
    BY Zenon DEF NeighbourInv, NeighbourTypes
  <1>3. /\ packet' \in [Packets -> PacketRecord]
        /\ \A p \in Packets : packet'[p].status # "deferred"
        /\ \A p \in Packets : packet'[p].status = "sent" => packet[p].status = "sent"
    BY <1>1, <1>2 DEF PacketRecord
  <1>4. /\ \A q : ~In(<<>>, q)
        /\ Distinct(<<>>) /\ <<>> \in Seq(Entries) /\ <<>> \in Seq(Packets)
    BY DEF In, Distinct
  <1>5. \A e \in Entries : At(e) = "idle" /\ At(e)' = "idle"
    <2>1. \A e \in Entries : At(e) = "idle"
      BY Zenon, <1>1, NothingAt
    <2>2. QED BY Zenon, <1>1, <2>1 DEF At
  <1>6. ASSUME NEW e \in Entries
        PROVE  entry'[e] \in EntryRecord /\ entry'[e].timer = FALSE
               /\ entry'[e].queue = <<>> /\ entry'[e].refs = 0
    <2> DEFINE m == entry[e]
               t == stop_timer(m)
               n == Destroyed(m)
    <2>1. m \in EntryRecord /\ EntryOK(m, In(neighbours, e), "idle", latest, packet)
      BY Zenon, <1>5, EntryFacts
    <2>2. /\ m.timer \in BOOLEAN /\ m.refs \in Int
          /\ m.refs = One(In(neighbours, e)) + One(m.timer) + One(FALSE)
      <3>1. m.refs = One(In(neighbours, e)) + One(m.timer) + One(FALSE)
        BY Zenon, <2>1 DEF EntryOK, One
      <3>2. QED BY Zenon, <2>1, <3>1 DEF EntryRecord
    <2>3. CASE In(neighbours, e)
      <3>1. entry'[e] = n
        BY Zenon, <1>1, <2>3, NeighbourTerms
      <3>2. t \in EntryRecord /\ t.timer = FALSE /\ t.refs = m.refs - One(m.timer)
        BY Zenon, <2>1, TimerStopped
      <3>3. n = SetQueue(t, <<>>, t.refs - 1)
        BY Zenon DEF Destroyed, SetQueue
      <3> HIDE DEF m, t, n
      <3>4. t.refs = 1
        BY <2>2, <2>3, <3>2 DEF One
      <3>5. t.refs - 1 \in Int /\ t.refs - 1 = 0
        BY <3>4
      <3>6. HasFields(n, t.addr, t.ll, t.timer, <<>>, t.refs - 1)
        BY Zenon, <1>4, <3>2, <3>3, <3>5, SetQueueFields
      <3>7. QED BY Zenon, <3>1, <3>2, <3>5, <3>6 DEF HasFields
    <2>4. CASE ~In(neighbours, e)
      <3>1. entry'[e] = m
        BY Zenon, <1>1, <2>4, NeighbourTerms
      <3>2. ~m.timer /\ m.queue = <<>>
        BY Zenon, <2>1, <2>4 DEF EntryOK
      <3> HIDE DEF m
      <3>3. m.refs = 0 /\ m.timer = FALSE
        BY <2>2, <2>4, <3>2 DEF One
      <3>4. QED BY Zenon, <2>1, <3>1, <3>2, <3>3
    <2>5. QED BY Zenon, <2>3, <2>4
  <1>7. NeighbourTypes'
    <2>1. entry' \in [Entries -> EntryRecord]
      BY Zenon, <1>1, <1>6
    <2>2. QED BY Zenon, <1>1, <1>2, <1>3, <1>4, <2>1 DEF NeighbourTypes
  <1>8. ASSUME NEW e \in Entries
        PROVE  EntryOK(entry'[e], In(neighbours', e), At(e)', latest', packet')
    <2>1. ~In(neighbours', e)
      BY Zenon, <1>1, <1>4
    <2>2. 0 = One(FALSE) + One(FALSE) + One(FALSE)
      BY DEF One
    <2>3. entry'[e].refs = One(In(neighbours', e)) + One(entry'[e].timer)
                           + One(At(e)' # "idle")
      <3>1. /\ One(In(neighbours', e)) = One(FALSE)
            /\ One(entry'[e].timer) = One(FALSE) /\ One(At(e)' # "idle") = One(FALSE)
        BY Zenon, <1>5, <1>6, <2>1 DEF One
      <3>2. QED BY Zenon, <1>6, <2>2, <3>1
    <2>4. QED BY Zenon, <1>4, <1>6, <2>1, <2>3 DEF EntryOK
  <1>9. BusyOK'
    BY <1>1 DEF BusyOK, Idle
  <1>10. NeighbourInv'
    <2>1. \A e : ~In(neighbours', e)
      BY Zenon, <1>1, <1>4
    <2>2. QED BY Zenon, <1>3, <1>7, <1>8, <1>9, <2>1 DEF NeighbourInv
  <1>11. QED BY Zenon, <1>3, <1>10 DEF SentToLatest

LEMMA NeighbourInit == ASSUME NeighbourAssumption PROVE Init => NeighbourInv
  <1> SUFFICES ASSUME Init PROVE NeighbourInv
    OBVIOUS
  <1>1. /\ neighbours = <<>> /\ entry = [e \in Entries |-> Unused]
        /\ packet = [p \in Packets |-> New]
        /\ busy = Idle /\ latest = [a \in Addrs |-> "none"]
    BY Zenon DEF Init
  <1>2. /\ \A q : ~In(<<>>, q)
        /\ Distinct(<<>>) /\ <<>> \in Seq(Entries)
    BY DEF In, Distinct
  <1>3. HasFields(Unused, "none", "none", FALSE, <<>>, 0)
    BY DEF Unused, HasFields, EntryRecord
  <1>4. New \in PacketRecord /\ New.status # "deferred"
    BY DEF New, PacketRecord
  <1>5. NeighbourTypes
    <2>1. Unused \in EntryRecord
      BY Zenon, <1>3 DEF HasFields
    <2>2. QED BY <1>1, <1>2, <1>4, <2>1 DEF NeighbourTypes
  <1>6. ASSUME NEW e \in Entries
        PROVE  EntryOK(entry[e], In(neighbours, e), At(e), latest, packet)
    <2>1. ~In(neighbours, e) /\ At(e) = "idle" /\ entry[e] = Unused
      BY Zenon, <1>1, <1>2, NothingAt
    <2> DEFINE n == entry[e]
    <2>2. /\ n \in EntryRecord /\ n.timer = FALSE /\ n.queue = <<>> /\ n.refs = 0
      BY Zenon, <1>3, <2>1 DEF HasFields
    <2> HIDE DEF n
    <2>3. 0 = One(FALSE) + One(FALSE) + One(FALSE)
      BY DEF One
    <2>4. n.refs = One(In(neighbours, e)) + One(n.timer) + One(At(e) # "idle")
      <3>1. /\ One(In(neighbours, e)) = One(FALSE) /\ One(n.timer) = One(FALSE)
            /\ One(At(e) # "idle") = One(FALSE)
        BY Zenon, <2>1, <2>2 DEF One
      <3>2. QED BY Zenon, <2>2, <2>3, <3>1
    <2>5. EntryOK(n, In(neighbours, e), At(e), latest, packet)
      BY Zenon, <1>2, <2>1, <2>2, <2>4 DEF EntryOK
    <2>6. QED BY Zenon, <2>5 DEF n
  <1>7. BusyOK
    BY <1>1 DEF BusyOK, Idle
  <1>8. \A p \in Packets : packet[p].status # "deferred"
    BY Zenon, <1>1, <1>4
  <1>9. \A e : ~In(neighbours, e)
    BY Zenon, <1>1, <1>2
  <1>10. QED BY Zenon, <1>5, <1>6, <1>7, <1>8, <1>9 DEF NeighbourInv

(* A destroyed entry's packets are errors: none of them is transmitted. *)
LEMMA DestroySends ==
    ASSUME NeighbourInv, NEW e \in Entries, neighbour_destroy(e)
    PROVE  SentToLatest
  <1>1. packet \in [Packets -> PacketRecord]
    BY Zenon DEF NeighbourInv, NeighbourTypes
  <1>2. packet' = [p \in Packets |->
                     IF p \in Range(entry[e].queue)
                     THEN [packet[p] EXCEPT !.status = "error"] ELSE packet[p]]
    BY Zenon DEF neighbour_destroy
  <1>3. \A p \in Packets : packet'[p].status = "sent" => packet[p].status = "sent"
    BY <1>1, <1>2 DEF PacketRecord
  <1>4. QED BY Zenon, <1>3 DEF SentToLatest

LEMMA NeighbourNext ==
    ASSUME NeighbourAssumption, NeighbourInv, [Next]_vars
    PROVE  NeighbourInv' /\ SentToLatest
  <1>1. ASSUME packet' = packet PROVE SentToLatest
    BY Zenon, <1>1 DEF SentToLatest
  <1>2. ASSUME NEW p \in Packets, NEW a \in Addrs, neighbour_tx(p, a)
        PROVE  NeighbourInv' /\ SentToLatest
    BY Zenon, <1>2, TxKeeps
  <1>3. ASSUME NEW a \in Addrs, NEW ll \in Lls,
               neighbour_update(a, ll) \/ neighbour_define(a, ll)
        PROVE  NeighbourInv' /\ SentToLatest
    BY Zenon, <1>1, <1>3, UpdateKeeps
  <1>4. ASSUME transmit_deferred PROVE NeighbourInv' /\ SentToLatest
    BY Zenon, <1>4, DeferredKeeps DEF SentToLatest
  <1>5. ASSUME transmit_end \/ request_end PROVE NeighbourInv' /\ SentToLatest
    <2>1. packet' = packet
      BY Zenon, <1>5 DEF transmit_end, request_end
    <2>2. NeighbourInv'
      BY Zenon, <1>5, EndKeeps
    <2>3. QED BY Zenon, <1>1, <2>1, <2>2
  <1>6. ASSUME NEW e \in Entries, neighbour_expired(e, TRUE)
        PROVE  NeighbourInv' /\ SentToLatest
    <2>1. /\ entry[e].timer /\ neighbour_destroy(e)
          /\ busy' = busy /\ latest' = latest
      BY <1>6 DEF neighbour_expired
    <2>2. EntryOK(entry[e], In(neighbours, e), At(e), latest, packet)
      BY Zenon, EntryFacts
    <2>3. In(neighbours, e)
      BY Zenon, <2>1, <2>2 DEF EntryOK
    <2>4. QED BY Zenon, <2>1, <2>3, DestroyKeeps, DestroySends
  <1>7. ASSUME NEW e \in Entries, neighbour_expired(e, FALSE)
        PROVE  NeighbourInv' /\ SentToLatest
    BY Zenon, <1>1, <1>7, RequestKeeps
  <1>8. ASSUME neighbour_discard PROVE NeighbourInv' /\ SentToLatest
    <2>1. neighbours \in Seq(Entries) /\ neighbours # <<>>
      BY Zenon, <1>8 DEF neighbour_discard, NeighbourInv, NeighbourTypes
    <2> DEFINE e == neighbours[Len(neighbours)]
    <2>2. e \in Entries /\ In(neighbours, e)
      BY <2>1 DEF In
    <2>3. neighbour_destroy(e) /\ busy' = busy /\ latest' = latest
      BY Zenon, <1>8 DEF neighbour_discard
    <2>4. PICK f \in Entries : f = e
      BY Zenon, <2>2
    <2> HIDE DEF e
    <2>5. In(neighbours, f) /\ neighbour_destroy(f)
      BY Zenon, <2>2, <2>3, <2>4
    <2>6. QED BY Zenon, <2>3, <2>5, DestroyKeeps, DestroySends
  <1>9. ASSUME UNCHANGED vars PROVE NeighbourInv' /\ SentToLatest
    <2>1. /\ neighbours' = neighbours /\ entry' = entry /\ packet' = packet
          /\ busy' = busy /\ latest' = latest
      BY Zenon, <1>9 DEF vars
    <2>2. \A e : At(e)' = At(e)
      BY Zenon, <2>1 DEF At
    <2>3. NeighbourTypes' /\ BusyOK'
      BY <2>1 DEF NeighbourInv, NeighbourTypes, BusyOK
    <2>4. NeighbourInv'
      BY Zenon, <2>1, <2>2, <2>3 DEF NeighbourInv
    <2>5. QED BY Zenon, <1>1, <2>1, <2>4
  <1>10. CASE Next
    <2>1. \A b \in BOOLEAN : b = TRUE \/ b = FALSE
      OBVIOUS
    <2>2. CASE \E e \in Entries, failed \in BOOLEAN : neighbour_expired(e, failed)
      BY Zenon, <1>6, <1>7, <2>1, <2>2
    <2>3. QED BY Zenon, <1>2, <1>3, <1>4, <1>5, <1>8, <1>10, <2>2, FlushKeeps DEF Next
  <1>11. QED BY Zenon, <1>9, <1>10

LEMMA NeighbourInvSound ==
    ASSUME NeighbourAssumption, NeighbourInv PROVE NeighbourSound
  <1>1. NeighbourTypes
    BY Zenon DEF NeighbourInv
  <1>2. DeferredWaits
    <2> SUFFICES ASSUME NEW p \in Packets, packet[p].status = "deferred"
        PROVE  \E e \in Entries :
                 /\ {f \in Entries : p \in Range(entry[f].queue)} = {e}
                 /\ entry[e].addr = packet[p].addr /\ e \in Cached
                 /\ entry[e].timer \/ (busy.act = "transmit" /\ busy.e = e)
      BY Zenon DEF DeferredWaits
    <2>1. PICK e \in Entries : In(entry[e].queue, p)
      BY Zenon DEF NeighbourInv
    <2>2. ASSUME NEW f \in Entries, In(entry[f].queue, p)
          PROVE  /\ In(neighbours, f) /\ entry[f].addr = packet[p].addr
                 /\ entry[f].timer \/ At(f) = "transmit"
      <3>1. EntryOK(entry[f], In(neighbours, f), At(f), latest, packet)
        BY Zenon, EntryFacts
      <3>2. entry[f].queue # <<>>
        BY <2>2 DEF In
      <3>3. QED BY Zenon, <2>2, <3>1, <3>2 DEF EntryOK
    <2>3. \A f \in Entries : In(entry[f].queue, p) => f = e
      BY Zenon, <2>1, <2>2 DEF NeighbourInv
    <2>4. {f \in Entries : p \in Range(entry[f].queue)} = {e}
      BY Zenon, <2>1, <2>3, NeighbourTerms
    <2>5. At(e) = "transmit" => busy.act = "transmit" /\ busy.e = e
      BY DEF At
    <2>6. QED BY Zenon, <2>1, <2>2, <2>4, <2>5, NeighbourTerms
  <1>3. ASSUME NEW e \in Entries
        PROVE  /\ entry[e].refs = (IF e \in Cached THEN 1 ELSE 0)
                    + (IF entry[e].timer THEN 1 ELSE 0) + (IF busy.e = e THEN 1 ELSE 0)
               /\ entry[e].refs = 0 => entry[e].queue = <<>>
    <2>1. /\ EntryOK(entry[e], In(neighbours, e), At(e), latest, packet)
          /\ e \in Cached <=> In(neighbours, e)
      BY Zenon, EntryFacts, NeighbourTerms
    <2>2. At(e) # "idle" <=> busy.e = e
      <3>1. busy.e = e => busy.act # "idle"
        BY DEF NeighbourInv, BusyOK, Idle, NeighbourAssumption
      <3>2. QED BY Zenon, <3>1 DEF At
    <2> DEFINE m == entry[e]
    <2>3. /\ m.refs = One(In(neighbours, e)) + One(m.timer) + One(At(e) # "idle")
          /\ ~In(neighbours, e) => m.queue = <<>>
      BY Zenon, <2>1 DEF EntryOK
    <2> HIDE DEF m
    <2>4. m.refs = (IF e \in Cached THEN 1 ELSE 0)
                    + (IF m.timer THEN 1 ELSE 0) + (IF busy.e = e THEN 1 ELSE 0)
      BY Zenon, <2>1, <2>2, <2>3 DEF One
    <2>5. m.refs = 0 => ~In(neighbours, e)
      BY <2>3 DEF One
    <2>6. QED BY Zenon, <2>3, <2>4, <2>5 DEF m
  <1>4. RefsExact /\ FreedEmpty
    BY Zenon, <1>3 DEF RefsExact, FreedEmpty
  <1>5. OneEntryEach
    <2> SUFFICES ASSUME NEW i \in DOMAIN neighbours, NEW j \in DOMAIN neighbours,
                        entry[neighbours[i]].addr = entry[neighbours[j]].addr
        PROVE  i = j
      BY Zenon DEF OneEntryEach
    <2>1. neighbours[i] \in Entries /\ neighbours[j] \in Entries
      BY <1>1 DEF NeighbourTypes
    <2>2. In(neighbours, neighbours[i]) /\ In(neighbours, neighbours[j])
      BY Zenon DEF In
    <2>3. neighbours[i] = neighbours[j]
      BY Zenon, <2>1, <2>2 DEF NeighbourInv
    <2>4. QED BY Zenon, <1>1, <2>3 DEF NeighbourTypes, Distinct
  <1>6. QED BY Zenon, <1>2, <1>4, <1>5 DEF NeighbourSound

(* Whatever the order of announcements, expiries, discards and flushes,    *)
(* also while the loop of neighbour_discovered or an expiry callback is at *)
(* work on an entry: a deferred packet waits in exactly one queue that     *)
(* will be emptied, the references of an entry are exactly those of the    *)
(* cache, its timer and the loop or callback, an entry is freed with an    *)
(* empty queue, and no address has two entries.                            *)
THEOREM NeighboursSound ==
    ASSUME NeighbourAssumption PROVE Spec => []NeighbourSound
  <1>1. Init => NeighbourInv
    BY Zenon, NeighbourInit
  <1>2. NeighbourInv /\ [Next]_vars => NeighbourInv'
    BY Zenon, NeighbourNext
  <1>3. NeighbourInv => NeighbourSound
    BY Zenon, NeighbourInvSound
  <1>4. QED BY <1>1, <1>2, <1>3, PTL DEF Spec

(* neighbour_tx and the loop of neighbour_discovered transmit a packet     *)
(* only to the link-layer address announced last for its destination.     *)
THEOREM SentWhereAnnounced ==
    ASSUME NeighbourAssumption PROVE Spec => TxToLatest
  <1>1. Init => NeighbourInv
    BY Zenon, NeighbourInit
  <1>2. NeighbourInv /\ [Next]_vars =>
          NeighbourInv' /\
          [\A p \in Packets :
             packet'[p].status = "sent" /\ packet[p].status # "sent" =>
             packet'[p].ll \in Lls /\ packet'[p].ll = latest[packet'[p].addr]]_vars
    BY Zenon, NeighbourNext DEF SentToLatest
  <1>3. QED BY <1>1, <1>2, PTL DEF Spec, TxToLatest

-----------------------------------------------------------------------------
(* Reassembly.  The inductive invariant says that a buffer holds a proper  *)
(* beginning of its datagram; acceptance of only the fragment that starts  *)
(* where the beginning ends does the rest.                                 *)

FragmentInv == F!TypeOK /\ F!Prefixes /\ F!TimerRuns /\ F!PacketExact

(* The payload of a fragment is a sequence of its length *)
LEMMA BytesType ==
  ASSUME NEW m \in Nat, NEW n \in Nat, m <= n
  PROVE  F!Bytes(m, n) \in Seq(Nat) /\ Len(F!Bytes(m, n)) = n - m
  BY DEF F!Bytes

(* Adjacent pieces of a datagram make up a longer piece *)
LEMMA BytesJoin ==
  ASSUME NEW n \in Nat, NEW k \in Nat, n <= k
  PROVE  F!Bytes(0, n) \o F!Bytes(n, k) = F!Bytes(0, k)
<1> DEFINE a == F!Bytes(0, n)
           b == F!Bytes(n, k)
           c == F!Bytes(0, k)
<1>1. a \in Seq(Nat) /\ Len(a) = n /\ b \in Seq(Nat) /\ Len(b) = k - n
      /\ c \in Seq(Nat) /\ Len(c) = k
  <2>1. a \in Seq(Nat) /\ Len(a) = n - 0
    BY BytesType
  <2>2. b \in Seq(Nat) /\ Len(b) = k - n
    BY BytesType
  <2>3. c \in Seq(Nat) /\ Len(c) = k - 0
    BY BytesType
  <2>4. QED
    BY <2>1, <2>2, <2>3
<1>2. /\ \A i \in 1..n : a[i] = i - 1
      /\ \A i \in 1..(k - n) : b[i] = n + i - 1
      /\ \A i \in 1..k : c[i] = i - 1
  BY DEF F!Bytes
<1> HIDE DEF a, b, c
<1>3. /\ a \o b \in Seq(Nat) /\ Len(a \o b) = k
      /\ \A i \in 1..k : (a \o b)[i] = IF i <= n THEN a[i] ELSE b[i - n]
  <2>1. /\ a \o b \in Seq(Nat) /\ Len(a \o b) = Len(a) + Len(b)
        /\ \A i \in 1..(Len(a) + Len(b)) :
             (a \o b)[i] = IF i <= Len(a) THEN a[i] ELSE b[i - Len(a)]
    BY Zenon, <1>1, ConcatProperties
  <2>2. Len(a) + Len(b) = k /\ Len(a) = n
    BY <1>1
  <2>3. QED BY Zenon, <2>1, <2>2
<1>4. ASSUME NEW i \in 1..k PROVE (a \o b)[i] = c[i]
  BY SMTT(30), <1>2, <1>3
<1>5. a \o b = c
  BY <1>1, <1>3, <1>4, SeqEqual, ZenonT(30)
<1>6. QED
  BY <1>5 DEF a, b, c

(* A buffer that exists is not empty *)
LEMMA EmptyIsNot ==
  ASSUME NEW n \in Nat \ {0}
  PROVE  F!Bytes(0, n) # <<>>
  BY BytesType

LEMMA InitFragment == F!Init => FragmentInv
  BY DEF F!Init, FragmentInv, F!TypeOK, F!Prefixes, F!TimerRuns, F!PacketExact, F!Found,
         F!NoBuffer

(* What the code relies on in an accepted fragment: it continues the       *)
(* beginning that the buffer holds                                         *)
LEMMA AcceptedContinues ==
  ASSUME F!FragmentAssumption, FragmentInv, NEW d \in Datagrams, F!Found(d),
         NEW from \in 0..(DataLen - 1), NEW to \in 1..DataLen, from < to,
         F!Accepts(d, from)
  PROVE  buffer[d].iobuf \o F!Bytes(from, to) = F!Bytes(0, to)
<1>1. PICK n \in 1..(DataLen - 1) : buffer[d].iobuf = F!Bytes(0, n)
  BY DEF FragmentInv, F!Prefixes
<1>2. n \in Nat /\ DataLen \in Nat /\ to \in Nat
  BY DEF F!FragmentAssumption
<1>3. Len(F!Bytes(0, n)) = n - 0
  BY <1>2, BytesType
<1>4. from = n
  BY <1>1, <1>2, <1>3 DEF F!Accepts, F!ExpectedOffset
<1>5. n <= to
  BY <1>2, <1>4
<1>6. F!Bytes(0, n) \o F!Bytes(n, to) = F!Bytes(0, to)
  BY <1>2, <1>5, BytesJoin, ZenonT(30)
<1>7. QED
  BY <1>1, <1>4, <1>6

(* The invariant speaks of each datagram by itself *)
LEMMA OneDatagram ==
  ASSUME FragmentInv, NEW d \in Datagrams,
         NEW b \in [iobuf : Seq(Nat), timer : BOOLEAN],
         NEW p \in [iobuf : Seq(Nat), timer : BOOLEAN],
         buffer' = [buffer EXCEPT ![d] = b], returned' = [returned EXCEPT ![d] = p],
         b # F!NoBuffer => b.timer /\ \E n \in 1..(DataLen - 1) : b.iobuf = F!Bytes(0, n),
         p # F!NoBuffer => p.iobuf = F!Bytes(0, DataLen)
  PROVE  FragmentInv'
<1>1. F!TypeOK'
  BY DEF FragmentInv, F!TypeOK
<1>2. ASSUME NEW e \in Datagrams
      PROVE  /\ buffer'[e] = IF e = d THEN b ELSE buffer[e]
             /\ returned'[e] = IF e = d THEN p ELSE returned[e]
  BY DEF FragmentInv, F!TypeOK
<1>3. F!Prefixes'
  BY <1>2 DEF FragmentInv, F!Prefixes, F!Found
<1>4. F!TimerRuns'
  BY <1>2 DEF FragmentInv, F!TimerRuns, F!Found
<1>5. F!PacketExact'
  BY <1>2 DEF FragmentInv, F!PacketExact
<1>6. QED
  BY <1>1, <1>3, <1>4, <1>5 DEF FragmentInv

LEMMA NextFragment ==
  ASSUME F!FragmentAssumption PROVE FragmentInv /\ [F!Next]_F!vars => FragmentInv'
<1> SUFFICES ASSUME FragmentInv, [F!Next]_F!vars PROVE FragmentInv'
  OBVIOUS
<1> DEFINE Record == [iobuf : Seq(Nat), timer : BOOLEAN]
<1>1. ASSUME NEW d \in Datagrams
      PROVE  /\ buffer[d] \in Record /\ returned[d] \in Record
             /\ buffer = [buffer EXCEPT ![d] = buffer[d]]
             /\ returned = [returned EXCEPT ![d] = returned[d]]
             /\ F!Found(d) => buffer[d].timer
                            /\ \E n \in 1..(DataLen - 1) : buffer[d].iobuf = F!Bytes(0, n)
             /\ returned[d] # F!NoBuffer => returned[d].iobuf = F!Bytes(0, DataLen)
  BY DEF FragmentInv, F!TypeOK, F!Prefixes, F!TimerRuns, F!PacketExact
<1>2. F!NoBuffer \in Record
  BY DEF F!NoBuffer
<1>3. CASE UNCHANGED F!vars
  BY <1>3 DEF F!vars, FragmentInv, F!TypeOK, F!Prefixes, F!TimerRuns, F!PacketExact, F!Found
<1>4. ASSUME NEW d \in Datagrams, F!fragment_expired(d) PROVE FragmentInv'
  <2>1. returned' = [returned EXCEPT ![d] = returned[d]]
    BY <1>1, <1>4 DEF F!fragment_expired
  <2>2. QED
    BY <1>1, <1>2, <1>4, <2>1, OneDatagram, ZenonT(30) DEF F!fragment_expired
<1>5. ASSUME NEW d \in Datagrams,
             NEW from \in 0..(DataLen - 1), NEW to \in 1..DataLen,
             F!fragment_reassemble(d, from, to)
      PROVE  FragmentInv'
  <2>1. from \in Nat /\ to \in Nat /\ from < to /\ (from > 0 \/ to < DataLen)
        /\ DataLen \in Nat
    BY <1>5 DEF F!FragmentAssumption, F!fragment_reassemble
  <2>2. F!Bytes(from, to) \in Seq(Nat) /\ F!Bytes(0, to) \in Seq(Nat)
    BY <2>1, BytesType
  <2>3. CASE F!create(d, from, to)
    <3> DEFINE b == [iobuf |-> F!Bytes(from, to), timer |-> TRUE]
    <3>1. from = 0 /\ to \in 1..(DataLen - 1)
      BY <2>1, <2>3 DEF F!create, F!Accepts, F!ExpectedOffset
    <3>2. b \in Record /\ buffer' = [buffer EXCEPT ![d] = b]
      BY <2>2, <2>3 DEF F!create
    <3>3. returned' = [returned EXCEPT ![d] = returned[d]]
      BY <1>1, <2>3 DEF F!create
    <3>4. b.timer /\ b.iobuf = F!Bytes(0, to)
      BY <3>1
    <3> HIDE DEF b
    <3>5. QED
      BY <1>1, <3>1, <3>2, <3>3, <3>4, OneDatagram, ZenonT(30)
  <2>4. CASE F!extend(d, from, to)
    <3> DEFINE b == [iobuf |-> F!Bytes(0, to), timer |-> TRUE]
    <3>1. buffer[d].iobuf \o F!Bytes(from, to) = F!Bytes(0, to)
      BY <2>1, <2>4, AcceptedContinues DEF F!extend
    <3>2. b \in Record /\ buffer' = [buffer EXCEPT ![d] = b]
      BY <2>2, <2>4, <3>1 DEF F!extend
    <3>3. returned' = [returned EXCEPT ![d] = returned[d]]
      BY <1>1, <2>4 DEF F!extend
    <3>4. to \in 1..(DataLen - 1)
      BY <2>1, <2>4 DEF F!extend
    <3>5. b.timer /\ b.iobuf = F!Bytes(0, to)
      OBVIOUS
    <3> HIDE DEF b
    <3>6. QED
      BY <1>1, <3>2, <3>3, <3>4, <3>5, OneDatagram, ZenonT(30)
  <2>5. CASE F!complete(d, from, to)
    <3> DEFINE p == [iobuf |-> F!Bytes(0, DataLen), timer |-> FALSE]
    <3>1. to = DataLen /\ buffer[d].iobuf \o F!Bytes(from, to) = F!Bytes(0, to)
      BY <2>1, <2>5, AcceptedContinues DEF F!complete
    <3>2. p \in Record /\ returned' = [returned EXCEPT ![d] = p]
      BY <2>2, <2>5, <3>1 DEF F!complete
    <3>3. buffer' = [buffer EXCEPT ![d] = F!NoBuffer]
      BY <2>5 DEF F!complete
    <3>4. p.iobuf = F!Bytes(0, DataLen)
      OBVIOUS
    <3> HIDE DEF p
    <3>5. QED
      BY <1>2, <3>2, <3>3, <3>4, OneDatagram, ZenonT(30)
  <2>6. CASE F!drop(d, from, to)
    BY <1>3, <2>6 DEF F!drop
  <2>7. QED
    BY <1>5, <2>3, <2>4, <2>5, <2>6 DEF F!fragment_reassemble
<1>6. QED
  BY <1>3, <1>4, <1>5 DEF F!Next

(* Whatever arrives in whatever order, a packet that is returned is the    *)
(* whole datagram in order (fragment_reassemble).                          *)
THEOREM PacketExactTheorem ==
  ASSUME F!FragmentAssumption PROVE F!Spec => []PacketExact
<1>1. FragmentInv => PacketExact
  BY DEF FragmentInv, PacketExact
<1>2. QED
  BY <1>1, InitFragment, NextFragment, PTL DEF F!Spec

(* No reassembly buffer is without a running timer (fragment_reassemble,   *)
(* fragment_expired).                                                      *)
THEOREM TimerRunsTheorem ==
  ASSUME F!FragmentAssumption PROVE F!Spec => []TimerRuns
<1>1. FragmentInv => TimerRuns
  BY DEF FragmentInv, TimerRuns
<1>2. QED
  BY <1>1, InitFragment, NextFragment, PTL DEF F!Spec
=============================================================================
