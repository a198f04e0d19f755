------------------------------- MODULE MCData -------------------------------
(***************************************************************************)
(* What the servers of the explored instances send: DHCP packets and the   *)
(* zones of DNS servers.                                                   *)
(***************************************************************************)
EXTENDS Integers

(* Packets and boot server plans for the DHCP client *)

NoAddr == "0.0.0.0"
Offer(src, addr) ==
    [src |-> src, port |-> "bootps", type |-> "offer", xid |-> TRUE, sid |-> src,
     siaddr |-> NoAddr, ip |-> addr, pri |-> 0, nopxe |-> FALSE, client |-> FALSE,
     opts |-> FALSE, valid |-> TRUE, item |-> FALSE]

(* Two servers of different priorities that offer different addresses; the *)
(* first also offers without an iVentoy boot file name, the second asks    *)
(* to be left without ProxyDHCP                                            *)
Leases ==
    LET a == Offer("a", "x")
        b == [Offer("b", "y") EXCEPT !.pri = 1, !.nopxe = TRUE]
    IN  {a, b, [a EXCEPT !.valid = FALSE], [a EXCEPT !.xid = FALSE]}
        \cup {[x EXCEPT !.type = t] : x \in {a, b}, t \in {"ack", "nak"}}

Bootp == {[Offer("a", "x") EXCEPT !.type = "bootp", !.sid = NoAddr, !.pri = p] : p \in {-1, 0}}

(* A ProxyDHCP server, with or without PXE options *)
Proxies ==
    LET p == [Offer("p", NoAddr) EXCEPT !.client = TRUE]
    IN  {p, [p EXCEPT !.opts = TRUE],
         [p EXCEPT !.opts = TRUE, !.type = "ack", !.port = "pxe"],
         [p EXCEPT !.opts = TRUE, !.type = "ack", !.port = "pxe", !.sid = "q"]}

(* Boot servers, one of them without a server identifier *)
BootServers ==
    LET s == [Offer("s", NoAddr) EXCEPT !.type = "ack", !.item = TRUE, !.port = "pxe"]
    IN  {s, [s EXCEPT !.src = "t", !.sid = NoAddr],
         [s EXCEPT !.sid = NoAddr, !.siaddr = "u"], [s EXCEPT !.item = FALSE]}

Plan(servers) ==
    [multicast |-> TRUE, mcast |-> "m", broadcast |-> TRUE, known |-> TRUE, list |-> servers]
AllPlans ==
    {Plan(<<>>), Plan(<<"s", "t">>),
     [Plan(<<"s">>) EXCEPT !.known = FALSE, !.mcast = NoAddr],
     [Plan(<<"s", "t">>) EXCEPT !.multicast = FALSE, !.broadcast = FALSE],
     [Plan(<<>>) EXCEPT !.multicast = FALSE, !.broadcast = FALSE]}
AllPackets == Leases \cup Bootp \cup Proxies \cup BootServers

-----------------------------------------------------------------------------
(* Zones of a few records: addresses of either kind, aliases of length     *)
(* one to three, a loop                                                    *)

RR(n, t, d) == [name |-> n, type |-> t, data |-> d]
Records ==
    {RR("h.s", "A", "a1"), RR("h.s", "CNAME", "x"), RR("h", "A", "a2"),
     RR("h", "AAAA", "a3"), RR("h", "CNAME", "x"), RR("x", "A", "a4"),
     RR("x", "CNAME", "y"), RR("y", "A", "a5"), RR("y", "CNAME", "x")}

(* An alias has no other records *)
AllZones == {z \in SUBSET Records :
              \A r, s \in z : r.name = s.name /\ r.type = "CNAME" => r = s}
FewZones == {z \cup {RR("ns", "A", "a9")} : z \in {y \in AllZones :
              /\ RR("h", "A", "a2") \in y
              /\ RR("h", "AAAA", "a3") \notin y /\ RR("h.s", "A", "a1") \notin y}}
=============================================================================
