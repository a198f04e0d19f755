-------------------------------- MODULE Dhcp --------------------------------
(***************************************************************************)
(* The DHCP client (net/udp/dhcp.c): discovery, request, ProxyDHCP request *)
(* and PXE boot server discovery, run one session after another, with the  *)
(* received packets it keeps as settings.  Every packet the client can     *)
(* receive may arrive at any moment, in any order and any number of times. *)
(*                                                                         *)
(* Time is in quarters of a second, the default minimum timeout of         *)
(* retry.c.  It advances to the next moment at which the outcome of a      *)
(* comparison in the code changes: the timer falls due, or the time in the *)
(* current state exceeds the limit the state compares it with.  The main   *)
(* loop may poll the timer late, by PollLag at most.                       *)
(***************************************************************************)
EXTENDS Integers, Sequences, FiniteSets, FiniteSetsExt, SequencesExt

CONSTANTS
    Packets,       \* the packets that can arrive
    Plans,         \* the boot server settings start_pxebs can find
    Bufs,          \* memory for received packets
    MaxDeferrals,  \* DHCP_DISC_MAX_DEFERRALS
    NakCopies,     \* copies of its DHCPNAK a request can cause; 0: any number
    PollLag,       \* how late the timer may be polled
    MaxSessions    \* bound on the sessions started

DhcpAssumption ==
    MaxDeferrals \in Nat /\ {PollLag, NakCopies} \subseteq Nat /\ MaxSessions \in Nat /\ 0 \notin Bufs

VARIABLES
    session,   \* struct dhcp_session
    settings,  \* the packet registered under each settings name, or 0
    buf,       \* struct dhcp_packet, for each buffer
    number,    \* the number of sessions started
    seen,      \* the offers the current session could have selected
    owed,      \* the DHCPNAKs on their way, when they are counted
    tried      \* the boot servers the current session has sent a request to

vars == <<session, settings, buf, number, seen, owed, tried>>

Names == {"dhcp", "proxydhcp", "pxebs"}
NoAddr == "0.0.0.0"
Broadcast == "broadcast"

(* config/dhcp.h and retry.h, in quarters of a second *)
MinTimeout == [discover |-> 4, request |-> 1, proxy |-> 1, pxebs |-> 4]
MaxTimeout == 40
StartTimeout == 4
ElapsedLimit == [discover |-> 8, request |-> 8, proxy |-> 8, pxebs |-> 12]

Zeroed == [state |-> "none", rc |-> "none", elapsed |-> 0, running |-> FALSE,
           used |-> 0, timeout |-> 0, count |-> 0, offer |-> NoAddr, server |-> NoAddr,
           priority |-> 0, no_pxedhcp |-> FALSE, proxy_server |-> NoAddr,
           proxy_offer |-> 0, proxy_priority |-> 0, local |-> NoAddr,
           attempt |-> <<>>, filtered |-> FALSE, accept |-> {}]
FreeBuf == [refs |-> 0, ip |-> NoAddr, sid |-> NoAddr, pseudo |-> NoAddr, opts |-> FALSE, n |-> 0]

Active == session.state \in DOMAIN MinTimeout
late(s) == s.elapsed > ElapsedLimit[s.state]

-----------------------------------------------------------------------------
(* Timers *)

dhcp_set_state(s, st) ==
    [s EXCEPT !.state = st, !.elapsed = 0, !.running = TRUE, !.used = 0,
              !.timeout = 0]

(* dhcp_tx starts the timer before anything that can fail; the packet      *)
(* itself is left out, except for the boot server it is sent to            *)
dhcp_tx(s) ==
    [s EXCEPT !.running = TRUE, !.used = 0,
              !.timeout = Max({@, MinTimeout[s.state]})]

(* Mutant: the deferral limit is not checked *)
DeferAlways(s) ==
    [dhcp_set_state(s, "discover") EXCEPT !.timeout = StartTimeout]

dhcp_defer(s) ==
    IF s.count > MaxDeferrals THEN s
    ELSE [dhcp_set_state(s, "discover") EXCEPT !.timeout = StartTimeout]

dhcp_finished(s, rc) ==
    [s EXCEPT !.state = "done", !.rc = rc, !.running = FALSE, !.used = 0,
              !.timeout = 0, !.elapsed = 0]

-----------------------------------------------------------------------------
(* Packets and settings: M is a record of session, settings and buf *)

Now == [session |-> session, settings |-> settings, buf |-> buf]

dhcppkt_get(M, b) == [M EXCEPT !.buf[b].refs = @ + 1]
dhcppkt_put(M, b) ==
    IF b = 0 THEN M
    ELSE [M EXCEPT !.buf[b] = IF @.refs = 1 THEN FreeBuf
                              ELSE [@ EXCEPT !.refs = @ - 1]]

unregister_settings(M, name) ==
    [dhcppkt_put(M, M.settings[name]) EXCEPT !.settings[name] = 0]

register_settings(M, b, name) ==
    [dhcppkt_get(unregister_settings(M, name), b) EXCEPT !.settings[name] = b]

(* dhcp_finished drops the timer and both interfaces, and with them the    *)
(* last reference to the session: dhcp_free                                *)
Finish(M, rc) ==
    [dhcppkt_put(M, M.session.proxy_offer) EXCEPT
        !.session = [dhcp_finished(M.session, rc) EXCEPT !.proxy_offer = 0]]

Become(M) ==
    /\ session' = M.session /\ settings' = M.settings /\ buf' = M.buf

-----------------------------------------------------------------------------
(* Receive handlers, one for each state *)

pseudo_id(p) == IF p.sid # NoAddr THEN p.sid ELSE IF p.siaddr # NoAddr THEN p.siaddr ELSE p.src

Eligible(p) ==
    p.ip # NoAddr /\ p.port = "bootps" /\ p.type \in {"offer", "bootp"} /\ p.pri >= 0

(* Mutant: the priority of the selected offer is not recorded *)
SelectFirst(s, p) ==
    IF Eligible(p) /\ p.pri >= s.priority
    THEN [s EXCEPT !.offer = p.ip, !.server = p.sid, !.no_pxedhcp = p.nopxe]
    ELSE s

select_offer(s, p) ==
    IF Eligible(p) /\ p.pri >= s.priority
    THEN [s EXCEPT !.offer = p.ip, !.server = p.sid, !.priority = p.pri,
                   !.no_pxedhcp = p.nopxe]
    ELSE s

select_proxy(M, p, b) ==
    IF pseudo_id(p) # NoAddr /\ p.client /\ p.pri >= M.session.proxy_priority
    THEN [dhcppkt_get(dhcppkt_put(M, M.session.proxy_offer), b) EXCEPT
            !.session = [@ EXCEPT !.proxy_server = pseudo_id(p),
                                  !.proxy_offer = b, !.proxy_priority = p.pri]]
    ELSE M

dhcp_discovery_rx(M, p, b) ==
    IF p.type = "offer" /\ ~p.valid THEN M
    ELSE LET N == select_proxy([M EXCEPT !.session = select_offer(@, p)], p, b)
             s == N.session
         IN  IF s.offer # NoAddr /\ (s.no_pxedhcp \/ s.proxy_offer # 0 \/ late(s))
             THEN [N EXCEPT !.session = dhcp_set_state(s, "request")] ELSE N

(* The lease is accepted: the settings of earlier sessions go, ProxyDHCP   *)
(* follows unless its answer is there already                              *)
accept_lease(M, p, b) ==
    LET A == [M EXCEPT !.session.local = p.ip]
        R == unregister_settings(
               unregister_settings(register_settings(A, b, "dhcp"), "proxydhcp"),
               "pxebs")
        s == R.session
    IN  IF s.proxy_offer = 0 \/ s.no_pxedhcp THEN Finish(R, "ok")
        ELSE IF R.buf[s.proxy_offer].opts
        THEN Finish(register_settings(R, s.proxy_offer, "proxydhcp"), "ok")
        ELSE [R EXCEPT !.session = dhcp_set_state(s, "proxy")]

dhcp_request_rx(M, p, b) ==
    IF p.port # "bootps" \/ p.sid # M.session.server THEN M
    ELSE IF p.type = "nak" THEN [M EXCEPT !.session = dhcp_defer(@)]
    ELSE IF p.type \notin {"bootp", "ack"} \/ p.ip # M.session.offer THEN M
    ELSE accept_lease(M, p, b)

dhcp_proxy_rx(M, p, b) ==
    IF /\ p.port = "pxe" /\ p.type \in {"offer", "ack"}
       /\ pseudo_id(p) = M.session.proxy_server /\ p.opts
    THEN Finish(register_settings(M, b, "proxydhcp"), "ok") ELSE M

dhcp_pxebs_accept(s, bs) == ~s.filtered \/ bs \in s.accept

dhcp_pxebs_rx(M, p, b) ==
    IF /\ p.port \in {"bootps", "pxe"} /\ p.type = "ack" /\ p.item
       /\ dhcp_pxebs_accept(M.session, pseudo_id(p))
    THEN Finish(register_settings(M, b, "pxebs"), "ok") ELSE M

state_rx(M, p, b) ==
    CASE M.session.state = "discover" -> dhcp_discovery_rx(M, p, b)
      [] M.session.state = "request" -> dhcp_request_rx(M, p, b)
      [] M.session.state = "proxy" -> dhcp_proxy_rx(M, p, b)
      [] M.session.state = "pxebs" -> dhcp_pxebs_rx(M, p, b)

(* The packet is copied to a buffer, handled in the current state, and the *)
(* reference of the handler dropped.  A packet with another transaction ID *)
(* or hardware address, or one there is no memory for, changes nothing.    *)
dhcp_deliver(p) ==
    LET b == CHOOSE x \in Bufs : buf[x].refs = 0
        held == [refs |-> 1, ip |-> p.ip, sid |-> p.sid, pseudo |-> pseudo_id(p),
                 opts |-> p.opts, n |-> number]
    IN  /\ Active /\ p.xid /\ \E x \in Bufs : buf[x].refs = 0
        /\ Become(dhcppkt_put(state_rx([Now EXCEPT !.buf[b] = held], p, b), b))
        /\ seen' = IF session.state = "discover" /\ Eligible(p)
                      /\ (p.type = "offer" => p.valid)
                   THEN seen \cup {[ip |-> p.ip, sid |-> p.sid, pri |-> p.pri]}
                   ELSE seen
        /\ IF p.type = "nak" /\ NakCopies > 0
           THEN owed > 0 /\ owed' = owed - 1 ELSE UNCHANGED owed
        /\ UNCHANGED <<number, tried>>

-----------------------------------------------------------------------------
(* Timer expiry *)

dhcp_discovery_expired(s, blocked) ==
    IF s.offer # NoAddr /\ late(s) THEN dhcp_set_state(s, "request")
    ELSE IF blocked THEN dhcp_defer(dhcp_tx(s)) ELSE dhcp_tx(s)

dhcp_request_expired(s) == dhcp_tx(s)

dhcp_proxy_expired(M) ==
    IF late(M.session) THEN Finish(M, "ok")
    ELSE [M EXCEPT !.session = dhcp_tx(@)]

dhcp_pxebs_expired(M) ==
    LET s == [M.session EXCEPT !.attempt = Tail(@)]
    IN  IF ~late(M.session) THEN [M EXCEPT !.session = dhcp_tx(@)]
        ELSE IF s.attempt # <<>>
        THEN [M EXCEPT !.session = dhcp_set_state(s, "pxebs")]
        ELSE Finish([M EXCEPT !.session = s], "timeout")

state_expired(M, blocked) ==
    CASE M.session.state = "discover" ->
           [M EXCEPT !.session = dhcp_discovery_expired(@, blocked)]
      [] M.session.state = "request" ->
           [M EXCEPT !.session = dhcp_request_expired(@)]
      [] M.session.state = "proxy" -> dhcp_proxy_expired(M)
      [] M.session.state = "pxebs" -> dhcp_pxebs_expired(M)

(* timer_expired doubles the timeout and reports failure past the maximum. *)
(* The transmission counter matters up to the deferral limit only.         *)
dhcp_timer_expired ==
    LET fail == 2 * session.timeout > MaxTimeout
        s == [session EXCEPT !.running = FALSE, !.used = 0, !.timeout = 2 * @]
        t == [s EXCEPT !.count = Min({@ + 1, MaxDeferrals + 1})]
    IN  /\ session.running /\ session.used >= session.timeout
        /\ \E blocked \in BOOLEAN :
             Become(IF fail THEN Finish([Now EXCEPT !.session = s], "timeout")
                    ELSE state_expired([Now EXCEPT !.session = t], blocked))
        /\ tried' = IF ~fail /\ session.state = "pxebs" /\ ~late(session)
                    THEN tried \cup {Head(session.attempt)} ELSE tried
        /\ owed' = IF ~fail /\ session.state = "request" THEN NakCopies ELSE owed
        /\ UNCHANGED <<number, seen>>

(* Time passes to the next moment at which the code can notice it, but not *)
(* further than PollLag past the moment the timer falls due                *)
Pass ==
    LET due == session.timeout - session.used
        limit == ElapsedLimit[session.state] + 1 - session.elapsed
        next == {d \in {due, limit} : d > 0 /\ d <= due + PollLag}
    IN  /\ Active /\ next # {}
        /\ session' = [session EXCEPT
             !.used = @ + Min(next),
             !.elapsed = Min({@ + Min(next), ElapsedLimit[session.state] + 1})]
        /\ UNCHANGED <<settings, buf, number, seen, owed, tried>>

-----------------------------------------------------------------------------
(* Starting and closing *)

Init ==
    /\ session = Zeroed /\ settings = [x \in Names |-> 0]
    /\ buf = [b \in Bufs |-> FreeBuf]
    /\ number = 0 /\ owed = 0 /\ seen = {} /\ tried = {}

start_dhcp ==
    /\ ~Active /\ number < MaxSessions
    /\ session' = dhcp_set_state(Zeroed, "discover")
    /\ number' = number + 1 /\ owed' = 0 /\ seen' = {} /\ tried' = {}
    /\ UNCHANGED <<settings, buf>>

(* A plan gives the discovery control flags, the multicast address, if     *)
(* any, and the servers listed for the wanted type                         *)
pxe_attempt(plan) ==
    (IF plan.multicast /\ plan.mcast # NoAddr THEN <<plan.mcast>> ELSE <<>>)
    \o (IF plan.broadcast THEN <<Broadcast>> ELSE <<>>) \o plan.list

start_pxebs(plan) ==
    /\ ~Active /\ number < MaxSessions
    /\ LET s == [Zeroed EXCEPT !.attempt = pxe_attempt(plan),
                               !.filtered = plan.known,
                               !.accept = Range(plan.list)]
       IN  session' = IF s.attempt = <<>> THEN dhcp_finished(s, "invalid")
                      ELSE dhcp_set_state(s, "pxebs")
    /\ number' = number + 1 /\ owed' = 0 /\ seen' = {} /\ tried' = {}
    /\ UNCHANGED <<settings, buf>>

(* The job that wanted the configuration goes away *)
job_close ==
    /\ Active /\ Become(Finish(Now, "cancelled"))
    /\ UNCHANGED <<number, seen, owed, tried>>

Next ==
    \/ start_dhcp \/ \E plan \in Plans : start_pxebs(plan)
    \/ \E p \in Packets : dhcp_deliver(p)
    \/ dhcp_timer_expired \/ Pass \/ job_close

Spec == Init /\ [][Next]_vars

-----------------------------------------------------------------------------
(* dhcp_discovery_rx, dhcp_request_rx: the lease that is registered is for *)
(* an address its server really offered, and no offer received during the  *)
(* same session had a higher priority                                      *)
LeaseIsBest ==
    LET b == buf[settings["dhcp"]]
    IN  settings["dhcp"] # 0 /\ b.n = number =>
          \E o \in seen : /\ o.ip = b.ip /\ o.sid = b.sid
                          /\ \A x \in seen : x.pri <= o.pri

(* dhcp_request_rx: once a lease is registered, no ProxyDHCP or boot       *)
(* server settings of an earlier session stay in force, and none at all    *)
(* when the selected offer says that ProxyDHCP is to be ignored            *)
NoStaleSettings ==
    settings["dhcp"] # 0 /\ buf[settings["dhcp"]].n = number =>
      /\ settings["pxebs"] = 0
      /\ settings["proxydhcp"] # 0 =>
           /\ ~session.no_pxedhcp
           /\ buf[settings["proxydhcp"]].n = number
           /\ buf[settings["proxydhcp"]].pseudo = session.proxy_server

(* dhcppkt_get, dhcppkt_put: a received packet lives exactly as long as    *)
(* the session or a settings block refers to it                            *)
PacketsHeld ==
    \A b \in Bufs :
        buf[b].refs = Cardinality({x \in Names : settings[x] = b})
                      + (IF session.proxy_offer = b THEN 1 ELSE 0)

(* "Give up waiting for ProxyDHCP before we reach the failure point": a    *)
(* session that has an offer does not time out in discovery, one that has  *)
(* a lease does not time out at all                                        *)
LeaseKept ==
    [][/\ session.state = "discover" /\ session.offer # NoAddr => session'.rc # "timeout"
       /\ session.local # NoAddr => session'.rc # "timeout"]_vars

(* dhcp_pxebs_expired: boot server discovery times out only after a        *)
(* request to every server of the attempt list                             *)
AllTried ==
    session.rc = "timeout" /\ session.filtered => session.accept \subseteq tried

(* dhcp_pxebs_accept: with the acceptance filter, the settings come from a *)
(* server of the list                                                      *)
KnownServer ==
    LET b == buf[settings["pxebs"]]
    IN  settings["pxebs"] # 0 /\ b.n = number /\ session.filtered =>
          b.pseudo \in session.accept
=============================================================================
