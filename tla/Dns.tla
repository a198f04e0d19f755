-------------------------------- MODULE Dns ---------------------------------
(***************************************************************************)
(* A DNS request (net/udp/dns.c): the search list, the types of question,  *)
(* aliases, retransmission to the next server.  Names are abstract: the    *)
(* name with each suffix of the search list, and at last without one, is   *)
(* Cand[1], Cand[2], ...  The zone the servers answer from is chosen at    *)
(* the start.  A query that was sent may be answered at any later time,    *)
(* once or several times, or never.                                        *)
(***************************************************************************)
EXTENDS Integers, Sequences, FiniteSets

CONSTANTS
    Zones,        \* sets of records [name, type, data]
    Cand,         \* the names to try, in the order of the search list
    TooLong,      \* names that do not fit in the buffer
    Ids,          \* what random() may return
    First,        \* the type asked first: "AAAA" if there are IPv6 servers
    Follows,      \* do servers add the records an alias points to?
    Glue,         \* names whose records come with every answer
    MaxCname,     \* DNS_MAX_CNAME_RECURSION
    Counts,       \* the values dns_count takes
    IndexWrap,    \* the number of values of the server index
    MaxSends,     \* bound on packets sent
    Late          \* may the timer expire before an answer, and answers come late or twice?

DnsAssumption ==
    /\ Cand # <<>> /\ 0 \in Ids /\ Ids \subseteq Nat /\ First \in {"A", "AAAA"}
    /\ {MaxCname, MaxSends} \subseteq Nat /\ Counts \subseteq Nat /\ Counts \ {0} # {}
    /\ IndexWrap \in Nat \ {0}
    /\ {Follows, Late} \subseteq BOOLEAN

VARIABLES
    zone,       \* the records of the servers
    dns,        \* the request: name, qtype of the question, search position, id,
                \* and whether the timer has been started with a delay
    timer,      \* is the retry timer running?
    dns_count,  \* the number of servers configured
    sent,       \* queries sent
    sends,      \* their number
    result      \* what the parent was told

vars == <<zone, dns, timer, dns_count, sent, sends, result>>

None == [status |-> "none"]
Failed(rc) == [status |-> rc]
Live == result = None

(* The search list is at its end: only the name without a suffix is left *)
Last == Len(Cand)

-----------------------------------------------------------------------------
(* Servers: external.  An answer holds the records of the name asked for,  *)
(* of the type asked for or an alias; a server that follows aliases adds   *)
(* the records they lead to.  Records of other names may come with it.     *)
Aliases(names) == {r.data : r \in {x \in zone : x.name \in names /\ x.type = "CNAME"}}

Chain(name) ==
    LET upto[i \in 0..Cardinality(zone)] ==
            IF i = 0 THEN {name} ELSE upto[i - 1] \cup Aliases(upto[i - 1])
    IN  upto[Cardinality(zone)]

Answer(q) ==
    {r \in zone : /\ r.name \in (IF Follows /\ q.qtype # "CNAME" THEN Chain(q.name) ELSE {q.name})
                  /\ r.type \in {q.qtype, "CNAME"}}
    \cup {r \in zone : r.name \in Glue}

-----------------------------------------------------------------------------
(* dns_question: the question for a name, with no identifier yet *)
dns_question(d, name) == [d EXCEPT !.name = name, !.qtype = First, !.id = 0]

(* The timer is started first, whether or not a server is left to ask *)
dns_send_packet(d) ==
    /\ timer' = TRUE /\ UNCHANGED <<zone, dns_count, result>>
    /\ IF dns_count = 0 THEN dns' = [d EXCEPT !.tried = TRUE] /\ UNCHANGED <<sent, sends>>
       ELSE \E id \in (IF d.id = 0 THEN Ids ELSE {d.id}) :
              /\ sends < MaxSends /\ sends' = sends + 1
              /\ dns' = [d EXCEPT !.id = id, !.tried = TRUE]
              /\ sent' = sent \cup {[id |-> id, name |-> d.name, qtype |-> d.qtype,
                                     server |-> d.index % dns_count]}

dns_done(d, r) ==
    /\ timer' = FALSE /\ result' = r /\ dns' = d
    /\ UNCHANGED <<zone, dns_count, sent, sends>>

-----------------------------------------------------------------------------
(* dns_resolv, when it has a server and a name that fits *)
Init ==
    /\ zone \in Zones /\ dns_count \in Counts \ {0} /\ Cand[1] \notin TooLong
    /\ dns = [name |-> Cand[1], qtype |-> First, id |-> 0, at |-> 1, index |-> 0, recursion |-> 0,
              tried |-> FALSE]
    /\ timer = TRUE /\ sent = {} /\ sends = 0 /\ result = None

(* Expiry is a failure when the retry timer says so (see RetryTimer), but   *)
(* never the first time: dns_resolv starts the timer without a delay       *)
dns_timer_expired ==
    /\ timer /\ (dns.tried => Late)
    /\ \/ dns.tried /\ dns_done(dns, Failed("ETIMEDOUT"))
       \/ dns_send_packet(IF dns.id = 0 THEN dns ELSE [dns EXCEPT !.index = (@ + 1) % IndexWrap])

(* Mutant: a record is taken whatever its name *)
ScanAnyName(d, rrs) ==
    LET upto[n \in 0..MaxCname + 1] ==
          LET p == IF n = 0 THEN [d |-> d, found |-> "more"] ELSE upto[n - 1]
              addr == {r \in rrs : r.type # "CNAME"}
              cname == {r \in rrs : r.name = p.d.name /\ r.type = "CNAME"}
              c == CHOOSE r \in cname : TRUE
          IN  CASE p.found # "more" -> p
                [] addr # {} -> [d |-> p.d, found |-> "address", rr |-> CHOOSE r \in addr : TRUE]
                [] addr = {} /\ cname = {} -> [d |-> p.d, found |-> "nothing"]
                [] OTHER -> [d |-> [dns_question(p.d, c.data) EXCEPT !.recursion = @ + 1, !.at = Last],
                             found |-> IF p.d.recursion + 1 > MaxCname THEN "ELOOP"
                                       ELSE IF c.data \in TooLong THEN "EINVAL" ELSE "more"]
    IN  upto[MaxCname + 1]

(* The search through the answers: again from the start with every alias.  *)
(* An alias ends the search list and sets up a question for its target.    *)
Scan(d, rrs) ==
    LET upto[n \in 0..MaxCname + 1] ==
          LET p == IF n = 0 THEN [d |-> d, found |-> "more"] ELSE upto[n - 1]
              mine == {r \in rrs : r.name = p.d.name}
              r == CHOOSE x \in mine : TRUE
          IN  CASE p.found # "more" -> p
                [] p.found = "more" /\ mine = {} -> [d |-> p.d, found |-> "nothing"]
                [] p.found = "more" /\ mine # {} /\ r.type # "CNAME" ->
                     [d |-> p.d, found |-> "address", rr |-> r]
                [] OTHER ->
                     [d |-> [dns_question(p.d, r.data) EXCEPT !.recursion = @ + 1, !.at = Last],
                      found |-> IF p.d.recursion + 1 > MaxCname THEN "ELOOP"
                                ELSE IF r.data \in TooLong THEN "EINVAL" ELSE "more"]
    IN  upto[MaxCname + 1]

(* Nothing was found: the type of the question that was open when the      *)
(* packet arrived says what to ask next                                    *)
NextQuestion(qtype, d) ==
    CASE qtype = "AAAA" -> dns_send_packet([d EXCEPT !.qtype = "A"])
      [] qtype = "A" -> dns_send_packet([d EXCEPT !.qtype = "CNAME"])
      [] qtype = "CNAME" ->
           IF qtype = First THEN dns_send_packet(d)
           ELSE IF d.at = Last THEN dns_done(d, Failed("ENXIO"))
           ELSE LET e == [dns_question(d, Cand[d.at + 1]) EXCEPT !.at = d.at + 1]
                IN  IF e.name \in TooLong THEN dns_done(e, Failed("EINVAL"))
                    ELSE dns_send_packet(e)

(* A response: only its identifier is compared with the query *)
dns_xfer_deliver ==
    \E q \in sent :
        LET s == Scan(dns, Answer(q))
        IN  /\ Live /\ q.id = dns.id
            /\ Late \/ (q.name = dns.name /\ q.qtype = dns.qtype)
            /\ CASE s.found = "address" ->
                      dns_done(s.d, [status |-> "ok", address |-> s.rr.data])
                 [] s.found \in {"ELOOP", "EINVAL"} -> dns_done(s.d, Failed(s.found))
                 [] s.found = "nothing" -> NextQuestion(dns.qtype, s.d)

(* The parent or the socket closes *)
dns_close == Live /\ dns_done(dns, Failed("closed"))

(* apply_dns_servers *)
apply_dns_servers ==
    /\ Live /\ dns_count' \in Counts \ {dns_count}
    /\ UNCHANGED <<zone, dns, timer, sent, sends, result>>

Next == dns_timer_expired \/ dns_xfer_deliver \/ dns_close \/ apply_dns_servers

Spec == Init /\ [][Next]_vars

-----------------------------------------------------------------------------
Addresses(names) == {r.data : r \in {x \in zone : x.name \in names /\ x.type # "CNAME"}}

(* dns_xfer_deliver: "each code path must either restart the timer by      *)
(* calling dns_send_packet(), or mark the DNS operation as complete by     *)
(* calling dns_done()"                                                     *)
TimerRuns == Live <=> timer

(* dns_xfer_deliver: whatever arrives in whatever order, and whichever     *)
(* identifiers coincide, the address belongs to the name with one of the   *)
(* suffixes                                                                *)
AddressIsRight ==
    result.status = "ok" =>
        \E i \in DOMAIN Cand : result.address \in Addresses(Chain(Cand[i]))

(* dns_xfer_deliver without retransmissions, from servers that follow      *)
(* aliases: the address is that of the first name of the search list that  *)
(* has one, and there is no address to be found when the request fails for *)
(* want of a record                                                        *)
FirstMatch ==
    LET has == {i \in DOMAIN Cand : Addresses(Chain(Cand[i])) # {}}
    IN  /\ result.status = "ok" =>
             \E i \in has : /\ result.address \in Addresses(Chain(Cand[i]))
                            /\ \A j \in has : i <= j
        /\ result.status = "ENXIO" => \A i \in has : \E j \in 1..i - 1 : Aliases({Cand[j]}) # {}
=============================================================================
