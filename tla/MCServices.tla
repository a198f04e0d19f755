----------------------------- MODULE MCServices -----------------------------
(***************************************************************************)
(* The protocols that find, secure and fetch what is booted, for TLC:      *)
(* DHCP, DNS, TLS and the PeerDist block downloads.  A behaviour moves one *)
(* of them in one setting, its part, while the others rest in their        *)
(* initial states.                                                         *)
(*                                                                         *)
(*   dhcp      sessions with two DHCP servers, a ProxyDHCP server and      *)
(*             boot servers                                                *)
(*   dns       answers that come late or twice, and servers that change    *)
(*   prompt    every small zone, and answers that come in time             *)
(*   tls       two connections of one session                              *)
(*   again     one connection that is renegotiated twice                   *)
(*   peerblk   the stream of one block, wherever it is cut                 *)
(*   peermux   a content of two segments, one of three blocks of which one *)
(*             is skipped, in two slots                                    *)
(***************************************************************************)
EXTENDS MCData, Sequences

VARIABLES
    part,
    session, settings, buf, number, seen, owed, tried,
    zone, dns, timer, dns_count, sent, sends, result,
    conn, tls_session, list, window, up, down, server, cache,
    trim, at, start, end, pos, msg, buffer, file, decrypt, cipher_remaining,
    digest_remaining, digest, tries,
    mux, blk, queue, disc, content

dhcpVars == <<session, settings, buf, number, seen, owed, tried>>
dnsVars == <<zone, dns, timer, dns_count, sent, sends, result>>
tlsVars == <<conn, tls_session, list, window, up, down, server, cache>>
peerblkVars == <<trim, at, start, end, pos, msg, buffer, file, decrypt,
                 cipher_remaining, digest_remaining, digest, tries>>
peermuxVars == <<mux, blk, queue, disc, content>>

D == INSTANCE Dhcp WITH
       Packets <- AllPackets,
       Plans <- AllPlans, Bufs <- {1, 2, 3, 4}, MaxDeferrals <- 1,
       NakCopies <- 0, PollLag <- 2, MaxSessions <- 2

N == INSTANCE Dns WITH
       Zones <- FewZones, TooLong <- {"y"}, Counts <- {0, 2}, MaxSends <- 3,
       Late <- TRUE, Cand <- <<"h.s", "h">>, Ids <- {0, 1}, First <- "AAAA",
       Follows <- TRUE, Glue <- {"ns"}, MaxCname <- 2, IndexWrap <- 2
Q == INSTANCE Dns WITH
       Zones <- AllZones, TooLong <- {}, Counts <- {1}, MaxSends <- 7,
       Late <- FALSE, Cand <- <<"h.s", "h">>, Ids <- {0, 1}, First <- "AAAA",
       Follows <- TRUE, Glue <- {"ns"}, MaxCname <- 2, IndexWrap <- 2

T == INSTANCE Tls WITH session <- tls_session,
       Conns <- {1, 2}, MaxRequests <- 0, Tickets <- {TRUE},
       Names <- {TRUE, FALSE}, ClientCert <- FALSE, Secure <- {TRUE}, MaxData <- 1
A == INSTANCE Tls WITH session <- tls_session,
       Conns <- {1}, MaxRequests <- 2, Tickets <- {FALSE},
       Names <- {TRUE}, ClientCert <- TRUE, Secure <- {TRUE, FALSE}, MaxData <- 1

B == INSTANCE Peerblk WITH
       SizeSpace <- 64, BlockLen <- 5, Offset <- 2, FileLen <- 8, Blocksize <- 2,
       ChunkSize <- 4, Claims <- {0, 4, 5, 6, 8}, MaxTries <- 2, MaxFails <- 0,
       Plaintext <- TRUE
M == INSTANCE Peermux WITH
       Slots <- {1, 2}, Segments <- <<3, 1>>, Skipped <- {<<1, 1>>},
       Locations <- {"p", "q"}, RawMax <- 1, MaxCycles <- 2,
       DefaultTimeout <- 1, CountSpace <- 8, Faults <- {}

ASSUME ServicesAssumption ==
    /\ D!DhcpAssumption /\ N!DnsAssumption /\ Q!DnsAssumption
    /\ T!TlsAssumption /\ A!TlsAssumption
    /\ B!PeerblkAssumption /\ B!SizeSpaceAssumption /\ M!PeermuxAssumption

ServicesInit ==
    /\ part \in {"dhcp", "dns", "prompt", "tls", "again", "peerblk", "peermux"}
    /\ CASE part = "dns" -> N!Init
         [] part = "prompt" -> Q!Init
         [] OTHER -> Q!Init /\ zone = {}
    /\ B!Init /\ (part = "peerblk" \/ trim = <<0, 1>>)
    /\ IF part = "again" THEN A!Init ELSE T!Init
    /\ D!Init /\ M!Init

ServicesNext ==
    /\ UNCHANGED part
    /\ \/ /\ UNCHANGED <<dnsVars, tlsVars, peerblkVars, peermuxVars>>
          /\ part = "dhcp" /\ D!Next
       \/ /\ UNCHANGED <<dhcpVars, tlsVars, peerblkVars, peermuxVars>>
          /\ \/ part = "dns" /\ N!Next
             \/ part = "prompt" /\ Q!Next
       \/ /\ UNCHANGED <<dhcpVars, dnsVars, peerblkVars, peermuxVars>>
          /\ \/ part = "tls" /\ T!Next
             \/ part = "again" /\ A!Next
       \/ /\ UNCHANGED <<dhcpVars, dnsVars, tlsVars, peermuxVars>>
          /\ part = "peerblk" /\ B!Next
       \/ /\ UNCHANGED <<dhcpVars, dnsVars, tlsVars, peerblkVars>>
          /\ part = "peermux" /\ M!Next

ServicesSpec ==
    /\ ServicesInit
    /\ [][ServicesNext]_<<part, dhcpVars, dnsVars, tlsVars, peerblkVars, peermuxVars>>

-----------------------------------------------------------------------------
(* dhcp.c: the lease that is registered is for an address its server       *)
(* really offered and no offer of the session had a higher priority; no    *)
(* settings of an earlier session, of an ignored ProxyDHCP server or of an *)
(* unlisted boot server stay in force with it; packets live as long as the *)
(* session or a settings block refers to them; discovery gives up only     *)
(* after every listed boot server was asked, and not at all with a lease.  *)
LeaseIsBest ==
    /\ [](D!LeaseIsBest /\ D!NoStaleSettings /\ D!KnownServer /\ D!PacketsHeld /\ D!AllTried)
    /\ D!LeaseKept

(* dns.c: whatever arrives in whatever order, and whichever identifiers    *)
(* coincide, the address belongs to the name with one of the suffixes, and *)
(* the timer runs as long as the request does; without retransmissions it  *)
(* is the address of the first name of the search list that has one.       *)
AddressIsRight ==
    /\ part = "dns" => N!AddressIsRight /\ N!TimerRuns
    /\ part = "prompt" => Q!FirstMatch /\ Q!TimerRuns

(* tls.c: with servers that follow the protocol no record, Finished or     *)
(* renegotiation is ever found wrong at either end; what is to be sent is  *)
(* being driven, and whoever waits for the connection is told; the secret  *)
(* the next connection starts from is the one its server will find; and    *)
(* negotiations of a session that is not renegotiated are serialised.      *)
NegotiationSound ==
    /\ part # "again" => /\ T!NeverFails /\ T!Driven /\ T!ReadyIsTold
                         /\ T!SessionConsistent /\ T!DataProtected /\ T!Serialised
    /\ part = "again" => /\ A!NeverFails /\ A!Driven /\ A!ReadyIsTold
                         /\ A!SessionConsistent /\ A!DataProtected

(* peerblk.c, peermux.c: a block that ended well left its trimmed content  *)
(* in the file, each byte in its place, and no attempt wrote elsewhere; a  *)
(* content that ended well is whole and verified; until then something     *)
(* drives every block on, which goes to the origin server only after all   *)
(* known peers, and afterwards nothing is left behind.                     *)
BlocksExact ==
    /\ [](B!DeliveredIsExact /\ B!OwnPartOnly /\ B!BuffersCover)
    /\ [](/\ M!CompleteIsVerified /\ M!SomethingDrives /\ M!CountIsOpen
         /\ M!WaitsForPeers /\ M!NothingLeft)
    /\ M!EveryPeerTried
=============================================================================
