-------------------------------- MODULE Http --------------------------------
(***************************************************************************)
(* HTTP transactions (net/tcp/httpcore.c) over pooled connections          *)
(* (net/tcp/httpconn.c, core/pool.c).  A connection whose response asked   *)
(* for keep-alive goes to the pool and may be closed by the server at any  *)
(* time: before it is used again, while the next request is on its way or  *)
(* in the middle of a response.  TCP delivers in order and loses nothing   *)
(* but what a close cuts off (Tcp.tla); processes run round-robin          *)
(* (Process.tla), so a queued process runs before a response can arrive.   *)
(*                                                                         *)
(* One operation of the code often runs through both objects; the          *)
(* operators below transform one record with the whole state.              *)
(***************************************************************************)
EXTENDS Lists

CONSTANTS
    Https,       \* transactions
    Conns,       \* memory for connections
    Hosts,       \* servers
    Methods,     \* a subset of {"GET", "HEAD"}
    Size,        \* length of the file
    Replies,     \* the kinds of response the server gives
    MaxWaits     \* Retry-After responses a transaction gets at most

HttpAssumption ==
    /\ "none" \notin Https
    /\ Size \in Nat /\ MaxWaits \in Nat /\ Methods \subseteq {"GET", "HEAD"}
    /\ Replies \subseteq {"ok", "auth", "again", "retry", "redirect",
                            "error", "bad"}

VARIABLES
    http,        \* struct http_transaction
    conn,        \* struct http_connection, and what its server is doing
    pool         \* http_connection_pool, oldest first

vars == <<http, conn, pool>>

NoHttp == [status |-> "none", state |-> "none", method |-> "GET", host |-> 0,
           process |-> FALSE, timer |-> FALSE, auth |-> FALSE, waits |-> 0,
           got |-> 0, len |-> 0, remaining |-> 0, reply |-> "ok",
           framing |-> "length", length |-> 0, keep |-> FALSE]

(* What a server has still to send: the next part, the bytes of the body   *)
(* that are to come, whether there is a body, and what the header says     *)
Nothing == [part |-> "none", n |-> 0, body |-> FALSE, reply |-> "ok",
            framing |-> "length", keep |-> FALSE]

NoConn == [sock |-> FALSE, user |-> "none", host |-> 0, flags |-> {},
           timer |-> FALSE, pending |-> FALSE, left |-> Nothing]

Build(x, y, z) == [http |-> x, conn |-> y, pool |-> z]
S == Build(http, conn, pool)

Become(s) == http' = s.http /\ conn' = s.conn /\ pool' = s.pool

ConnOf(s, h) == {c \in Conns : s.conn[c].user = h}

-----------------------------------------------------------------------------
(* The pool *)

Places(s, c) == {i \in DOMAIN s.pool : s.pool[i] = c}

(* The pool without connection c, which need not be in it *)
Without(s, c) ==
    IF Places(s, c) = {} THEN s.pool
    ELSE list_del(s.pool, CHOOSE i \in Places(s, c) : TRUE)

(* Mutant: the flags of the previous use are kept *)
PoolDelKeepsFlags(s, c) ==
    Build(s.http,
          [s.conn EXCEPT ![c] = [@ EXCEPT !.timer = FALSE,
                                   !.flags = s.conn[c].flags \cup {"recycled"}]],
          Without(s, c))

pool_del(s, c) ==
    Build(s.http, [s.conn EXCEPT ![c] = [@ EXCEPT !.timer = FALSE,
                                                  !.flags = {"recycled"}]],
          Without(s, c))

pool_add(s, c) ==
    Build(s.http, [s.conn EXCEPT ![c].timer = TRUE], Append(s.pool, c))

pool_is_reopenable(s, c) ==
    "recycled" \in s.conn[c].flags /\ "alive" \notin s.conn[c].flags

(* http_conn_close of httpconn.c, the user's interface being unplugged; the *)
(* memory is free again once nothing refers to it                           *)
Drop(s, c) == [pool_del(s, c) EXCEPT !.conn[c] = NoConn]

Unplug(s, c) == [s EXCEPT !.conn[c].user = "none"]

(* The user has closed its interface *)
http_conn_xfer_close(s, c, rc) ==
    IF rc = 0 /\ "recyclable" \in s.conn[c].flags
    THEN pool_add(Unplug(s, c), c)
    ELSE Drop(s, c)

Disconnect(s, h, rc) ==
    IF ConnOf(s, h) = {} THEN s
    ELSE http_conn_xfer_close(s, CHOOSE c \in ConnOf(s, h) : TRUE, rc)

Matching(s, h) ==
    {i \in DOMAIN s.pool : s.conn[s.pool[i]].host = s.http[h].host}

(* "Reuse the most recent connection" *)
Recent(s, h) == {i \in Matching(s, h) : \A j \in Matching(s, h) : j <= i}

Free(s) == {c \in Conns : s.conn[c] = NoConn}

(* http_connect; fails unless ok when it has to open a new connection *)
CanConnect(s, h, ok) == Recent(s, h) # {} \/ (ok /\ Free(s) # {})

Reuse(s, h, c) == [pool_del(s, c) EXCEPT !.conn[c].user = h]

Connect(s, h, c) ==
    [s EXCEPT !.conn[c] =
       [NoConn EXCEPT !.sock = TRUE, !.user = h, !.host = s.http[h].host]]

http_connect(s, h) ==
    IF Recent(s, h) # {}
    THEN Reuse(s, h, s.pool[CHOOSE i \in Recent(s, h) : TRUE])
    ELSE Connect(s, h, CHOOSE c \in Free(s) : TRUE)

-----------------------------------------------------------------------------
(* Transactions *)

(* http_close of httpcore.c: nothing is left that could call the object *)
http_close(s, h, rc, status) ==
    [Disconnect(s, h, rc)
       EXCEPT !.http[h] = [NoHttp EXCEPT !.status = status, !.state = "closed",
                                         !.method = s.http[h].method,
                                         !.got = s.http[h].got]]

http_reopen(s, h, ok) ==
    LET t == Disconnect(s, h, 1) IN
    IF CanConnect(t, h, ok)
    THEN [http_connect(t, h) EXCEPT !.http[h] =
            [@ EXCEPT !.state = "request", !.process = TRUE, !.timer = FALSE]]
    ELSE http_close(t, h, 1, "stopped")

(* http_transfer_complete with its caller's treatment of an error.  The    *)
(* content is not encoded, so closing the transfer interface closes the    *)
(* transaction.                                                            *)
http_transfer_complete(s, h, ok) ==
    LET r == s.http[h]
        recycled == IF r.keep
                    THEN [s EXCEPT !.conn = [c \in Conns |->
                            IF s.conn[c].user = h
                            THEN [s.conn[c] EXCEPT !.flags = @ \cup {"recyclable"}]
                            ELSE s.conn[c]]]
                    ELSE s
        t == [Disconnect(recycled, h, 0) EXCEPT !.http[h].state = "null"]
        retry == r.reply \in {"again", "retry"} \/ (r.reply = "auth" /\ ~r.auth)
        again == [t EXCEPT !.http[h] =
                    [r EXCEPT !.state = "null", !.len = 0,
                              !.auth = @ \/ r.reply = "auth"]]
    IN CASE r.reply = "ok" -> http_close(t, h, 0, "ok")
         [] r.reply = "redirect" -> http_close(t, h, 0, "redirected")
         [] r.reply \in {"auth", "error"} /\ ~retry -> http_close(t, h, 1, "failed")
         [] retry /\ r.reply # "retry" -> http_reopen(again, h, ok)
         [] r.reply = "retry" -> [again EXCEPT !.http[h].timer = TRUE]

(* Mutant: a clean close ends any transfer *)
StateCloseShort(s, h, rc, ok) ==
    IF s.http[h].state = "identity" /\ rc = 0
    THEN http_transfer_complete(s, h, ok)
    ELSE http_close(s, h, 1, "failed")

(* The state's close method *)
StateClose(s, h, rc, ok) ==
    IF s.http[h].state = "identity" /\ rc = 0 /\ s.http[h].framing = "close"
    THEN http_transfer_complete(s, h, ok)
    ELSE http_close(s, h, 1, "failed")

-----------------------------------------------------------------------------
Init ==
    /\ http = [h \in Https |-> NoHttp] /\ conn = [c \in Conns |-> NoConn]
    /\ pool = <<>>

http_open(h, m, host, ok) ==
    LET s == [S EXCEPT !.http[h] = [NoHttp EXCEPT !.status = "running",
                !.state = "request", !.method = m, !.host = host, !.process = TRUE]]
    IN /\ http[h].status = "none"
       /\ Become(IF CanConnect(s, h, ok) THEN http_connect(s, h)
                 ELSE http_close(s, h, 1, "stopped"))

(* The first part of http_step with http_tx_request, when the connection   *)
(* has room: from the process, or because TCP announces room (window).     *)
(* A new connection has no room until it is established.                   *)
http_step(h, window, room) ==
    /\ http[h].state # "closed"
    /\ IF window THEN ConnOf(S, h) # {} /\ room ELSE http[h].process
    /\ http[h].state = "request" \/ ~window
    /\ ~room => \A c \in ConnOf(S, h) : "recycled" \notin conn[c].flags
    /\ LET tx == http[h].state = "request" /\ room IN
       /\ http' = [http EXCEPT ![h].process = IF window THEN @ ELSE FALSE,
                               ![h].state = IF tx THEN "headers" ELSE @]
       /\ conn' = [c \in Conns |-> IF tx /\ conn[c].user = h
                     THEN [conn[c] EXCEPT !.pending = TRUE] ELSE conn[c]]
       /\ UNCHANGED pool

(* http_tx_request cannot allocate a buffer *)
http_tx_nomem(h) ==
    /\ http[h].process /\ http[h].state = "request"
    /\ Become(http_close(S, h, 1, "stopped"))

http_expired(h, ok) ==
    /\ http[h].timer
    /\ Become(http_reopen(S, h, ok))

(* The opener closes the transfer, with or without an error *)
http_xfer_close(h, rc) ==
    /\ http[h].status = "running"
    /\ Become(http_close(S, h, rc, "stopped"))

-----------------------------------------------------------------------------
(* The server's responses: the header in two pieces, the body byte by      *)
(* byte, in one chunk if it is chunked                                     *)
NextPart(l) ==
    CASE l.part = "head"   -> "header"
      [] l.part = "header" -> IF ~l.body THEN "none"
                              ELSE IF l.framing = "chunked" THEN "chunk"
                              ELSE IF l.n > 0 THEN "data" ELSE "none"
      [] l.part = "chunk"  -> IF l.n > 0 THEN "data" ELSE "trailer"
      [] l.part = "data"   -> IF l.n > 1 THEN "data"
                              ELSE IF l.framing = "chunked" THEN "chunk" ELSE "none"
      [] OTHER             -> "none"

(* What is to come after the next part *)
Following(l) ==
    IF NextPart(l) = "none" THEN Nothing
    ELSE [l EXCEPT !.part = NextPart(l), !.n = IF l.part = "data" THEN @ - 1 ELSE @]

(* How long the body of a reply is *)
BodyLen(reply) == IF reply = "ok" THEN Size ELSE 1

server_reply(c, reply, framing, keep) ==
    LET h == conn[c].user IN
    /\ conn[c].pending
    /\ reply \in {"again", "retry"} => http[h].waits < MaxWaits
    /\ framing = "close" => ~keep
    /\ conn' = [conn EXCEPT ![c] =
         [@ EXCEPT !.pending = FALSE,
                   !.left = [part |-> "head", n |-> BodyLen(reply),
                             body |-> http[h].method # "HEAD", reply |-> reply,
                             framing |-> framing, keep |-> keep]]]
    /\ UNCHANGED <<http, pool>>

(* What the header lines say *)
http_parse_status(r, p) == [r EXCEPT !.reply = p.reply]

http_parse_transfer_encoding(r, p) == [r EXCEPT !.framing = p.framing]

http_parse_connection(r, p) == [r EXCEPT !.keep = p.keep]

http_parse_content_length(r, p) ==
    [r EXCEPT !.length = IF p.framing = "length" THEN BodyLen(p.reply) ELSE 0]

http_parse_retry_after(r, p) ==
    [r EXCEPT !.waits = IF p.reply \in {"again", "retry"} THEN @ + 1 ELSE @]

http_parse_headers(r, p) ==
    http_parse_retry_after(http_parse_content_length(http_parse_connection(
        http_parse_transfer_encoding(http_parse_status(r, p), p), p), p), p)

(* http_rx_headers once the last header line is in *)
http_rx_headers(s, h, p, ok) ==
    LET r == http_parse_headers(s.http[h], p)
        t == [s EXCEPT !.http[h] = r]
    IN IF p.reply = "bad" THEN http_close(t, h, 1, "failed")
       ELSE IF r.method = "HEAD" \/ (r.framing = "length" /\ r.length = 0)
       THEN http_transfer_complete(t, h, ok)
       ELSE [s EXCEPT !.http[h] = [r EXCEPT !.state =
               IF p.framing = "chunked" THEN "chunked" ELSE "identity"]]

(* Bytes for the opener: only those of a successful response *)
http_content_deliver(r, n) == IF r.reply = "ok" THEN r.got + n ELSE r.got

http_rx_transfer_identity(s, h, ok) ==
    LET r == [s.http[h] EXCEPT !.len = @ + 1,
                               !.got = http_content_deliver(s.http[h], 1)]
        t == [s EXCEPT !.http[h] = r]
    IN IF r.framing = "length" /\ r.len > r.length
       THEN http_close(t, h, 1, "failed")
       ELSE IF r.framing = "length" /\ r.len = r.length
       THEN http_transfer_complete(t, h, ok) ELSE t

http_rx_transfer_chunked(s, h, p) ==
    LET r == s.http[h] IN
    IF r.remaining > 0
    THEN [s EXCEPT !.http[h] = [r EXCEPT !.len = @ + 1, !.remaining = @ - 1,
                                         !.got = http_content_deliver(r, 1)]]
    ELSE [s EXCEPT !.http[h] = [r EXCEPT !.remaining = p.n,
                                         !.state = IF p.n = 0 THEN "trailers" ELSE @]]

(* http_conn_socket_deliver and http_conn_deliver *)
http_conn_deliver(c, ok) ==
    LET h == conn[c].user
        p == conn[c].left
        s == Build(http, [conn EXCEPT ![c] =
                            [conn[c] EXCEPT !.left = Following(p),
                                            !.flags = @ \cup {"alive"}]], pool)
    IN /\ p.part # "none" /\ h # "none" /\ ~http[h].process
       /\ Become(CASE http[h].state = "headers" /\ p.part = "head" -> s
                   [] http[h].state = "headers" /\ p.part = "header" -> http_rx_headers(s, h, p, ok)
                   [] http[h].state = "identity" -> http_rx_transfer_identity(s, h, ok)
                   [] http[h].state = "chunked" -> http_rx_transfer_chunked(s, h, p)
                   [] http[h].state = "trailers" -> http_transfer_complete(s, h, ok)
                   [] OTHER -> http_close(s, h, 1, "failed"))

-----------------------------------------------------------------------------
(* http_conn_socket_close: the server has closed the connection.  A server *)
(* that marks the end of a body by closing closes cleanly only there.      *)
CleanClose(c) == conn[c].left.part = "none" \/ conn[c].left.framing # "close"

http_conn_socket_close(c, rc, ok) ==
    LET h == conn[c].user IN
    /\ conn[c].sock
    /\ rc = 0 => CleanClose(c)
    /\ Become(IF h # "none"
              THEN IF pool_is_reopenable(S, c) THEN http_reopen(Drop(S, c), h, ok)
                   ELSE StateClose(Drop(S, c), h, rc, ok)
              ELSE Drop(S, c))

(* pool_expired and http_conn_expired *)
pool_expired(c) == conn[c].timer /\ Become(Drop(S, c))

Next ==
    \/ \E h \in Https, m \in Methods, host \in Hosts, ok \in BOOLEAN : http_open(h, m, host, ok)
    \/ \E h \in Https, window, room \in BOOLEAN : http_step(h, window, room)
    \/ \E h \in Https : http_tx_nomem(h)
    \/ \E h \in Https, ok \in BOOLEAN : http_expired(h, ok)
    \/ \E h \in Https, rc \in {0, 1} : http_xfer_close(h, rc)
    \/ \E c \in Conns, reply \in Replies, framing \in {"length", "chunked", "close"},
          keep \in BOOLEAN : server_reply(c, reply, framing, keep)
    \/ \E c \in Conns, ok \in BOOLEAN : http_conn_deliver(c, ok)
    \/ \E c \in Conns, rc \in {0, 1}, ok \in BOOLEAN : http_conn_socket_close(c, rc, ok)
    \/ \E c \in Conns : pool_expired(c)

Spec == Init /\ [][Next]_vars

-----------------------------------------------------------------------------
(* A pooled connection is open, has no user, and is clean: no request is   *)
(* outstanding on it and no byte of an earlier response is on its way, so  *)
(* the next user never reads what was meant for another.  It is kept in    *)
(* memory by its running expiry timer (struct pooled_connection).          *)
PoolIsClean ==
    \A c \in Conns :
      /\ conn[c].timer <=> Places(S, c) # {}
      /\ Places(S, c) # {} => /\ conn[c].sock /\ conn[c].user = "none"
                              /\ ~conn[c].pending /\ conn[c].left = Nothing

(* http_conn_close asserts that http->state is not NULL and http_step      *)
(* dereferences it: a transaction that has a connection or a queued        *)
(* process always has a state.                                             *)
StatePresent ==
    \A h \in Https :
      ConnOf(S, h) # {} \/ http[h].process =>
        http[h].state \in {"request", "headers", "identity", "chunked", "trailers"}

(* A transaction only uses connections to its own server (http_connect).   *)
RightHost ==
    \A h \in Https : \A c \in ConnOf(S, h) : conn[c].host = http[h].host

(* A recycled connection that its server has closed before it carried      *)
(* anything new never fails a transaction: the request is made again on    *)
(* another one (http_conn_socket_close, http_reopen).                      *)
StaleNeverFails ==
    [][\A h \in Https : \A c \in ConnOf(S, h) :
         conn[c].flags = {"recycled"} => http'[h].status # "failed"]_vars
=============================================================================
