--------------------------- MODULE TransferProofs ---------------------------
(***************************************************************************)
(* Theorems about what is transferred: HTTP transactions over pooled       *)
(* connections (net/tcp/httpcore.c, net/tcp/httpconn.c, core/pool.c), and  *)
(* SAN devices (core/sanboot.c) with the override that sandev_read lays    *)
(* over what it has read.                                                  *)
(***************************************************************************)
EXTENDS Transfer, ListFacts

-----------------------------------------------------------------------------
(* HTTP transactions over pooled connections *)

(* The types of the three structures *)
Kinds == {"ok", "auth", "again", "retry", "redirect", "error", "bad"}
Framings == {"length", "chunked", "close"}
Responses ==
    [part : {"none", "head", "header", "chunk", "data", "trailer"}, n : Nat,
     body : BOOLEAN, reply : Kinds, framing : Framings, keep : BOOLEAN]
Connections ==
    [sock : BOOLEAN, user : Https \cup {"none"}, host : Hosts \cup {0},
     flags : SUBSET {"recycled", "recyclable", "alive"},
     timer : BOOLEAN, pending : BOOLEAN, left : Responses]
Ends == {"ok", "redirected", "failed", "stopped"}
Transactions ==
    [status : {"none", "running"} \cup Ends,
     state : {"none", "request", "headers", "identity", "chunked", "trailers",
              "null", "closed"},
     method : {"GET", "HEAD"}, host : Hosts \cup {0}, process : BOOLEAN,
     timer : BOOLEAN, auth : BOOLEAN, waits : Nat, got : Nat, len : Nat,
     remaining : Nat, reply : Kinds, framing : Framings, length : Nat,
     keep : BOOLEAN]
HttpStates ==
    [http : [Https -> Transactions], conn : [Conns -> Connections],
     pool : Seq(Conns)]

(* What a transaction in the middle of a body has been given and what its  *)
(* server has still to send make up the body                               *)
InBody(r, l) ==
    /\ r.method # "HEAD" /\ r.reply # "bad" /\ ~r.process
    /\ r.len + l.n = H!BodyLen(r.reply)
    /\ r.got = IF r.reply = "ok" THEN r.len ELSE 0
    /\ r.state = "identity" =>
         /\ r.framing # "chunked" /\ r.remaining = 0
         /\ l = H!Nothing \/ (l.part = "data" /\ l.n > 0 /\ l.framing = r.framing)
         /\ r.framing = "length" => r.length = H!BodyLen(r.reply) /\ r.len < r.length
    /\ r.state = "chunked" =>
         /\ l.framing = "chunked" /\ r.framing = "chunked"
         /\ \/ l.part = "data" /\ l.n > 0 /\ r.remaining = l.n
            \/ l.part = "chunk" /\ r.remaining = 0
    /\ r.state = "trailers" => l.part = "trailer" /\ l.n = 0 /\ r.remaining = 0

(* The header that is on its way answers the request of transaction r *)
InHeader(r, l) ==
    \/ l = H!Nothing
    \/ /\ l.part \in {"head", "header"} /\ l.n = H!BodyLen(l.reply)
       /\ l.body = (r.method # "HEAD")

(* Connection k serves transaction r *)
Serves(k, r) ==
    /\ k.sock /\ k.host = r.host /\ "recyclable" \notin k.flags
    /\ r.status = "running"
    /\ r.state \in {"request", "headers", "identity", "chunked", "trailers"}
    /\ r.state = "request" => k.left = H!Nothing
    /\ r.state = "headers" => InHeader(r, k.left)
    /\ r.state \in {"identity", "chunked", "trailers"} => InBody(r, k.left)
    /\ k.pending => r.state = "headers" /\ k.left = H!Nothing
    /\ "alive" \notin k.flags => /\ r.state \in {"request", "headers"}
                                 /\ k.left.part \in {"none", "head"}

(* A connection without a user that could be given to one *)
Idle(k) ==
    k.sock /\ k.timer /\ k.user = "none" /\ ~k.pending /\ k.left = H!Nothing

ConnOK(s, c) ==
    IF In(s.pool, c) THEN Idle(s.conn[c])
    ELSE IF s.conn[c].user = "none" THEN s.conn[c] = H!NoConn
    ELSE ~s.conn[c].timer /\ Serves(s.conn[c], s.http[s.conn[c].user])

(* A transaction by itself: what it has handed over, and when it has ended *)
TransOK(r) ==
    /\ r.status = "none" <=> r.state = "none"
    /\ r.status \in Ends <=> r.state = "closed"
    /\ r.state \in {"none", "request", "headers", "null"} =>
         r.got = 0 /\ r.len = 0 /\ r.remaining = 0
    /\ r.process => r.state \in {"request", "headers"}
    /\ r.timer => r.state = "null"
    /\ r.got <= Size /\ (r.method = "HEAD" => r.got = 0)
    /\ r.status = "ok" /\ r.method # "HEAD" => r.got = Size

OneEach(s) ==
    \A c, d \in Conns : s.conn[c].user = s.conn[d].user /\ s.conn[c].user # "none"
                          => c = d

HttpInv(s) ==
    /\ s \in HttpStates /\ Distinct(s.pool) /\ OneEach(s)
    /\ \A c \in Conns : ConnOK(s, c)
    /\ \A h \in Https : TransOK(s.http[h])

HttpInvariant == HttpInv(H!S)

(* The state when h is being worked on: everything else is in order, and   *)
(* the connection of h, if there is one, is open and in use                *)
Rest(s, h) ==
    /\ s \in HttpStates /\ Distinct(s.pool) /\ OneEach(s)
    /\ \A c \in Conns : IF s.conn[c].user = h
                        THEN ~In(s.pool, c) /\ s.conn[c].sock /\ ~s.conn[c].timer
                        ELSE ConnOK(s, c)
    /\ \A g \in Https \ {h} : TransOK(s.http[g])

(* ... and h has no connection *)
Apart(s, h) == Rest(s, h) /\ H!ConnOf(s, h) = {}

(* Only transaction h differs *)
Others(s, t, h) == \A g \in Https \ {h} : t.http[g] = s.http[g]

(* Only connection c and its place in the pool differ *)
Differs(s, t, c) ==
    /\ t \in HttpStates /\ Distinct(t.pool)
    /\ \A d \in Conns : d # c => /\ t.conn[d] = s.conn[d]
                                 /\ In(t.pool, d) <=> In(s.pool, d)

(* What may go to the pool from h is clean *)
Clean(s, h) ==
    \A c \in Conns : s.conn[c].user = h /\ "recyclable" \in s.conn[c].flags =>
                       ~s.conn[c].pending /\ s.conn[c].left = H!Nothing

(* A connection as http_connect provides it *)
Fresh(k, r) ==
    /\ k.sock /\ k.host = r.host /\ ~k.pending /\ k.left = H!Nothing
    /\ "recyclable" \notin k.flags /\ "alive" \notin k.flags

LEMMA BuildFields ==
  ASSUME NEW x, NEW y, NEW z
  PROVE  /\ H!Build(x, y, z).http = x /\ H!Build(x, y, z).conn = y
         /\ H!Build(x, y, z).pool = z
  BY DEF H!Build

LEMMA BuildType ==
  ASSUME NEW x \in [Https -> Transactions], NEW y \in [Conns -> Connections],
         NEW z \in Seq(Conns)
  PROVE  H!Build(x, y, z) \in HttpStates
  BY DEF H!Build, HttpStates

LEMMA StateFields ==
  ASSUME NEW s \in HttpStates
  PROVE  /\ s.http \in [Https -> Transactions]
         /\ s.conn \in [Conns -> Connections] /\ s.pool \in Seq(Conns)
         /\ s = H!Build(s.http, s.conn, s.pool)
  BY DEF HttpStates, H!Build

LEMMA NoConnType == H!NoConn \in Connections /\ H!Nothing \in Responses
  BY DEF H!NoConn, H!Nothing, Connections, Responses, Kinds, Framings

(* The pool without a connection *)
LEMMA WithoutFacts ==
  ASSUME NEW s \in HttpStates, NEW c \in Conns, Distinct(s.pool)
  PROVE  /\ H!Without(s, c) \in Seq(Conns) /\ Distinct(H!Without(s, c))
         /\ \A u : In(H!Without(s, c), u) <=> In(s.pool, u) /\ u # c
<1>1. s.pool \in Seq(Conns)
  BY Zenon, StateFields
<1>2. CASE H!Places(s, c) = {}
  <2>1. H!Without(s, c) = s.pool
    BY Zenon, <1>2 DEF H!Without
  <2>2. ~In(s.pool, c)
    BY Zenon, <1>2 DEF H!Places, In
  <2>3. QED BY Zenon, <1>1, <2>1, <2>2
<1>3. CASE H!Places(s, c) # {}
  <2> DEFINE i == CHOOSE i \in H!Places(s, c) : TRUE
  <2>1. i \in H!Places(s, c)
    BY Zenon, <1>3
  <2>2. H!Without(s, c) = H!list_del(s.pool, i)
    BY Zenon, <1>3 DEF H!Without
  <2>3. i \in DOMAIN s.pool /\ s.pool[i] = c
    BY Zenon, <2>1 DEF H!Places
  <2>4. H!list_del(s.pool, i) = list_del(s.pool, i)
    BY Zenon DEF H!list_del, list_del
  <2> HIDE DEF i
  <2>5. /\ list_del(s.pool, i) \in Seq(Conns) /\ Distinct(list_del(s.pool, i))
        /\ \A u : In(list_del(s.pool, i), u) <=> In(s.pool, u) /\ u # s.pool[i]
    BY Zenon, <1>1, <2>3, Delisted
  <2>6. H!Without(s, c) = list_del(s.pool, i) /\ s.pool[i] = c
    BY Zenon, <2>2, <2>3, <2>4
  <2>7. QED BY Zenon, <2>5, <2>6
<1>4. QED BY Zenon, <1>2, <1>3

(* A state with connection k at c and the pool z *)
LEMMA ConnUpdate ==
  ASSUME NEW s \in HttpStates, NEW c \in Conns, NEW k \in Connections,
         NEW z \in Seq(Conns), Distinct(z),
         \A u : u # c => (In(z, u) <=> In(s.pool, u))
  PROVE  LET t == H!Build(s.http, [s.conn EXCEPT ![c] = k], z) IN
         Differs(s, t, c) /\ t.http = s.http /\ t.conn[c] = k /\ t.pool = z
<1>1. /\ s.http \in [Https -> Transactions] /\ s.conn \in [Conns -> Connections]
  BY Zenon, StateFields
<1> DEFINE y == [s.conn EXCEPT ![c] = k]
           t == H!Build(s.http, y, z)
<1>2. y \in [Conns -> Connections] /\ y[c] = k /\ \A d \in Conns : d # c => y[d] = s.conn[d]
  BY <1>1
<1> HIDE DEF y
<1>3. t \in HttpStates
  BY Zenon, <1>1, <1>2, BuildType
<1>4. t.http = s.http /\ t.conn = y /\ t.pool = z
  BY BuildFields
<1> HIDE DEF t
<1>5. \A d \in Conns : d # c => (In(t.pool, d) <=> In(s.pool, d))
  BY Zenon, <1>4
<1>6. Differs(s, t, c) /\ t.http = s.http /\ t.conn[c] = k /\ t.pool = z
  BY Zenon, <1>2, <1>3, <1>4, <1>5 DEF Differs
<1>7. QED BY Zenon, <1>6 DEF t, y

(* http_conn_close *)
LEMMA Dropped ==
  ASSUME NEW s \in HttpStates, NEW c \in Conns, Distinct(s.pool)
  PROVE  LET t == H!Drop(s, c) IN
         /\ Differs(s, t, c) /\ t.http = s.http /\ t.conn[c] = H!NoConn
         /\ ~In(t.pool, c)
<1> DEFINE y == [s.conn EXCEPT ![c] = [@ EXCEPT !.timer = FALSE,
                                                !.flags = {"recycled"}]]
           z == H!Without(s, c)
<1>1. H!Drop(s, c) = [H!Build(s.http, y, z) EXCEPT !.conn[c] = H!NoConn]
  BY Zenon DEF H!Drop, H!pool_del
<1>2. s.conn \in [Conns -> Connections]
  BY Zenon, StateFields
<1>3. [y EXCEPT ![c] = H!NoConn] = [s.conn EXCEPT ![c] = H!NoConn]
  BY <1>2
<1>4. /\ z \in Seq(Conns) /\ Distinct(z)
      /\ \A u : In(z, u) <=> In(s.pool, u) /\ u # c
  BY Zenon, WithoutFacts
<1> HIDE DEF y, z
<1>5. [H!Build(s.http, y, z) EXCEPT !.conn[c] = H!NoConn]
        = H!Build(s.http, [y EXCEPT ![c] = H!NoConn], z)
  BY DEF H!Build
<1>6. H!Drop(s, c) = H!Build(s.http, [s.conn EXCEPT ![c] = H!NoConn], z)
  BY <1>1, <1>3, <1>5
<1> DEFINE t == H!Build(s.http, [s.conn EXCEPT ![c] = H!NoConn], z)
<1>a. H!NoConn \in Connections /\ \A u : u # c => (In(z, u) <=> In(s.pool, u))
  BY Zenon, <1>4, NoConnType
<1>7. Differs(s, t, c) /\ t.http = s.http /\ t.conn[c] = H!NoConn /\ t.pool = z
  BY <1>4, <1>a, ConnUpdate
<1> HIDE DEF t
<1>8. ~In(t.pool, c)
  BY Zenon, <1>4, <1>7
<1>9. H!Drop(s, c) = t
  BY Zenon, <1>6 DEF t
<1>10. QED BY <1>7, <1>8, <1>9

(* The user has closed its interface, and the connection goes to the pool *)
LEMMA Pooled ==
  ASSUME NEW s \in HttpStates, NEW c \in Conns, Distinct(s.pool), ~In(s.pool, c)
  PROVE  LET t == H!pool_add(H!Unplug(s, c), c) IN
         /\ Differs(s, t, c) /\ t.http = s.http /\ In(t.pool, c)
         /\ t.conn[c] = [s.conn[c] EXCEPT !.user = "none", !.timer = TRUE]
<1> DEFINE k == [s.conn[c] EXCEPT !.user = "none", !.timer = TRUE]
           y == [s.conn EXCEPT ![c].user = "none"]
           z == Append(s.pool, c)
<1>1. /\ s.http \in [Https -> Transactions] /\ s.conn \in [Conns -> Connections]
      /\ s.pool \in Seq(Conns) /\ s = H!Build(s.http, s.conn, s.pool)
  BY Zenon, StateFields
<1>2. H!Unplug(s, c) = H!Build(s.http, y, s.pool)
  <2>1. ASSUME NEW x, NEW w, NEW v
        PROVE  [H!Build(x, w, v) EXCEPT !.conn[c].user = "none"]
                 = H!Build(x, [w EXCEPT ![c].user = "none"], v)
    BY DEF H!Build
  <2>2. [H!Build(s.http, s.conn, s.pool) EXCEPT !.conn[c].user = "none"]
          = H!Build(s.http, y, s.pool)
    BY <2>1
  <2>3. QED BY Zenon, <1>1, <2>2 DEF H!Unplug
<1>3. [y EXCEPT ![c].timer = TRUE] = [s.conn EXCEPT ![c] = k]
  BY Zenon, <1>1 DEF Connections
<1>4. k \in Connections
  BY Zenon, <1>1 DEF Connections
<1>5. /\ z \in Seq(Conns) /\ Distinct(z)
      /\ \A u : In(z, u) <=> In(s.pool, u) \/ u = c
  BY Zenon, <1>1, Appended
<1> DEFINE t == H!pool_add(H!Unplug(s, c), c)
<1>6. t = H!Build(s.http, [y EXCEPT ![c].timer = TRUE], z)
  <2> HIDE DEF y
  <2>1. /\ H!Build(s.http, y, s.pool).http = s.http
        /\ H!Build(s.http, y, s.pool).conn = y
        /\ H!Build(s.http, y, s.pool).pool = s.pool
    BY BuildFields
  <2>2. QED BY <1>2, <2>1 DEF H!pool_add
<1> HIDE DEF t, k, y, z
<1>7. t = H!Build(s.http, [s.conn EXCEPT ![c] = k], z)
  BY Zenon, <1>3, <1>6
<1> DEFINE v == H!Build(s.http, [s.conn EXCEPT ![c] = k], z)
<1>a. \A u : u # c => (In(z, u) <=> In(s.pool, u))
  BY Zenon, <1>5
<1>8. Differs(s, v, c) /\ v.http = s.http /\ v.conn[c] = k /\ v.pool = z
  BY <1>4, <1>5, <1>a, ConnUpdate
<1> HIDE DEF v
<1>9. In(v.pool, c)
  BY Zenon, <1>5, <1>8
<1>10. t = v
  BY Zenon, <1>7 DEF v
<1>11. QED BY <1>8, <1>9, <1>10 DEF t, k

(* A record in place of another one *)
LEMMA PutForm ==
  ASSUME NEW s \in HttpStates, NEW h \in Https, NEW r \in Transactions
  PROVE  /\ [s EXCEPT !.http[h] = r] \in HttpStates
         /\ [s EXCEPT !.http[h] = r]
              = H!Build([s.http EXCEPT ![h] = r], s.conn, s.pool)
         /\ [s.http EXCEPT ![h] = r] \in [Https -> Transactions]
         /\ [s.http EXCEPT ![h] = r][h] = r
<1>1. s = H!Build(s.http, s.conn, s.pool) /\ s.http \in [Https -> Transactions]
      /\ s.conn \in [Conns -> Connections] /\ s.pool \in Seq(Conns)
  BY Zenon, StateFields
<1>2. ASSUME NEW x, NEW y, NEW z
      PROVE  [H!Build(x, y, z) EXCEPT !.http[h] = r]
               = H!Build([x EXCEPT ![h] = r], y, z)
  BY DEF H!Build
<1>3. [s.http EXCEPT ![h] = r] \in [Https -> Transactions]
      /\ [s.http EXCEPT ![h] = r][h] = r
  BY <1>1
<1>4. [s EXCEPT !.http[h] = r]
        = H!Build([s.http EXCEPT ![h] = r], s.conn, s.pool)
  <2>1. [H!Build(s.http, s.conn, s.pool) EXCEPT !.http[h] = r]
          = H!Build([s.http EXCEPT ![h] = r], s.conn, s.pool)
    BY Zenon, <1>2
  <2>2. QED BY Zenon, <1>1, <2>1
<1>5. H!Build([s.http EXCEPT ![h] = r], s.conn, s.pool) \in HttpStates
  BY Zenon, <1>1, <1>3, BuildType
<1>6. QED BY <1>3, <1>4, <1>5

(* Nothing but connection c and transaction h changes *)
LEMMA RestUpdate ==
  ASSUME NEW s, NEW t, NEW h \in Https, NEW c \in Conns, Rest(s, h), "none" # h,
         Differs(s, t, c), Others(s, t, h),
         s.conn[c].user \in {h, "none"},
         \/ t.conn[c].user = "none" /\ ConnOK(t, c)
         \/ /\ t.conn[c].user = h /\ ~In(t.pool, c)
            /\ t.conn[c].sock /\ ~t.conn[c].timer
            /\ \A d \in Conns : d # c => s.conn[d].user # h
  PROVE  Rest(t, h)
<1>1. s \in HttpStates /\ OneEach(s) /\ \A g \in Https \ {h} : TransOK(s.http[g])
  BY Zenon DEF Rest
<1>a. \A d \in Conns : d # c => /\ t.conn[d] = s.conn[d]
                                /\ In(t.pool, d) <=> In(s.pool, d)
  BY DEF Differs
<1>b. t.conn[c].user = "none" \/ (t.conn[c].user = h /\ \A d \in Conns : d # c => s.conn[d].user # h)
  OBVIOUS
<1>2. OneEach(t)
  <2>1. SUFFICES ASSUME NEW d \in Conns, NEW e \in Conns, d # e,
                        t.conn[d].user = t.conn[e].user, t.conn[d].user # "none"
                 PROVE  FALSE
    BY Zenon DEF OneEach
  <2>2. CASE d # c /\ e # c
    <3>1. t.conn[d] = s.conn[d] /\ t.conn[e] = s.conn[e]
      BY Zenon, <1>a, <2>2
    <3>2. s.conn[d].user = s.conn[e].user /\ s.conn[d].user # "none"
      BY Zenon, <2>1, <3>1
    <3>3. QED BY Zenon, <1>1, <2>1, <3>2 DEF OneEach
  <2>3. CASE d = c
    BY Zenon, <1>a, <1>b, <2>1, <2>3
  <2>4. CASE e = c
    BY Zenon, <1>a, <1>b, <2>1, <2>4
  <2>5. QED BY Zenon, <2>2, <2>3, <2>4
<1>3. \A g \in Https \ {h} : TransOK(t.http[g])
  BY Zenon, <1>1 DEF Others
<1>4. ASSUME NEW d \in Conns
      PROVE  IF t.conn[d].user = h
             THEN ~In(t.pool, d) /\ t.conn[d].sock /\ ~t.conn[d].timer
             ELSE ConnOK(t, d)
  <2>1. CASE d = c
    BY Zenon, <2>1
  <2>2. CASE d # c
    <3>1. t.conn[d] = s.conn[d] /\ (In(t.pool, d) <=> In(s.pool, d))
      BY Zenon, <1>a, <2>2
    <3>2. CASE s.conn[d].user = h
      BY Zenon, <3>1, <3>2 DEF Rest
    <3>3. CASE s.conn[d].user # h
      <4>1. ConnOK(s, d)
        BY Zenon, <3>3 DEF Rest
      <4>2. s.conn[d].user \in Https \cup {"none"}
        BY <1>1 DEF HttpStates, Connections
      <4>3. s.conn[d].user # "none" => t.http[s.conn[d].user] = s.http[s.conn[d].user]
        BY Zenon, <3>3, <4>2 DEF Others
      <4>4. ConnOK(t, d)
        BY Zenon, <3>1, <4>1, <4>3 DEF ConnOK
      <4>5. QED BY Zenon, <3>1, <3>3, <4>4
    <3>4. QED BY Zenon, <3>2, <3>3
  <2>3. QED BY Zenon, <2>1, <2>2
<1>5. t \in HttpStates /\ Distinct(t.pool)
  BY Zenon DEF Differs
<1>6. QED BY Zenon, <1>2, <1>3, <1>4, <1>5 DEF Rest

LEMMA RestOf ==
  ASSUME NEW s, NEW h \in Https, "none" # h, HttpInv(s)
  PROVE  /\ Rest(s, h) /\ TransOK(s.http[h])
         /\ \A c \in Conns : s.conn[c].user = h => Serves(s.conn[c], s.http[h])
<1>1. \A c \in Conns : s.conn[c].user = h =>
        /\ ~In(s.pool, c) /\ ~s.conn[c].timer
        /\ Serves(s.conn[c], s.http[h])
  BY Zenon DEF HttpInv, ConnOK, Idle
<1>2. QED BY Zenon, <1>1 DEF HttpInv, Rest, Serves

LEMMA Settled ==
  ASSUME NEW s, NEW h \in Https, "none" # h, Rest(s, h), TransOK(s.http[h]),
         \A c \in Conns : s.conn[c].user = h => Serves(s.conn[c], s.http[h])
  PROVE  HttpInv(s)
<1>1. \A c \in Conns : s.conn[c].user = h => ConnOK(s, c)
  BY Zenon DEF Rest, ConnOK
<1>2. QED BY Zenon, <1>1 DEF HttpInv, Rest

LEMMA Swapped ==
  ASSUME NEW s, NEW h \in Https, NEW r \in Transactions, Rest(s, h), "none" # h
  PROVE  LET t == [s EXCEPT !.http[h] = r] IN
         /\ Rest(t, h) /\ Others(s, t, h) /\ t.http[h] = r
         /\ t.http = [s.http EXCEPT ![h] = r]
         /\ t.conn = s.conn /\ t.pool = s.pool
<1> DEFINE t == [s EXCEPT !.http[h] = r]
<1>1. s \in HttpStates
  BY Zenon DEF Rest
<1>2. /\ t \in HttpStates /\ t = H!Build([s.http EXCEPT ![h] = r], s.conn, s.pool)
      /\ [s.http EXCEPT ![h] = r][h] = r
  BY Zenon, <1>1, PutForm
<1> HIDE DEF t
<1>3. t.http = [s.http EXCEPT ![h] = r] /\ t.conn = s.conn /\ t.pool = s.pool
  BY <1>2, BuildFields
<1>4. Others(s, t, h)
  BY <1>1, <1>3, StateFields DEF Others
<1>5. ASSUME NEW d \in Conns, s.conn[d].user # h
      PROVE  ConnOK(t, d)
  <2>1. ConnOK(s, d)
    BY Zenon, <1>5 DEF Rest
  <2>2. s.conn[d].user \in Https \cup {"none"}
    BY <1>1 DEF HttpStates, Connections
  <2>3. s.conn[d].user # "none" => t.http[s.conn[d].user] = s.http[s.conn[d].user]
    BY Zenon, <1>4, <1>5, <2>2 DEF Others
  <2>4. QED BY Zenon, <1>3, <2>1, <2>3 DEF ConnOK
<1>6. Rest(t, h)
  <2>1. OneEach(t) /\ Distinct(t.pool)
    BY Zenon, <1>3 DEF OneEach, Rest
  <2>2. \A g \in Https \ {h} : TransOK(t.http[g])
    BY Zenon, <1>4 DEF Others, Rest
  <2>3. \A d \in Conns : IF t.conn[d].user = h
             THEN ~In(t.pool, d) /\ t.conn[d].sock /\ ~t.conn[d].timer
             ELSE ConnOK(t, d)
    BY Zenon, <1>3, <1>5 DEF Rest
  <2>4. QED BY Zenon, <1>2, <2>1, <2>2, <2>3 DEF Rest
<1>7. QED BY Zenon, <1>2, <1>3, <1>4, <1>6 DEF t

(* http_connect takes a connection from the pool, or opens one *)
LEMMA Reused ==
  ASSUME NEW s \in HttpStates, NEW c \in Conns, NEW h \in Https, Distinct(s.pool)
  PROVE  LET t == H!Reuse(s, h, c) IN
         /\ Differs(s, t, c) /\ t.http = s.http /\ ~In(t.pool, c)
         /\ t.conn[c].user = h /\ ~t.conn[c].timer
         /\ t.conn[c].flags = {"recycled"} /\ t.conn[c].sock = s.conn[c].sock
         /\ t.conn[c].host = s.conn[c].host
         /\ t.conn[c].pending = s.conn[c].pending
         /\ t.conn[c].left = s.conn[c].left
<1> DEFINE k == [s.conn[c] EXCEPT !.timer = FALSE, !.flags = {"recycled"}, !.user = h]
           y == [s.conn EXCEPT ![c] = [@ EXCEPT !.timer = FALSE,
                                                !.flags = {"recycled"}]]
           z == H!Without(s, c)
<1>1. H!Reuse(s, h, c) = [H!Build(s.http, y, z) EXCEPT !.conn[c].user = h]
  BY Zenon DEF H!Reuse, H!pool_del
<1>2. s.conn \in [Conns -> Connections]
  BY Zenon, StateFields
<1>3. [y EXCEPT ![c].user = h] = [s.conn EXCEPT ![c] = k]
  BY Zenon, <1>2 DEF Connections
<1>4. /\ z \in Seq(Conns) /\ Distinct(z)
      /\ \A u : In(z, u) <=> In(s.pool, u) /\ u # c
  BY Zenon, WithoutFacts
<1>a. k \in Connections
  BY Zenon, <1>2 DEF Connections
<1>b. \A u : u # c => (In(z, u) <=> In(s.pool, u))
  BY Zenon, <1>4
<1> HIDE DEF y, z, k
<1>5. [H!Build(s.http, y, z) EXCEPT !.conn[c].user = h]
        = H!Build(s.http, [y EXCEPT ![c].user = h], z)
  BY DEF H!Build
<1>6. H!Reuse(s, h, c) = H!Build(s.http, [s.conn EXCEPT ![c] = k], z)
  BY <1>1, <1>3, <1>5
<1> DEFINE t == H!Build(s.http, [s.conn EXCEPT ![c] = k], z)
<1>7. Differs(s, t, c) /\ t.http = s.http /\ t.conn[c] = k /\ t.pool = z
  BY <1>4, <1>a, <1>b, ConnUpdate
<1> HIDE DEF t
<1>8. ~In(t.pool, c)
  BY Zenon, <1>4, <1>7
<1>9. H!Reuse(s, h, c) = t
  BY Zenon, <1>6 DEF t
<1>10. /\ k.user = h /\ ~k.timer /\ k.flags = {"recycled"}
       /\ k.sock = s.conn[c].sock /\ k.host = s.conn[c].host
       /\ k.pending = s.conn[c].pending /\ k.left = s.conn[c].left
  BY <1>2 DEF k, Connections
<1>11. QED BY <1>7, <1>8, <1>9, <1>10

LEMMA Opened ==
  ASSUME NEW s \in HttpStates, NEW c \in Conns, NEW h \in Https, Distinct(s.pool)
  PROVE  LET t == H!Connect(s, h, c) IN
         /\ Differs(s, t, c) /\ t.http = s.http /\ t.pool = s.pool
         /\ t.conn[c].user = h /\ ~t.conn[c].timer
         /\ Fresh(t.conn[c], s.http[h])
<1> DEFINE k == [H!NoConn EXCEPT !.sock = TRUE, !.user = h, !.host = s.http[h].host]
<1>1. /\ s.http \in [Https -> Transactions] /\ s.conn \in [Conns -> Connections]
      /\ s.pool \in Seq(Conns) /\ s = H!Build(s.http, s.conn, s.pool)
  BY Zenon, StateFields
<1>2. k \in Connections
  <2>1. s.http[h].host \in Hosts \cup {0}
    BY <1>1 DEF Transactions
  <2>2. QED BY Zenon, <2>1 DEF Connections, H!NoConn, H!Nothing, Responses, Kinds, Framings
<1>3. H!Connect(s, h, c) = [s EXCEPT !.conn[c] = k]
  BY Zenon DEF H!Connect
<1> HIDE DEF k
<1> DEFINE t == H!Build(s.http, [s.conn EXCEPT ![c] = k], s.pool)
<1>4. H!Connect(s, h, c) = t
  <2>1. ASSUME NEW x, NEW w, NEW v
        PROVE  [H!Build(x, w, v) EXCEPT !.conn[c] = k]
                 = H!Build(x, [w EXCEPT ![c] = k], v)
    BY DEF H!Build
  <2>2. [H!Build(s.http, s.conn, s.pool) EXCEPT !.conn[c] = k] = t
    BY <2>1
  <2>3. QED BY Zenon, <1>1, <1>3, <2>2
<1>5. Differs(s, t, c) /\ t.http = s.http /\ t.conn[c] = k /\ t.pool = s.pool
  BY <1>1, <1>2, ConnUpdate
<1> HIDE DEF t
<1>6. k.user = h /\ ~k.timer /\ Fresh(k, s.http[h])
  BY DEF k, Fresh, H!NoConn
<1>7. QED BY <1>4, <1>5, <1>6

(* Closing the interface to the connection: it is closed, or, if no part   *)
(* of a response is to come, pooled                                        *)
LEMMA Disconnects ==
  ASSUME NEW s, NEW h \in Https, NEW rc, "none" # h, Rest(s, h),
         rc = 0 => Clean(s, h)
  PROVE  /\ Apart(H!Disconnect(s, h, rc), h)
         /\ H!Disconnect(s, h, rc).http = s.http
<1>1. s \in HttpStates /\ Distinct(s.pool) /\ OneEach(s)
  BY Zenon DEF Rest
<1>2. CASE H!ConnOf(s, h) = {}
  BY Zenon, <1>2 DEF H!Disconnect, Apart
<1>3. CASE H!ConnOf(s, h) # {}
  <2> DEFINE c == CHOOSE c \in H!ConnOf(s, h) : TRUE
             t == H!http_conn_xfer_close(s, c, rc)
  <2>1. c \in H!ConnOf(s, h)
    BY Zenon, <1>3
  <2>2. H!Disconnect(s, h, rc) = t
    BY Zenon, <1>3 DEF H!Disconnect
  <2> HIDE DEF c
  <2>3. c \in Conns /\ s.conn[c].user = h
    BY Zenon, <2>1 DEF H!ConnOf
  <2>4. ~In(s.pool, c) /\ s.conn[c].sock /\ ~s.conn[c].timer
    BY Zenon, <2>3 DEF Rest
  <2>5. \A d \in Conns : d # c => s.conn[d].user # h
    BY Zenon, <1>1, <2>3 DEF OneEach
  <2>6. /\ Differs(s, t, c) /\ t.http = s.http /\ t.conn[c].user = "none"
        /\ ConnOK(t, c)
    <3>1. CASE rc = 0 /\ "recyclable" \in s.conn[c].flags
      <4>1. t = H!pool_add(H!Unplug(s, c), c)
        BY Zenon, <3>1 DEF H!http_conn_xfer_close
      <4> HIDE DEF t
      <4>2. /\ Differs(s, t, c) /\ t.http = s.http /\ In(t.pool, c)
            /\ t.conn[c] = [s.conn[c] EXCEPT !.user = "none", !.timer = TRUE]
        BY Zenon, <1>1, <2>3, <2>4, <4>1, Pooled
      <4>3. s.conn[c] \in Connections
        BY Zenon, <1>1, <2>3, StateFields
      <4>4. Idle(t.conn[c])
        BY <2>3, <2>4, <3>1, <4>2, <4>3 DEF Clean, Idle, Connections
      <4>5. QED BY Zenon, <4>2, <4>4 DEF ConnOK, Idle
    <3>2. CASE ~(rc = 0 /\ "recyclable" \in s.conn[c].flags)
      <4>1. t = H!Drop(s, c)
        BY Zenon, <3>2 DEF H!http_conn_xfer_close
      <4> HIDE DEF t
      <4>2. /\ Differs(s, t, c) /\ t.http = s.http /\ t.conn[c] = H!NoConn
            /\ ~In(t.pool, c)
        BY <1>1, <2>3, <4>1, Dropped
      <4>3. t.conn[c].user = "none"
        BY <4>2 DEF H!NoConn
      <4>4. QED BY Zenon, <4>2, <4>3 DEF ConnOK
    <3>3. QED BY Zenon, <3>1, <3>2
  <2> HIDE DEF t
  <2>7. Others(s, t, h)
    BY Zenon, <2>6 DEF Others
  <2>8. Rest(t, h)
    BY <2>3, <2>6, <2>7, RestUpdate
  <2>9. H!ConnOf(t, h) = {}
    BY Zenon, <2>5, <2>6 DEF H!ConnOf, Differs
  <2>10. QED BY <2>2, <2>6, <2>8, <2>9 DEF Apart
<1>4. QED BY Zenon, <1>2, <1>3

(* http_close *)
LEMMA Closes ==
  ASSUME NEW s, NEW h \in Https, NEW rc, NEW status \in Ends, "none" # h,
         Size \in Nat, Rest(s, h), rc = 0 => Clean(s, h),
         s.http[h].got <= Size, s.http[h].method = "HEAD" => s.http[h].got = 0,
         status = "ok" /\ s.http[h].method # "HEAD" => s.http[h].got = Size
  PROVE  LET t == H!http_close(s, h, rc, status) IN
         /\ HttpInv(t) /\ Others(s, t, h) /\ t.http[h].status = status
         /\ t.http[h].method = s.http[h].method /\ t.http[h].got = s.http[h].got
<1> DEFINE d == H!Disconnect(s, h, rc)
           r == [H!NoHttp EXCEPT !.status = status, !.state = "closed",
                                 !.method = s.http[h].method,
                                 !.got = s.http[h].got]
           t == [d EXCEPT !.http[h] = r]
<1>1. Apart(d, h) /\ d.http = s.http
  BY Zenon, Disconnects
<1>2. s.http[h] \in Transactions
  BY StateFields DEF Rest
<1>3. r \in Transactions
  BY ZenonT(40), <1>2 DEF Transactions, H!NoHttp, Kinds, Framings
<1>4. TransOK(r)
  BY <1>2 DEF TransOK, H!NoHttp, Transactions, Ends
<1>5. /\ r.status = status /\ r.method = s.http[h].method
      /\ r.got = s.http[h].got
  BY DEF H!NoHttp
<1>6. H!http_close(s, h, rc, status) = t
  BY Zenon DEF H!http_close
<1> HIDE DEF d, r
<1>7. Rest(d, h) /\ H!ConnOf(d, h) = {}
  BY Zenon, <1>1 DEF Apart
<1>8. /\ Rest(t, h) /\ Others(d, t, h) /\ t.http[h] = r
      /\ t.conn = d.conn /\ t.pool = d.pool
  BY <1>3, <1>7, Swapped
<1> HIDE DEF t
<1>9. \A c \in Conns : t.conn[c].user # h
  BY Zenon, <1>7, <1>8 DEF H!ConnOf
<1>10. HttpInv(t)
  <2>1. TransOK(t.http[h])
    BY Zenon, <1>4, <1>8
  <2>2. QED BY Zenon, <1>8, <1>9, <2>1, Settled
<1>11. Others(s, t, h)
  BY Zenon, <1>1, <1>8 DEF Others
<1>12. QED BY <1>5, <1>6, <1>8, <1>10, <1>11

(* http_connect *)
LEMMA Connects ==
  ASSUME NEW s, NEW h \in Https, NEW ok, "none" # h, Apart(s, h),
         H!CanConnect(s, h, ok)
  PROVE  LET t == H!http_connect(s, h) IN
         /\ Rest(t, h) /\ t.http = s.http
         /\ \A c \in Conns : t.conn[c].user = h => Fresh(t.conn[c], s.http[h])
<1> DEFINE t == H!http_connect(s, h)
<1>1. /\ s \in HttpStates /\ Distinct(s.pool) /\ Rest(s, h)
      /\ s.pool \in Seq(Conns) /\ s.http \in [Https -> Transactions]
      /\ s.conn \in [Conns -> Connections]
  BY Zenon, StateFields DEF Apart, Rest
<1>2. \A c \in Conns : s.conn[c].user # h
  BY Zenon DEF Apart, H!ConnOf
<1>3. \A c \in Conns : ConnOK(s, c)
  BY Zenon, <1>1, <1>2 DEF Rest
<1>4. ASSUME NEW c \in Conns, s.conn[c].user = "none", Differs(s, t, c),
             t.http = s.http, t.conn[c].user = h, ~In(t.pool, c),
             ~t.conn[c].timer, Fresh(t.conn[c], s.http[h])
      PROVE  /\ Rest(t, h)
             /\ \A d \in Conns : t.conn[d].user = h => Fresh(t.conn[d], s.http[h])
  <2> HIDE DEF t
  <2>1. Others(s, t, h) /\ t.conn[c].sock
    BY Zenon, <1>4 DEF Others, Fresh
  <2>2. Rest(t, h)
    BY <1>1, <1>2, <1>4, <2>1, RestUpdate
  <2>3. ASSUME NEW d \in Conns, t.conn[d].user = h
        PROVE  d = c
    BY <1>2, <1>4, <2>3 DEF Differs
  <2>4. QED BY Zenon, <1>4, <2>2, <2>3
<1>5. CASE H!Recent(s, h) # {}
  <2> DEFINE i == CHOOSE i \in H!Recent(s, h) : TRUE
             c == s.pool[i]
  <2>1. i \in H!Recent(s, h)
    BY Zenon, <1>5
  <2>2. t = H!Reuse(s, h, c)
    BY Zenon, <1>5 DEF H!http_connect
  <2> HIDE DEF i
  <2>3. i \in DOMAIN s.pool /\ s.conn[c].host = s.http[h].host
    BY Zenon, <2>1 DEF H!Recent, H!Matching
  <2>4. c \in Conns
    BY <1>1, <2>3, LenProperties, ElementOfSeq
  <2>5. In(s.pool, c)
    BY Zenon, <2>3 DEF In
  <2> HIDE DEF t, c
  <2>6. Idle(s.conn[c]) /\ s.conn[c] \in Connections
    <3>1. ConnOK(s, c)
      BY Zenon, <1>3, <2>4
    <3>2. Idle(s.conn[c])
      BY Zenon, <2>5, <3>1 DEF ConnOK
    <3>3. QED BY <1>1, <2>4, <3>2
  <2>7. /\ Differs(s, t, c) /\ t.http = s.http /\ ~In(t.pool, c)
        /\ t.conn[c].user = h /\ ~t.conn[c].timer
        /\ t.conn[c].flags = {"recycled"} /\ t.conn[c].sock = s.conn[c].sock
        /\ t.conn[c].host = s.conn[c].host
        /\ t.conn[c].pending = s.conn[c].pending
        /\ t.conn[c].left = s.conn[c].left
    BY <1>1, <2>2, <2>4, Reused
  <2>8. /\ s.conn[c].user = "none" /\ t.conn[c].user = h /\ ~t.conn[c].timer
        /\ Fresh(t.conn[c], s.http[h])
    BY <2>3, <2>6, <2>7 DEF Idle, Fresh
  <2>9. QED BY Zenon, <1>4, <2>4, <2>7, <2>8 DEF t
<1>6. CASE H!Recent(s, h) = {}
  <2> DEFINE c == CHOOSE c \in H!Free(s) : TRUE
  <2>1. c \in H!Free(s)
    BY Zenon, <1>6 DEF H!CanConnect
  <2>2. t = H!Connect(s, h, c)
    BY Zenon, <1>6 DEF H!http_connect
  <2> HIDE DEF c, t
  <2>3. c \in Conns /\ s.conn[c] = H!NoConn
    BY Zenon, <2>1 DEF H!Free
  <2>4. ~In(s.pool, c) /\ s.conn[c].user = "none"
    <3>1. ConnOK(s, c)
      BY Zenon, <1>3, <2>3
    <3>2. H!NoConn.user = "none" /\ H!NoConn.sock = FALSE
      BY DEF H!NoConn
    <3>3. QED BY Zenon, <2>3, <3>1, <3>2 DEF ConnOK, Idle
  <2>5. /\ Differs(s, t, c) /\ t.http = s.http /\ t.pool = s.pool
        /\ t.conn[c].user = h /\ ~t.conn[c].timer
        /\ Fresh(t.conn[c], s.http[h])
    BY <1>1, <2>2, <2>3, Opened
  <2>6. ~In(t.pool, c)
    BY Zenon, <2>4, <2>5
  <2>7. QED BY Zenon, <1>4, <2>3, <2>4, <2>5, <2>6 DEF t
<1>7. QED BY Zenon, <1>5, <1>6

(* http_reopen *)
LEMMA Reopens ==
  ASSUME NEW s, NEW h \in Https, NEW ok, "none" # h, Size \in Nat, Rest(s, h),
         s.http[h].status = "running", s.http[h].got = 0,
         s.http[h].len = 0, s.http[h].remaining = 0
  PROVE  LET t == H!http_reopen(s, h, ok) IN
         /\ HttpInv(t) /\ Others(s, t, h)
         /\ t.http[h].status \in {"running", "stopped"}
         /\ t.http[h].method = s.http[h].method /\ t.http[h].got = 0
<1> DEFINE d == H!Disconnect(s, h, 1)
<1>1. Apart(d, h) /\ d.http = s.http
  BY Disconnects
<1>2. Rest(d, h)
  BY Zenon, <1>1 DEF Apart
<1>3. s.http[h] \in Transactions
  BY StateFields DEF Rest
<1>4. CASE H!CanConnect(d, h, ok)
  <2> DEFINE e == H!http_connect(d, h)
             r == [s.http[h] EXCEPT !.state = "request", !.process = TRUE,
                                    !.timer = FALSE]
             t == [e EXCEPT !.http[h] = r]
  <2>1. /\ Rest(e, h) /\ e.http = s.http
        /\ \A c \in Conns : e.conn[c].user = h => Fresh(e.conn[c], s.http[h])
    <3>1. /\ Rest(e, h) /\ e.http = d.http
          /\ \A c \in Conns : e.conn[c].user = h => Fresh(e.conn[c], d.http[h])
      BY Zenon, <1>1, <1>4, Connects
    <3> HIDE DEF e, d
    <3>2. QED BY <1>1, <3>1
  <2>2. H!http_reopen(s, h, ok)
          = [e EXCEPT !.http[h] = [e.http[h] EXCEPT !.state = "request",
                                     !.process = TRUE, !.timer = FALSE]]
    BY Zenon, <1>4 DEF H!http_reopen
  <2> HIDE DEF e
  <2>3. H!http_reopen(s, h, ok) = t
    BY <2>1, <2>2
  <2>5. /\ r.status = "running" /\ r.method = s.http[h].method /\ r.got = 0
        /\ r.state = "request" /\ r.host = s.http[h].host
        /\ r.len = 0 /\ r.remaining = 0 /\ ~r.timer
    BY <1>3 DEF Transactions
  <2>4. r \in Transactions /\ TransOK(r)
    <3>1. r \in Transactions
      BY Zenon, <1>3 DEF Transactions
    <3> HIDE DEF r
    <3>2. TransOK(r)
      BY <2>5 DEF TransOK, Ends
    <3>3. QED BY <3>1, <3>2
  <2> HIDE DEF r
  <2>6. /\ Rest(t, h) /\ Others(e, t, h) /\ t.http[h] = r
        /\ t.conn = e.conn /\ t.pool = e.pool
    BY <2>1, <2>4, Swapped
  <2> HIDE DEF t
  <2>7. ASSUME NEW c \in Conns, t.conn[c].user = h
        PROVE  Serves(t.conn[c], t.http[h])
    <3>1. Fresh(t.conn[c], s.http[h])
      BY Zenon, <2>1, <2>6, <2>7
    <3>2. H!Nothing.part = "none"
      BY DEF H!Nothing
    <3>3. QED BY <2>5, <2>6, <3>1, <3>2 DEF Fresh, Serves
  <2>8. TransOK(t.http[h])
    BY Zenon, <2>4, <2>6
  <2>9. HttpInv(t)
    BY Zenon, <2>6, <2>7, <2>8, Settled
  <2>10. Others(s, t, h)
    BY Zenon, <2>1, <2>6 DEF Others
  <2>11. QED BY <2>3, <2>5, <2>6, <2>9, <2>10
<1>5. CASE ~H!CanConnect(d, h, ok)
  <2> DEFINE t == H!http_close(d, h, 1, "stopped")
  <2>1. H!http_reopen(s, h, ok) = t
    BY Zenon, <1>5 DEF H!http_reopen
  <2> HIDE DEF d
  <2>2. /\ HttpInv(t) /\ Others(d, t, h) /\ t.http[h].status = "stopped"
        /\ t.http[h].method = d.http[h].method /\ t.http[h].got = d.http[h].got
    <3>1. "stopped" \in Ends /\ "stopped" # "ok" /\ 1 # 0
      BY DEF Ends
    <3>2. d.http[h].got = 0 /\ d.http[h].got <= Size
      BY <1>1
    <3>3. QED BY <1>2, <3>1, <3>2, Closes
  <2> HIDE DEF t
  <2>3. Others(s, t, h)
    BY Zenon, <1>1, <2>2 DEF Others
  <2>4. QED BY <1>1, <2>1, <2>2, <2>3
<1>6. QED BY Zenon, <1>4, <1>5

(* Only the connection of h changes, and it stays in use *)
LEMMA Rewired ==
  ASSUME NEW s, NEW h \in Https, "none" # h, Rest(s, h),
         NEW y \in [Conns -> Connections],
         \A c \in Conns : IF s.conn[c].user = h
                          THEN y[c].user = h /\ y[c].sock /\ ~y[c].timer
                          ELSE y[c] = s.conn[c]
  PROVE  LET t == H!Build(s.http, y, s.pool) IN
         Rest(t, h) /\ t.http = s.http /\ t.conn = y /\ t.pool = s.pool
<1> DEFINE t == H!Build(s.http, y, s.pool)
<1>1. /\ s \in HttpStates /\ s.http \in [Https -> Transactions]
      /\ s.pool \in Seq(Conns)
  BY Zenon, StateFields DEF Rest
<1>2. t \in HttpStates
  BY Zenon, <1>1, BuildType
<1>3. t.http = s.http /\ t.conn = y /\ t.pool = s.pool
  BY BuildFields
<1> HIDE DEF t
<1>4. \A c \in Conns : y[c].user = s.conn[c].user
  OBVIOUS
<1>5. OneEach(t) /\ Distinct(t.pool)
  <2>1. \A c \in Conns : t.conn[c].user = s.conn[c].user
    BY Zenon, <1>3, <1>4
  <2>2. OneEach(t)
    BY <2>1 DEF OneEach, Rest
  <2>3. QED BY Zenon, <1>3, <2>2 DEF Rest
<1>6. \A g \in Https \ {h} : TransOK(t.http[g])
  BY Zenon, <1>3 DEF Rest
<1>7. ASSUME NEW c \in Conns
      PROVE  IF t.conn[c].user = h
             THEN ~In(t.pool, c) /\ t.conn[c].sock /\ ~t.conn[c].timer
             ELSE ConnOK(t, c)
  <2>1. CASE s.conn[c].user = h
    BY Zenon, <1>3, <2>1 DEF Rest
  <2>2. CASE s.conn[c].user # h
    <3>1. ConnOK(s, c) /\ t.conn[c] = s.conn[c]
      BY Zenon, <1>3, <2>2 DEF Rest
    <3>2. ConnOK(t, c)
      BY Zenon, <1>3, <3>1 DEF ConnOK
    <3>3. QED BY Zenon, <2>2, <3>1, <3>2
  <2>3. QED BY Zenon, <2>1, <2>2
<1>8. Rest(t, h)
  BY Zenon, <1>2, <1>5, <1>6, <1>7 DEF Rest
<1>9. QED BY Zenon, <1>3, <1>8 DEF t

(* Nothing is outstanding on the connection of h *)
Emptied(s, h) ==
    \A c \in Conns : s.conn[c].user = h =>
                       ~s.conn[c].pending /\ s.conn[c].left = H!Nothing

(* http_transfer_complete recycles the connection and then closes its      *)
(* interface to it                                                         *)
LEMMA Recycles ==
  ASSUME NEW s, NEW h \in Https, "none" # h, Rest(s, h), Emptied(s, h)
  PROVE  LET recycled == IF s.http[h].keep
                         THEN [s EXCEPT !.conn = [c \in Conns |->
                            IF s.conn[c].user = h
                            THEN [s.conn[c] EXCEPT !.flags = @ \cup {"recyclable"}]
                            ELSE s.conn[c]]]
                         ELSE s
             t == H!Disconnect(recycled, h, 0)
         IN  Apart(t, h) /\ t.http = s.http
<1> DEFINE y == [c \in Conns |->
                   IF s.conn[c].user = h
                   THEN [s.conn[c] EXCEPT !.flags = @ \cup {"recyclable"}]
                   ELSE s.conn[c]]
           u == IF s.http[h].keep THEN [s EXCEPT !.conn = y] ELSE s
<1>1. /\ s \in HttpStates /\ s.conn \in [Conns -> Connections]
      /\ s = H!Build(s.http, s.conn, s.pool)
  BY Zenon, StateFields DEF Rest
<1>2. y \in [Conns -> Connections]
  BY <1>1 DEF Connections
<1>3. \A c \in Conns :
        /\ IF s.conn[c].user = h THEN y[c].user = h /\ y[c].sock /\ ~y[c].timer
           ELSE y[c] = s.conn[c]
        /\ y[c].pending = s.conn[c].pending /\ y[c].left = s.conn[c].left
  BY <1>1 DEF Connections, Rest
<1> HIDE DEF y
<1>4. [s EXCEPT !.conn = y] = H!Build(s.http, y, s.pool)
  <2>1. ASSUME NEW x, NEW w, NEW v
        PROVE  [H!Build(x, w, v) EXCEPT !.conn = y] = H!Build(x, y, v)
    BY DEF H!Build
  <2>2. [H!Build(s.http, s.conn, s.pool) EXCEPT !.conn = y]
          = H!Build(s.http, y, s.pool)
    BY <2>1
  <2>3. QED BY <1>1, <2>2
<1>5. Rest(u, h) /\ u.http = s.http /\ Emptied(u, h)
  <2>1. CASE s.http[h].keep
    <3> DEFINE v == H!Build(s.http, y, s.pool)
    <3>1. Rest(v, h) /\ v.http = s.http /\ v.conn = y
      BY Zenon, <1>2, <1>3, Rewired
    <3>2. u = v
      BY Zenon, <1>4, <2>1
    <3> HIDE DEF u, v
    <3>3. Emptied(v, h)
      BY Zenon, <1>3, <3>1 DEF Emptied
    <3>4. QED BY <3>1, <3>2, <3>3
  <2>2. CASE ~s.http[h].keep
    BY Zenon, <2>2
  <2>3. QED BY Zenon, <2>1, <2>2
<1> HIDE DEF u
<1>6. Clean(u, h)
  BY Zenon, <1>5 DEF Clean, Emptied
<1>7. Apart(H!Disconnect(u, h, 0), h) /\ H!Disconnect(u, h, 0).http = u.http
  BY ZenonT(40), <1>5, <1>6, Disconnects
<1>8. QED BY Zenon, <1>5, <1>7 DEF u, y

(* http_transfer_complete *)
LEMMA Completes ==
  ASSUME NEW s, NEW h \in Https, NEW ok, "none" # h, Size \in Nat, Rest(s, h),
         Emptied(s, h), s.http[h].status = "running", ~s.http[h].process,
         s.http[h].remaining = 0, s.http[h].reply # "bad",
         s.http[h].got = IF s.http[h].reply = "ok" /\ s.http[h].method # "HEAD"
                         THEN Size ELSE 0
  PROVE  LET t == H!http_transfer_complete(s, h, ok) IN
         /\ HttpInv(t) /\ Others(s, t, h)
         /\ t.http[h].method = s.http[h].method /\ t.http[h].got = s.http[h].got
<1> DEFINE r == s.http[h]
           recycled == IF r.keep
                       THEN [s EXCEPT !.conn = [c \in Conns |->
                               IF s.conn[c].user = h
                               THEN [s.conn[c] EXCEPT !.flags = @ \cup {"recyclable"}]
                               ELSE s.conn[c]]]
                       ELSE s
           d == H!Disconnect(recycled, h, 0)
           u == [d EXCEPT !.http[h].state = "null"]
           retry == r.reply \in {"again", "retry"} \/ (r.reply = "auth" /\ ~r.auth)
           again == [u EXCEPT !.http[h] =
                       [r EXCEPT !.state = "null", !.len = 0,
                                 !.auth = @ \/ r.reply = "auth"]]
           t == H!http_transfer_complete(s, h, ok)
<1>1. t = CASE r.reply = "ok" -> H!http_close(u, h, 0, "ok")
            [] r.reply = "redirect" -> H!http_close(u, h, 0, "redirected")
            [] r.reply \in {"auth", "error"} /\ ~retry -> H!http_close(u, h, 1, "failed")
            [] retry /\ r.reply # "retry" -> H!http_reopen(again, h, ok)
            [] r.reply = "retry" -> [again EXCEPT !.http[h].timer = TRUE]
  BY Zenon DEF H!http_transfer_complete
<1>2. Apart(d, h) /\ d.http = s.http
  BY Zenon, Recycles
<1> HIDE DEF d
<1>3. r \in Transactions
  BY StateFields DEF Rest
<1> DEFINE p == [r EXCEPT !.state = "null"]
           q == [r EXCEPT !.state = "null", !.len = 0,
                          !.auth = @ \/ r.reply = "auth"]
<1>4. /\ p \in Transactions /\ p.got = r.got /\ p.method = r.method
      /\ p.status = "running" /\ p.remaining = 0 /\ p.state = "null" /\ ~p.process
  BY <1>3 DEF Transactions
<1>5. /\ q \in Transactions /\ q.got = r.got /\ q.method = r.method /\ q.len = 0
      /\ q.status = "running" /\ q.remaining = 0 /\ q.state = "null" /\ ~q.process
  BY ZenonT(40), <1>3 DEF Transactions
<1>6. u = [d EXCEPT !.http[h] = p]
  <2>1. u = [d EXCEPT !.http[h] = [d.http[h] EXCEPT !.state = "null"]]
    OBVIOUS
  <2>2. QED BY <1>2, <2>1
<1> HIDE DEF u, p
<1>7. /\ Rest(u, h) /\ Others(s, u, h) /\ u.http[h] = p
      /\ \A c \in Conns : u.conn[c].user # h
  <2>1. Rest(d, h) /\ \A c \in Conns : d.conn[c].user # h
    BY Zenon, <1>2 DEF Apart, H!ConnOf
  <2>2. /\ Rest(u, h) /\ Others(d, u, h) /\ u.http[h] = p
        /\ u.conn = d.conn
    BY <1>4, <1>6, <2>1, Swapped
  <2>3. QED BY Zenon, <1>2, <2>1, <2>2 DEF Others
<1>8. again = [u EXCEPT !.http[h] = q]
  OBVIOUS
<1> HIDE DEF again, q
<1>9. /\ Rest(again, h) /\ Others(s, again, h) /\ again.http[h] = q
      /\ \A c \in Conns : again.conn[c].user # h
  <2>1. /\ Rest(again, h) /\ Others(u, again, h) /\ again.http[h] = q
        /\ again.conn = u.conn
    BY <1>5, <1>7, <1>8, Swapped
  <2>2. QED BY Zenon, <1>7, <2>1 DEF Others
<1>a. Clean(u, h)
  BY Zenon, <1>7 DEF Clean
<1>b. ASSUME NEW rc, NEW status \in Ends, t = H!http_close(u, h, rc, status),
             status = "ok" => r.reply = "ok"
      PROVE  /\ HttpInv(t) /\ Others(s, t, h)
             /\ t.http[h].method = r.method /\ t.http[h].got = r.got
  <2>1. /\ u.http[h].got <= Size /\ (u.http[h].method = "HEAD" => u.http[h].got = 0)
        /\ (status = "ok" /\ u.http[h].method # "HEAD" => u.http[h].got = Size)
    BY SMTT(30), <1>4, <1>7, <1>b
  <2> DEFINE v == H!http_close(u, h, rc, status)
  <2>2. /\ HttpInv(v) /\ Others(u, v, h) /\ v.http[h].method = u.http[h].method
        /\ v.http[h].got = u.http[h].got
    BY <1>7, <1>a, <2>1, Closes
  <2> HIDE DEF v, t, r
  <2>3. t = v
    BY Zenon, <1>b DEF v
  <2>4. Others(s, v, h)
    BY Zenon, <1>7, <2>2 DEF Others
  <2>5. QED BY <1>4, <1>7, <2>2, <2>3, <2>4
<1>c. CASE r.reply = "ok"
  <2>1. t = H!http_close(u, h, 0, "ok")
    BY Zenon, <1>1, <1>c
  <2>2. QED BY <1>b, <1>c, <2>1 DEF Ends
<1>d. CASE r.reply = "redirect"
  <2>1. t = H!http_close(u, h, 0, "redirected")
    BY Zenon, <1>1, <1>d
  <2>2. QED BY <1>b, <1>d, <2>1 DEF Ends
<1>e. CASE r.reply \in {"auth", "error"} /\ ~retry
  <2>1. t = H!http_close(u, h, 1, "failed")
    BY Zenon, <1>1, <1>e
  <2>2. QED BY Zenon, <1>b, <1>e, <2>1 DEF Ends
<1>f. CASE retry /\ r.reply # "retry"
  <2>1. t = H!http_reopen(again, h, ok)
    BY <1>1, <1>f
  <2>2. r.got = 0
    BY Zenon, <1>f
  <2> DEFINE v == H!http_reopen(again, h, ok)
  <2> HIDE DEF t, r
  <2>3. /\ HttpInv(v) /\ Others(again, v, h)
        /\ v.http[h].method = again.http[h].method /\ v.http[h].got = 0
    <3>1. /\ again.http[h].status = "running" /\ again.http[h].got = 0
          /\ again.http[h].len = 0 /\ again.http[h].remaining = 0
      BY <1>5, <1>9, <2>2
    <3>2. QED BY <1>9, <3>1, Reopens
  <2> HIDE DEF v
  <2>4. Others(s, v, h)
    BY Zenon, <1>9, <2>3 DEF Others
  <2>5. t = v
    BY Zenon, <2>1 DEF v
  <2>6. QED BY Zenon, <1>5, <1>9, <2>2, <2>3, <2>4, <2>5 DEF r, t
<1>g. CASE r.reply = "retry"
  <2>1. t = [again EXCEPT !.http[h].timer = TRUE]
    BY <1>1, <1>g
  <2>2. r.got = 0
    BY <1>g
  <2> DEFINE w == [q EXCEPT !.timer = TRUE]
             v == [again EXCEPT !.http[h] = w]
  <2> HIDE DEF t, r
  <2>3. t = v
    BY <1>9, <2>1
  <2>4. /\ w \in Transactions /\ w.got = 0 /\ w.method = q.method /\ w.len = 0
        /\ w.status = "running" /\ w.remaining = 0 /\ w.state = "null" /\ ~w.process
    BY Zenon, <1>5, <2>2 DEF Transactions
  <2> HIDE DEF w
  <2>5. TransOK(w)
    BY <2>4 DEF TransOK, Ends
  <2>6. /\ Rest(v, h) /\ Others(again, v, h) /\ v.http[h] = w
        /\ v.conn = again.conn
    BY <1>9, <2>4, Swapped
  <2> HIDE DEF v
  <2>7. HttpInv(v)
    <3>1. TransOK(v.http[h]) /\ \A c \in Conns : v.conn[c].user # h
      BY Zenon, <1>9, <2>5, <2>6
    <3>2. QED BY Zenon, <2>6, <3>1, Settled
  <2>8. Others(s, v, h)
    BY Zenon, <1>9, <2>6 DEF Others
  <2>9. QED BY ZenonT(40), <1>5, <2>2, <2>3, <2>4, <2>6, <2>7, <2>8 DEF r, t
<1>h. r.reply \in {"ok", "auth", "again", "retry", "redirect", "error"}
  BY <1>3 DEF Transactions, Kinds
<1>i. QED BY <1>c, <1>d, <1>e, <1>f, <1>g, <1>h

(* What a step may do to a transaction *)
Moves(r, q) ==
    /\ r.status \in Ends => q = r
    /\ r.status = "running" => q.method = r.method /\ r.got <= q.got

(* h has a recycled connection that has not carried anything yet *)
Stale(s, h) ==
    \E c \in Conns : s.conn[c].user = h /\ s.conn[c].flags = {"recycled"}

Allowed(s, t) ==
    \A h \in Https : /\ Moves(s.http[h], t.http[h])
                     /\ Stale(s, h) => t.http[h].status # "failed"

(* The steps of the specification lead from s to t *)
Stepped == HttpInvariant' /\ Allowed(H!S, H!S')

LEMMA Current ==
  /\ H!S.http = http /\ H!S.conn = conn /\ H!S.pool = pool
  /\ H!S'.http = http' /\ H!S'.conn = conn' /\ H!S'.pool = pool'
  BY DEF H!S, H!Build

LEMMA Becoming ==
  ASSUME NEW t \in HttpStates, H!Become(t)
  PROVE  H!S' = t
<1>1. t = H!Build(t.http, t.conn, t.pool)
  BY Zenon, StateFields
<1>2. H!S' = H!Build(http', conn', pool')
  BY DEF H!S, H!Build
<1>3. http' = t.http /\ conn' = t.conn /\ pool' = t.pool
  BY Zenon DEF H!Become
<1>4. QED BY <1>1, <1>2, <1>3

LEMMA StepTo ==
  ASSUME HttpInvariant, NEW t, H!Become(t), HttpInv(t), "none" \notin Https,
         \A h \in Https : \/ t.http[h] = http[h]
                          \/ /\ Moves(http[h], t.http[h])
                             /\ Stale(H!S, h) => t.http[h].status # "failed"
  PROVE  Stepped
<1>1. H!S' = t
  BY Zenon, Becoming DEF HttpInv
<1>2. HttpInvariant'
  <2>1. HttpInvariant' = HttpInv(H!S')
    BY DEF HttpInvariant
  <2>2. QED BY <1>1, <2>1
<1>3. ASSUME NEW h \in Https
      PROVE  /\ Moves(H!S.http[h], t.http[h])
             /\ Stale(H!S, h) => t.http[h].status # "failed"
  <2>1. CASE t.http[h] = http[h]
    <3>1. /\ TransOK(http[h]) /\ http[h] \in Transactions
          /\ \A c \in Conns : conn[c].user = h => http[h].status = "running"
      <4>1. HttpInv(H!S) /\ h # "none"
        BY Zenon DEF HttpInvariant
      <4>2. /\ Rest(H!S, h) /\ TransOK(H!S.http[h])
            /\ \A c \in Conns : H!S.conn[c].user = h => Serves(H!S.conn[c], H!S.http[h])
        BY Zenon, <4>1, RestOf
      <4>3. H!S.http[h] \in Transactions
        BY Zenon, <4>2, StateFields DEF Rest
      <4>4. QED BY Zenon, <4>2, <4>3, Current DEF Serves
    <3>2. http[h].got \in Nat
      BY ZenonT(40), <3>1 DEF Transactions
    <3>3. Moves(http[h], http[h])
      BY <3>2 DEF Moves
    <3>4. Stale(H!S, h) => http[h].status # "failed"
      <4>1. Stale(H!S, h) => http[h].status = "running"
        BY Zenon, <3>1, Current DEF Stale
      <4>2. QED BY <4>1
    <3>5. QED BY Zenon, <2>1, <3>3, <3>4, Current
  <2>2. CASE t.http[h] # http[h]
    BY Zenon, <2>2, Current
  <2>3. QED BY Zenon, <2>1, <2>2
<1>4. Allowed(H!S, t)
  BY Zenon, <1>3 DEF Allowed
<1>5. QED BY <1>1, <1>2, <1>4 DEF Stepped

(* ... when it is a step of transaction h *)
LEMMA StepOf ==
  ASSUME HttpInvariant, "none" \notin Https, NEW h \in Https, NEW t,
         H!Become(t), HttpInv(t), Others(H!S, t, h), Moves(http[h], t.http[h]),
         Stale(H!S, h) => t.http[h].status # "failed"
  PROVE  Stepped
<1>1. ASSUME NEW g \in Https, g # h
      PROVE  t.http[g] = http[g]
  BY <1>1, Current DEF Others
<1>2. QED BY Zenon, <1>1, StepTo

(* What the invariant says of transaction h, and of the current state *)
LEMMA Here ==
  ASSUME HttpInvariant, "none" \notin Https, NEW h \in Https
  PROVE  /\ "none" # h /\ H!S \in HttpStates /\ Rest(H!S, h)
         /\ TransOK(http[h]) /\ http[h] \in Transactions
         /\ \A c \in Conns : conn[c].user = h => Serves(conn[c], http[h])
<1>1. HttpInv(H!S) /\ h # "none"
  BY Zenon DEF HttpInvariant
<1>2. /\ Rest(H!S, h) /\ TransOK(H!S.http[h])
      /\ \A c \in Conns : H!S.conn[c].user = h => Serves(H!S.conn[c], H!S.http[h])
  BY Zenon, <1>1, RestOf
<1>3. H!S.http[h] \in Transactions
  BY <1>2, StateFields DEF Rest
<1>4. QED BY Zenon, <1>1, <1>2, <1>3, Current DEF HttpInv

(* Closing a transaction *)
LEMMA CloseStep ==
  ASSUME HttpInvariant, H!HttpAssumption, NEW h \in Https, NEW rc,
         http[h].status = "running", H!Become(H!http_close(H!S, h, rc, "stopped"))
  PROVE  Stepped
<1>1. "none" \notin Https /\ Size \in Nat
  BY Zenon DEF H!HttpAssumption
<1>2. /\ "none" # h /\ H!S \in HttpStates /\ Rest(H!S, h)
      /\ TransOK(http[h]) /\ http[h] \in Transactions
      /\ \A c \in Conns : conn[c].user = h => Serves(conn[c], http[h])
  BY Zenon, <1>1, Here
<1>3. Clean(H!S, h)
  BY Zenon, <1>2, Current DEF Clean, Serves
<1>4. /\ http[h].got <= Size /\ (http[h].method = "HEAD" => http[h].got = 0)
      /\ http[h].got \in Nat
  BY Zenon, <1>2 DEF TransOK, Transactions
<1> DEFINE t == H!http_close(H!S, h, rc, "stopped")
<1>5. /\ HttpInv(t) /\ Others(H!S, t, h) /\ t.http[h].status = "stopped"
      /\ t.http[h].method = http[h].method /\ t.http[h].got = http[h].got
  <2>1. "stopped" \in Ends /\ "stopped" # "ok"
    BY DEF Ends
  <2> HIDE DEF t
  <2>2. H!S.http = http
    BY Zenon, Current
  <2> DEFINE s == H!S
  <2>3. /\ s.http[h].got <= Size /\ (s.http[h].method = "HEAD" => s.http[h].got = 0)
        /\ Rest(s, h) /\ Clean(s, h)
    BY Zenon, <1>2, <1>3, <1>4, <2>2
  <2> HIDE DEF s
  <2>4. /\ "none" # h /\ Size \in Nat /\ (rc = 0 => Clean(s, h))
        /\ "stopped" = "ok" /\ s.http[h].method # "HEAD" => s.http[h].got = Size
    BY Zenon, <1>1, <1>2, <2>1, <2>3
  <2>5. LET v == H!http_close(s, h, rc, "stopped") IN
        /\ HttpInv(v) /\ Others(s, v, h) /\ v.http[h].status = "stopped"
        /\ v.http[h].method = s.http[h].method /\ v.http[h].got = s.http[h].got
    BY SMTT(30), <2>1, <2>3, <2>4, Closes
  <2>6. QED BY Zenon, <2>2, <2>5 DEF s, t
<1> HIDE DEF t
<1>6. Moves(http[h], t.http[h])
  <2>1. http[h].status = "running" /\ http[h].status \notin Ends
    BY Zenon DEF Ends
  <2>2. http[h].got <= t.http[h].got
    BY Zenon, <1>4, <1>5, Ordered
  <2>3. QED BY Zenon, <1>5, <2>1, <2>2 DEF Moves
<1>7. t.http[h].status # "failed"
  BY <1>5
<1>8. QED BY Zenon, <1>1, <1>5, <1>6, <1>7, StepOf DEF t

LEMMA ExpiredStep ==
  ASSUME HttpInvariant, H!HttpAssumption, NEW h \in Https, NEW ok,
         H!http_expired(h, ok)
  PROVE  Stepped
<1>1. "none" \notin Https /\ Size \in Nat
  BY Zenon DEF H!HttpAssumption
<1>2. /\ "none" # h /\ Rest(H!S, h) /\ TransOK(http[h]) /\ http[h] \in Transactions
  BY Zenon, <1>1, Here
<1> DEFINE t == H!http_reopen(H!S, h, ok)
<1>3. http[h].timer /\ H!Become(t)
  BY Zenon DEF H!http_expired
<1>4. /\ http[h].status = "running" /\ http[h].got = 0 /\ http[h].len = 0
      /\ http[h].remaining = 0
  BY Zenon, <1>2, <1>3 DEF TransOK, Transactions
<1>5. /\ HttpInv(t) /\ Others(H!S, t, h)
      /\ t.http[h].status \in {"running", "stopped"}
      /\ t.http[h].method = http[h].method /\ t.http[h].got = 0
  <2> DEFINE s == H!S
  <2>1. /\ s.http[h].status = "running" /\ s.http[h].got = 0
        /\ s.http[h].len = 0 /\ s.http[h].remaining = 0 /\ s.http[h] = http[h]
    BY <1>4, Current
  <2>2. Rest(s, h)
    BY Zenon, <1>2
  <2> HIDE DEF s
  <2>3. LET v == H!http_reopen(s, h, ok) IN
        /\ HttpInv(v) /\ Others(s, v, h)
        /\ v.http[h].status \in {"running", "stopped"}
        /\ v.http[h].method = s.http[h].method /\ v.http[h].got = 0
    BY Zenon, <1>1, <1>2, <2>1, <2>2, Reopens
  <2>4. QED BY Zenon, <2>1, <2>3 DEF s
<1> HIDE DEF t
<1>6. Moves(http[h], t.http[h])
  <2>1. http[h].status = "running" /\ http[h].status \notin Ends
    BY Zenon, <1>4 DEF Ends
  <2>2. 0 \in Nat
    OBVIOUS
  <2>3. http[h].got <= t.http[h].got
    BY Zenon, <1>4, <1>5, <2>2, Ordered
  <2>4. QED BY Zenon, <1>5, <2>1, <2>3 DEF Moves
<1>7. t.http[h].status # "failed"
  BY <1>5
<1>8. QED BY Zenon, <1>1, <1>3, <1>5, <1>6, <1>7, StepOf

LEMMA OpenStep ==
  ASSUME HttpInvariant, H!HttpAssumption, NEW h \in Https, NEW m \in Methods,
         NEW host \in Hosts, NEW ok, H!http_open(h, m, host, ok)
  PROVE  Stepped
<1> DEFINE r == [H!NoHttp EXCEPT !.status = "running", !.state = "request",
                   !.method = m, !.host = host, !.process = TRUE]
           s == [H!S EXCEPT !.http[h] = r]
           t == IF H!CanConnect(s, h, ok) THEN H!http_connect(s, h)
                ELSE H!http_close(s, h, 1, "stopped")
<1>1. "none" \notin Https /\ Size \in Nat /\ m \in {"GET", "HEAD"}
  BY DEF H!HttpAssumption
<1>2. /\ "none" # h /\ Rest(H!S, h) /\ TransOK(http[h]) /\ http[h] \in Transactions
      /\ \A c \in Conns : conn[c].user = h => Serves(conn[c], http[h])
  BY Zenon, <1>1, Here
<1>3. http[h].status = "none" /\ H!Become(t)
  BY Zenon DEF H!http_open
<1>4. \A c \in Conns : conn[c].user # h
  <2>1. http[h].status # "running"
    BY <1>3
  <2>2. QED BY Zenon, <1>2, <2>1 DEF Serves
<1>5. r \in Transactions
  BY Zenon, <1>1 DEF H!NoHttp, Transactions, Kinds, Framings
<1>6. /\ r.status = "running" /\ r.state = "request" /\ r.got = 0 /\ r.len = 0
      /\ r.remaining = 0 /\ ~r.timer
  BY DEF H!NoHttp
<1> HIDE DEF r
<1>7. TransOK(r)
  BY <1>1, <1>6 DEF TransOK, Ends
<1>8. /\ Rest(s, h) /\ Others(H!S, s, h) /\ s.http[h] = r /\ s.conn = conn
  <2>1. /\ Rest(s, h) /\ Others(H!S, s, h) /\ s.http[h] = r /\ s.conn = H!S.conn
    BY <1>2, <1>5, Swapped
  <2>2. QED BY <2>1, Current
<1> HIDE DEF s
<1>9. Apart(s, h)
  BY Zenon, <1>4, <1>8 DEF Apart, H!ConnOf
<1>10. /\ HttpInv(t) /\ Others(H!S, t, h)
       /\ t.http[h].status \in {"running", "stopped"}
  <2>1. CASE H!CanConnect(s, h, ok)
    <3> DEFINE v == H!http_connect(s, h)
    <3>1. /\ Rest(v, h) /\ v.http = s.http
          /\ \A c \in Conns : v.conn[c].user = h => Fresh(v.conn[c], s.http[h])
      BY Zenon, <1>2, <1>9, <2>1, Connects
    <3>2. t = v
      BY Zenon, <2>1
    <3> HIDE DEF v, t
    <3>3. ASSUME NEW c \in Conns, v.conn[c].user = h
          PROVE  Serves(v.conn[c], v.http[h])
      <4>1. Fresh(v.conn[c], r) /\ v.http[h] = r
        BY Zenon, <1>8, <3>1, <3>3
      <4>2. H!Nothing.part = "none"
        BY DEF H!Nothing
      <4>3. QED BY <1>6, <4>1, <4>2 DEF Fresh, Serves
    <3>4. TransOK(v.http[h])
      BY Zenon, <1>7, <1>8, <3>1
    <3>5. HttpInv(v)
      BY Zenon, <1>2, <3>1, <3>3, <3>4, Settled
    <3>6. Others(H!S, v, h) /\ v.http[h].status = "running"
      BY Zenon, <1>6, <1>8, <3>1 DEF Others
    <3>7. QED BY <3>2, <3>5, <3>6
  <2>2. CASE ~H!CanConnect(s, h, ok)
    <3> DEFINE v == H!http_close(s, h, 1, "stopped")
    <3>1. t = v
      BY Zenon, <2>2
    <3> HIDE DEF t
    <3>2. "stopped" \in Ends /\ "stopped" # "ok" /\ 1 # 0 /\ 0 <= Size
      BY SMTT(30), <1>1 DEF Ends
    <3>3. HttpInv(v) /\ Others(s, v, h) /\ v.http[h].status = "stopped"
      BY <1>1, <1>2, <1>6, <1>8, <3>2, Closes
    <3> HIDE DEF v
    <3>4. Others(H!S, v, h)
      BY Zenon, <1>8, <3>3 DEF Others
    <3>5. QED BY <3>1, <3>3, <3>4
  <2>3. QED BY Zenon, <2>1, <2>2
<1> HIDE DEF t
<1>11. Moves(http[h], t.http[h])
  BY <1>3 DEF Moves, Ends
<1>12. t.http[h].status # "failed"
  BY <1>10
<1>13. QED BY Zenon, <1>1, <1>3, <1>10, <1>11, <1>12, StepOf

(* A step that leaves transaction h in use *)
LEMMA UseStep ==
  ASSUME HttpInvariant, "none" \notin Https, NEW h \in Https,
         http'[h] \in Transactions, conn' \in [Conns -> Connections],
         http' = [http EXCEPT ![h] = http'[h]], pool' = pool,
         TransOK(http'[h]), Moves(http[h], http'[h]), http'[h].status # "failed",
         \A c \in Conns : IF conn[c].user = h
                          THEN /\ conn'[c].user = h /\ ~conn'[c].timer
                               /\ Serves(conn'[c], http'[h])
                          ELSE conn'[c] = conn[c]
  PROVE  Stepped
<1> DEFINE q == http'[h]
           y == conn'
<1> HIDE DEF q, y
<1>a. /\ q \in Transactions /\ y \in [Conns -> Connections]
      /\ http' = [http EXCEPT ![h] = q] /\ conn' = y
      /\ TransOK(q) /\ Moves(http[h], q) /\ q.status # "failed"
  BY Zenon DEF q, y
<1>b. \A c \in Conns : IF conn[c].user = h
                       THEN y[c].user = h /\ ~y[c].timer /\ Serves(y[c], q)
                       ELSE y[c] = conn[c]
  BY Zenon DEF q, y
<1>1. "none" # h /\ Rest(H!S, h) /\ H!S \in HttpStates
  BY Zenon, Here
<1> DEFINE v == H!Build(http, y, pool)
           t == [v EXCEPT !.http[h] = q]
<1>2. Rest(v, h) /\ v.http = http /\ v.conn = y /\ v.pool = pool
  <2> DEFINE s == H!S
             w == H!Build(s.http, y, s.pool)
  <2>1. s.http = http /\ s.conn = conn /\ s.pool = pool
    BY Zenon, Current
  <2> HIDE DEF s
  <2>2. \A c \in Conns : IF s.conn[c].user = h
                         THEN y[c].user = h /\ y[c].sock /\ ~y[c].timer
                         ELSE y[c] = s.conn[c]
    BY Zenon, <1>b, <2>1 DEF Serves
  <2>3. Rest(s, h)
    BY Zenon, <1>1 DEF s
  <2>4. Rest(w, h) /\ w.http = s.http /\ w.conn = y /\ w.pool = s.pool
    BY Zenon, <1>1, <1>a, <2>2, <2>3, Rewired
  <2>5. v = w
    BY <2>1
  <2> HIDE DEF v, w
  <2>6. QED BY <2>1, <2>4, <2>5
<1> HIDE DEF v
<1>3. /\ Rest(t, h) /\ Others(v, t, h) /\ t.http[h] = q
      /\ t.http = [http EXCEPT ![h] = q] /\ t.conn = y /\ t.pool = pool
  BY <1>1, <1>2, <1>a, Swapped
<1> HIDE DEF t
<1>5. H!Become(t)
  BY <1>3, <1>a DEF H!Become
<1>6. HttpInv(t)
  <2>1. \A c \in Conns : t.conn[c].user = h => Serves(t.conn[c], t.http[h])
    <3>1. \A c \in Conns : y[c].user = h => conn[c].user = h
      BY <1>b
    <3>2. QED BY Zenon, <1>3, <1>b, <3>1
  <2>2. TransOK(t.http[h])
    BY Zenon, <1>3, <1>a
  <2>3. QED BY Zenon, <1>1, <1>3, <2>1, <2>2, Settled
<1>7. Others(H!S, t, h)
  BY <1>2, <1>3, Current DEF Others
<1>8. Moves(http[h], t.http[h]) /\ t.http[h].status # "failed"
  BY Zenon, <1>3, <1>a
<1>9. QED BY Zenon, <1>5, <1>6, <1>7, <1>8, StepOf

(* The length of a body is a number *)
LEMMA BodyLenNat ==
  ASSUME H!HttpAssumption, NEW reply
  PROVE  H!BodyLen(reply) \in Nat
  BY DEF H!BodyLen, H!HttpAssumption

(* The connection c of the current state *)
LEMMA ConnHere ==
  ASSUME HttpInvariant, NEW c \in Conns
  PROVE  /\ conn \in [Conns -> Connections] /\ conn[c] \in Connections
         /\ http \in [Https -> Transactions]
         /\ ConnOK(H!S, c)
         /\ conn[c].user # "none" =>
              /\ conn[c].user \in Https /\ ~conn[c].timer
              /\ Serves(conn[c], http[conn[c].user])
              /\ \A d \in Conns : conn[d].user = conn[c].user => d = c
<1>1. HttpInv(H!S) /\ H!S \in HttpStates
  BY Zenon DEF HttpInvariant, HttpInv
<1>2. /\ conn \in [Conns -> Connections] /\ conn[c] \in Connections
      /\ http \in [Https -> Transactions]
  BY <1>1, StateFields, Current
<1>3. ConnOK(H!S, c)
  BY Zenon, <1>1 DEF HttpInv
<1>4. ASSUME conn[c].user # "none"
      PROVE  /\ conn[c].user \in Https /\ ~conn[c].timer
             /\ Serves(conn[c], http[conn[c].user])
             /\ \A d \in Conns : conn[d].user = conn[c].user => d = c
  <2>1. conn[c].user \in Https
    BY <1>2, <1>4 DEF Connections
  <2>2. ~conn[c].timer /\ Serves(conn[c], http[conn[c].user])
    BY Zenon, <1>3, <1>4, Current DEF ConnOK, Idle
  <2>3. \A d \in Conns : conn[d].user = conn[c].user => d = c
    BY Zenon, <1>1, <1>4, Current DEF HttpInv, OneEach
  <2>4. QED BY Zenon, <2>1, <2>2, <2>3
<1>5. QED BY Zenon, <1>2, <1>3, <1>4

LEMMA ReplyStep ==
  ASSUME HttpInvariant, H!HttpAssumption, NEW c \in Conns, NEW reply \in Replies,
         NEW framing \in Framings, NEW keep \in BOOLEAN,
         H!server_reply(c, reply, framing, keep)
  PROVE  Stepped
<1> DEFINE h == conn[c].user
           r == http[h]
           l == [part |-> "head", n |-> H!BodyLen(reply),
                 body |-> r.method # "HEAD", reply |-> reply,
                 framing |-> framing, keep |-> keep]
           k == [conn[c] EXCEPT !.pending = FALSE, !.left = l]
           y == [conn EXCEPT ![c] = k]
<1>1. /\ conn[c].pending /\ conn' = y /\ http' = http /\ pool' = pool
  BY Zenon DEF H!server_reply
<1>2. /\ conn \in [Conns -> Connections] /\ conn[c] \in Connections
      /\ http \in [Https -> Transactions] /\ ConnOK(H!S, c)
      /\ h # "none" =>
              /\ h \in Https /\ ~conn[c].timer /\ Serves(conn[c], http[h])
              /\ \A d \in Conns : conn[d].user = h => d = c
  BY Zenon, ConnHere
<1>3. h # "none"
  <2>1. ~H!NoConn.pending
    BY DEF H!NoConn
  <2>2. QED BY Zenon, <1>1, <1>2, <2>1, Current DEF ConnOK, Idle
<1>4. "none" \notin Https /\ reply \in Kinds /\ H!BodyLen(reply) \in Nat
  <2>1. "none" \notin Https /\ reply \in Kinds
    BY DEF H!HttpAssumption, Kinds
  <2>2. QED BY Zenon, <2>1, BodyLenNat
<1>5. h \in Https /\ ~conn[c].timer /\ Serves(conn[c], r)
  BY Zenon, <1>2, <1>3
<1>6. r \in Transactions /\ TransOK(r)
  <2>1. r \in Transactions
    BY Zenon, <1>2, <1>5
  <2>2. QED BY Zenon, <1>4, <1>5, <2>1, Here
<1>7. r.state = "headers" /\ r.status = "running"
  BY Zenon, <1>1, <1>5 DEF Serves
<1>8. /\ l \in Responses /\ l.part = "head" /\ l.n = H!BodyLen(l.reply)
      /\ l.body = (r.method # "HEAD")
  BY <1>4 DEF Responses
<1> HIDE DEF l
<1>9. k \in Connections
  BY Zenon, <1>2, <1>8 DEF Connections
<1>10. /\ k.user = h /\ ~k.timer /\ ~k.pending /\ k.left = l /\ k.sock = conn[c].sock
       /\ k.host = conn[c].host /\ k.flags = conn[c].flags
  BY <1>2, <1>5 DEF Connections
<1> HIDE DEF k
<1>11. y \in [Conns -> Connections] /\ y[c] = k /\ \A d \in Conns : d # c => y[d] = conn[d]
  BY Zenon, <1>2, <1>9
<1> HIDE DEF y
<1>12. Serves(k, r)
  <2>1. InHeader(r, l)
    BY Zenon, <1>8 DEF InHeader
  <2>2. k.sock /\ k.host = r.host /\ "recyclable" \notin k.flags
    BY Zenon, <1>5, <1>10 DEF Serves
  <2> HIDE DEF r
  <2>3. QED BY <1>7, <1>8, <1>10, <2>1, <2>2 DEF Serves
<1>13. \A d \in Conns : IF conn[d].user = h
                        THEN y[d].user = h /\ ~y[d].timer /\ Serves(y[d], r)
                        ELSE y[d] = conn[d]
  <2>1. ASSUME NEW d \in Conns
        PROVE  IF conn[d].user = h
               THEN y[d].user = h /\ ~y[d].timer /\ Serves(y[d], r)
               ELSE y[d] = conn[d]
    <3>1. CASE d = c
      BY Zenon, <1>10, <1>11, <1>12, <3>1
    <3>2. CASE d # c
      BY Zenon, <1>2, <1>3, <1>11, <3>2
    <3>3. QED BY Zenon, <3>1, <3>2
  <2>2. QED BY Zenon, <2>1
<1>14. http' = [http EXCEPT ![h] = r]
  <2>1. http = [http EXCEPT ![h] = r]
    BY ZenonT(40), <1>2, <1>5
  <2>2. QED BY Zenon, <1>1, <2>1
<1>15. Moves(r, r) /\ r.status # "failed"
  BY <1>6, <1>7 DEF Moves, Ends, Transactions
<1>16. http'[h] = r
  BY Zenon, <1>1
<1> HIDE DEF h, r
<1>17. QED
  <2>1. /\ http'[h] \in Transactions /\ conn' \in [Conns -> Connections]
        /\ http' = [http EXCEPT ![h] = http'[h]]
        /\ TransOK(http'[h]) /\ Moves(http[h], http'[h]) /\ http'[h].status # "failed"
    BY Zenon, <1>1, <1>6, <1>11, <1>14, <1>15, <1>16 DEF r
  <2>2. \A d \in Conns : IF conn[d].user = h
                         THEN /\ conn'[d].user = h /\ ~conn'[d].timer
                              /\ Serves(conn'[d], http'[h])
                         ELSE conn'[d] = conn[d]
    BY Zenon, <1>1, <1>13, <1>16
  <2>3. QED BY Zenon, <1>1, <1>4, <1>5, <2>1, <2>2, UseStep

LEMMA SendStep ==
  ASSUME HttpInvariant, H!HttpAssumption, NEW h \in Https,
         NEW window \in BOOLEAN, NEW room \in BOOLEAN,
         H!http_step(h, window, room)
  PROVE  Stepped
<1> DEFINE r == http[h]
           tx == r.state = "request" /\ room
           q == [r EXCEPT !.process = IF window THEN r.process ELSE FALSE,
                          !.state = IF tx THEN "headers" ELSE r.state]
           y == [c \in Conns |-> IF tx /\ conn[c].user = h
                   THEN [conn[c] EXCEPT !.pending = TRUE] ELSE conn[c]]
<1>1. "none" \notin Https /\ Size \in Nat
  BY Zenon DEF H!HttpAssumption
<1>2. /\ "none" # h /\ H!S \in HttpStates /\ TransOK(r) /\ r \in Transactions
      /\ \A c \in Conns : conn[c].user = h => Serves(conn[c], r)
  BY Zenon, <1>1, Here
<1>3. /\ http \in [Https -> Transactions] /\ conn \in [Conns -> Connections]
  BY Zenon, <1>2, StateFields, Current
<1>4. /\ conn' = y /\ pool' = pool
      /\ IF window THEN H!ConnOf(H!S, h) # {} ELSE r.process
  BY Zenon DEF H!http_step
<1>5. http' = [http EXCEPT ![h] = q]
  BY Zenon, <1>3 DEF H!http_step, Transactions
<1>6. r.status = "running"
  <2>1. CASE window
    BY Zenon, <1>2, <1>4, <2>1, Current DEF H!ConnOf, Serves
  <2>2. CASE ~window
    BY <1>2, <1>4, <2>2 DEF TransOK, Transactions
  <2>3. QED BY Zenon, <2>1, <2>2
<1>7. /\ q \in Transactions /\ q.status = r.status /\ q.got = r.got
      /\ q.len = r.len /\ q.remaining = r.remaining /\ q.method = r.method
      /\ q.timer = r.timer /\ q.host = r.host /\ q.reply = r.reply
      /\ q.framing = r.framing /\ q.length = r.length
      /\ q.state = (IF tx THEN "headers" ELSE r.state)
      /\ q.process = (IF window THEN r.process ELSE FALSE)
  BY ZenonT(40), <1>2 DEF Transactions
<1> HIDE DEF q
<1>8. TransOK(q)
  BY Zenon, <1>2, <1>6, <1>7 DEF TransOK, Ends
<1>9. Moves(r, q) /\ q.status # "failed"
  BY <1>2, <1>6, <1>7 DEF Moves, Transactions, Ends
<1>10. y \in [Conns -> Connections]
  <2>1. \A c \in Conns : /\ conn[c] \in Connections
                         /\ [conn[c] EXCEPT !.pending = TRUE] \in Connections
    BY Zenon, <1>3 DEF Connections
  <2>2. QED BY <2>1
<1>11. ASSUME NEW c \in Conns
       PROVE  IF conn[c].user = h
              THEN y[c].user = h /\ ~y[c].timer /\ Serves(y[c], q)
              ELSE y[c] = conn[c]
  <2>1. CASE conn[c].user # h
    BY Zenon, <2>1
  <2>2. CASE conn[c].user = h /\ tx
    <3>1. /\ y[c].user = h /\ y[c].timer = conn[c].timer /\ y[c].pending
          /\ y[c].left = conn[c].left /\ y[c].sock = conn[c].sock
          /\ y[c].host = conn[c].host /\ y[c].flags = conn[c].flags
      BY <1>3, <2>2 DEF Connections
    <3>2. Serves(conn[c], r) /\ ~conn[c].timer
      BY ZenonT(40), <1>2, <2>2, ConnHere
    <3> HIDE DEF y, r
    <3>3. y[c].left = H!Nothing /\ q.state = "headers" /\ H!Nothing.part = "none"
      BY <1>7, <2>2, <3>1, <3>2 DEF Serves, H!Nothing
    <3>4. InHeader(q, y[c].left)
      BY Zenon, <3>3 DEF InHeader
    <3>5. Serves(y[c], q)
      BY Zenon, <1>6, <1>7, <3>1, <3>2, <3>3, <3>4 DEF Serves
    <3>6. QED BY Zenon, <2>2, <3>1, <3>2, <3>5
  <2>3. CASE conn[c].user = h /\ ~tx
    <3>1. y[c] = conn[c]
      BY Zenon, <2>3
    <3>2. Serves(conn[c], r) /\ ~conn[c].timer
      BY Zenon, <1>2, <2>3, ConnHere
    <3>3. q.state = r.state
      BY Zenon, <1>7, <2>3
    <3> HIDE DEF y, r
    <3>4. ASSUME NEW l, InBody(r, l)
          PROVE  InBody(q, l)
      <4>1. ~q.process
        BY <1>7, <3>4 DEF InBody
      <4>2. QED BY Zenon, <1>7, <3>3, <3>4, <4>1 DEF InBody
    <3>5. ASSUME NEW l, InHeader(r, l)
          PROVE  InHeader(q, l)
      BY Zenon, <1>7, <3>5 DEF InHeader
    <3>6. Serves(conn[c], q)
      BY Zenon, <1>7, <3>2, <3>3, <3>4, <3>5 DEF Serves
    <3>7. QED BY Zenon, <2>3, <3>1, <3>2, <3>6
  <2>4. QED BY Zenon, <2>1, <2>2, <2>3
<1> HIDE DEF y
<1>12. http'[h] = q
  BY <1>3, <1>5, <1>7
<1>13. /\ http'[h] \in Transactions /\ conn' \in [Conns -> Connections]
       /\ http' = [http EXCEPT ![h] = http'[h]]
       /\ TransOK(http'[h]) /\ Moves(http[h], http'[h]) /\ http'[h].status # "failed"
  BY Zenon, <1>4, <1>5, <1>7, <1>8, <1>9, <1>10, <1>12
<1>14. \A d \in Conns : IF conn[d].user = h
                        THEN /\ conn'[d].user = h /\ ~conn'[d].timer
                             /\ Serves(conn'[d], http'[h])
                        ELSE conn'[d] = conn[d]
  BY Zenon, <1>4, <1>11, <1>12
<1>15. QED BY Zenon, <1>1, <1>4, <1>13, <1>14, UseStep

(* Closing a connection that has no user *)
LEMMA IdleDropped ==
  ASSUME NEW s, NEW c \in Conns, HttpInv(s), s.conn[c].user = "none"
  PROVE  HttpInv(H!Drop(s, c)) /\ H!Drop(s, c).http = s.http
<1> DEFINE t == H!Drop(s, c)
<1>1. s \in HttpStates /\ Distinct(s.pool)
  BY Zenon DEF HttpInv
<1>2. /\ Differs(s, t, c) /\ t.http = s.http /\ t.conn[c] = H!NoConn
      /\ ~In(t.pool, c)
  BY Zenon, <1>1, Dropped
<1> HIDE DEF t
<1>3. t.conn[c].user = "none"
  BY <1>2 DEF H!NoConn
<1>4. t \in HttpStates /\ Distinct(t.pool)
  BY Zenon, <1>2 DEF Differs
<1>5. \A d \in Conns : d # c => /\ t.conn[d] = s.conn[d]
                                /\ In(t.pool, d) <=> In(s.pool, d)
  BY Zenon, <1>2 DEF Differs
<1>6. ASSUME NEW d \in Conns
      PROVE  ConnOK(t, d)
  <2>1. CASE d = c
    BY Zenon, <1>2, <1>3, <2>1 DEF ConnOK
  <2>2. CASE d # c
    <3>1. t.conn[d] = s.conn[d] /\ (In(t.pool, d) <=> In(s.pool, d)) /\ ConnOK(s, d)
      BY Zenon, <1>5, <2>2 DEF HttpInv
    <3>2. QED BY Zenon, <1>2, <3>1 DEF ConnOK
  <2>3. QED BY Zenon, <2>1, <2>2
<1>7. OneEach(t)
  <2>1. SUFFICES ASSUME NEW d \in Conns, NEW e \in Conns, d # e,
                        t.conn[d].user = t.conn[e].user, t.conn[d].user # "none"
                 PROVE  FALSE
    BY Zenon DEF OneEach
  <2>2. d # c /\ e # c
    BY Zenon, <1>3, <2>1
  <2>3. t.conn[d] = s.conn[d] /\ t.conn[e] = s.conn[e]
    BY Zenon, <1>5, <2>2
  <2>4. QED BY Zenon, <2>1, <2>3 DEF HttpInv, OneEach
<1>8. \A g \in Https : TransOK(t.http[g])
  BY Zenon, <1>2 DEF HttpInv
<1>9. QED BY Zenon, <1>2, <1>4, <1>6, <1>7, <1>8 DEF HttpInv, t

LEMMA IdleStep ==
  ASSUME HttpInvariant, H!HttpAssumption, NEW c \in Conns, conn[c].user = "none",
         H!Become(H!Drop(H!S, c))
  PROVE  Stepped
<1>1. "none" \notin Https
  BY Zenon DEF H!HttpAssumption
<1> DEFINE t == H!Drop(H!S, c)
<1>2. HttpInv(t) /\ t.http = H!S.http
  <2>1. H!S.conn[c].user = "none" /\ HttpInv(H!S)
    BY Zenon, Current DEF HttpInvariant
  <2>2. QED BY Zenon, <2>1, IdleDropped
<1>3. \A h \in Https : t.http[h] = http[h]
  BY Zenon, <1>2, Current
<1> HIDE DEF t
<1>4. H!Become(t)
  BY Zenon DEF t
<1>5. QED BY Zenon, <1>1, <1>2, <1>3, <1>4, StepTo

(* What a step of h has to provide *)
Good(s, t, h) ==
    /\ HttpInv(t) /\ Others(s, t, h)
    /\ t.http[h].method = s.http[h].method /\ s.http[h].got <= t.http[h].got

LEMMA GoodStep ==
  ASSUME HttpInvariant, H!HttpAssumption, NEW h \in Https, NEW s, NEW t,
         s.http = http, Good(s, t, h), H!Become(t), http[h].status = "running",
         Stale(H!S, h) => t.http[h].status # "failed"
  PROVE  Stepped
<1>1. "none" \notin Https
  BY Zenon DEF H!HttpAssumption
<1>2. Others(H!S, t, h)
  BY Zenon, Current DEF Good, Others
<1>3. Moves(http[h], t.http[h])
  BY DEF Good, Moves, Ends
<1>4. HttpInv(t)
  BY Zenon DEF Good
<1>5. QED BY Zenon, <1>1, <1>2, <1>3, <1>4, StepOf

(* The connection of h is closed *)
LEMMA Detached ==
  ASSUME HttpInvariant, H!HttpAssumption, NEW c \in Conns, conn[c].user # "none"
  PROVE  LET s == H!Drop(H!S, c)
             h == conn[c].user
         IN  /\ Rest(s, h) /\ s.http = http /\ Emptied(s, h)
<1> DEFINE h == conn[c].user
           s == H!Drop(H!S, c)
<1>1. "none" \notin Https
  BY Zenon DEF H!HttpAssumption
<1>2. /\ h \in Https /\ \A d \in Conns : conn[d].user = h => d = c
  BY Zenon, ConnHere
<1>3. H!S.conn[c].user = h /\ \A d \in Conns : H!S.conn[d].user = h => d = c
  BY Zenon, <1>2, Current
<1> HIDE DEF h
<1>4. "none" # h /\ H!S \in HttpStates /\ Rest(H!S, h)
  BY Zenon, <1>1, <1>2, Here
<1>5. Distinct(H!S.pool)
  BY Zenon, <1>4 DEF Rest
<1>6. /\ Differs(H!S, s, c) /\ s.http = H!S.http /\ s.conn[c] = H!NoConn
      /\ ~In(s.pool, c)
  BY Zenon, <1>4, <1>5, Dropped
<1> HIDE DEF s
<1>7. s.conn[c].user = "none"
  BY <1>6 DEF H!NoConn
<1>8. ConnOK(s, c)
  BY Zenon, <1>6, <1>7 DEF ConnOK
<1>9. Others(H!S, s, h)
  BY Zenon, <1>6 DEF Others
<1>10. Rest(s, h)
  BY ZenonT(40), <1>2, <1>3, <1>4, <1>6, <1>7, <1>8, <1>9, RestUpdate
<1>11. \A d \in Conns : s.conn[d].user # h
  BY Zenon, <1>3, <1>4, <1>6, <1>7 DEF Differs
<1>12. Emptied(s, h)
  BY Zenon, <1>11 DEF Emptied
<1>13. QED BY Zenon, <1>6, <1>10, <1>12, Current DEF h, s

(* A transaction that is closed with an error keeps what it was given *)
LEMMA Fails ==
  ASSUME NEW s, NEW h \in Https, "none" # h, Size \in Nat, Rest(s, h),
         s.http[h].got \in Nat, s.http[h].got <= Size,
         s.http[h].method = "HEAD" => s.http[h].got = 0
  PROVE  Good(s, H!http_close(s, h, 1, "failed"), h)
<1> DEFINE t == H!http_close(s, h, 1, "failed")
<1>1. "failed" \in Ends /\ "failed" # "ok" /\ 1 # 0
  BY SMTT(30) DEF Ends
<1>2. /\ HttpInv(t) /\ Others(s, t, h)
      /\ t.http[h].method = s.http[h].method /\ t.http[h].got = s.http[h].got
  BY <1>1, Closes
<1> HIDE DEF t
<1>3. QED BY <1>2 DEF Good, t

LEMMA SocketCloseStep ==
  ASSUME HttpInvariant, H!HttpAssumption, NEW c \in Conns, NEW rc, NEW ok,
         H!http_conn_socket_close(c, rc, ok)
  PROVE  Stepped
<1> DEFINE h == conn[c].user
           r == http[h]
           s == H!Drop(H!S, c)
<1>1. "none" \notin Https /\ Size \in Nat
  BY Zenon DEF H!HttpAssumption
<1>2. CASE h = "none"
  <2>1. H!Become(s)
    BY Zenon, <1>2 DEF H!http_conn_socket_close
  <2>2. QED BY Zenon, <1>2, <2>1, IdleStep
<1>3. CASE h # "none"
  <2>1. /\ h \in Https /\ Serves(conn[c], r)
        /\ \A d \in Conns : conn[d].user = h => d = c
    BY Zenon, <1>3, ConnHere
  <2>2. Rest(s, h) /\ s.http = http /\ Emptied(s, h)
    BY Zenon, <1>3, Detached
  <2>3. rc = 0 => H!CleanClose(c)
    BY Zenon DEF H!http_conn_socket_close
  <2>4. H!Become(IF H!pool_is_reopenable(H!S, c) THEN H!http_reopen(s, h, ok)
                 ELSE H!StateClose(s, h, rc, ok))
    BY Zenon, <1>3 DEF H!http_conn_socket_close
  <2> HIDE DEF s
  <2>5. TransOK(r) /\ r \in Transactions
    BY Zenon, <1>1, <2>1, Here
  <2> HIDE DEF h
  <2>6. r.status = "running"
    BY Zenon, <2>1 DEF Serves
  <2>7. s.http[h] = r
    BY Zenon, <2>2
  <2>8. CASE H!pool_is_reopenable(H!S, c)
    <3> DEFINE t == H!http_reopen(s, h, ok)
    <3>1. H!Become(t)
      BY Zenon, <2>4, <2>8
    <3>2. r.got = 0 /\ r.len = 0 /\ r.remaining = 0
      <4>1. "alive" \notin conn[c].flags
        BY Zenon, <2>8, Current DEF H!pool_is_reopenable
      <4>2. r.state \in {"request", "headers"}
        BY ZenonT(40), <2>1, <4>1 DEF Serves
      <4> HIDE DEF r
      <4>3. QED BY <2>5, <4>2 DEF TransOK
    <3>3. /\ HttpInv(t) /\ Others(s, t, h)
          /\ t.http[h].status \in {"running", "stopped"}
          /\ t.http[h].method = s.http[h].method /\ t.http[h].got = 0
      <4>1. h \in Https /\ "none" # h /\ Size \in Nat /\ Rest(s, h)
        BY Zenon, <1>1, <1>3, <2>1, <2>2 DEF h
      <4>2. /\ s.http[h].status = "running" /\ s.http[h].got = 0
            /\ s.http[h].len = 0 /\ s.http[h].remaining = 0
        BY Zenon, <2>6, <2>7, <3>2
      <4>3. QED BY Zenon, <4>1, <4>2, Reopens
    <3> HIDE DEF t
    <3>4. Good(s, t, h) /\ t.http[h].status # "failed"
      BY <2>7, <3>2, <3>3 DEF Good
    <3>5. QED BY Zenon, <2>1, <2>2, <2>6, <3>1, <3>4, GoodStep
  <2>9. CASE ~H!pool_is_reopenable(H!S, c)
    <3> DEFINE t == H!StateClose(s, h, rc, ok)
    <3>1. H!Become(t)
      BY Zenon, <2>4, <2>9
    <3>2. ~Stale(H!S, h)
      <4>1. ASSUME conn[c].flags = {"recycled"}
            PROVE  FALSE
        BY <2>9, <4>1, Current DEF H!pool_is_reopenable
      <4>2. QED BY Zenon, <2>1, <4>1, Current DEF Stale
    <3>3. Good(s, t, h)
      <4>1. CASE r.state = "identity" /\ rc = 0 /\ r.framing = "close"
        <5>1. t = H!http_transfer_complete(s, h, ok)
          BY Zenon, <2>7, <4>1 DEF H!StateClose
        <5>2. InBody(r, conn[c].left)
          BY <2>1, <4>1 DEF Serves
        <5>3. conn[c].left = H!Nothing
          BY Zenon, <2>3, <4>1, <5>2 DEF InBody, H!CleanClose
        <5>4. r.len = H!BodyLen(r.reply)
          <6>1. H!Nothing.n = 0
            BY DEF H!Nothing
          <6>2. r.len + 0 = H!BodyLen(r.reply)
            BY Zenon, <5>2, <5>3, <6>1 DEF InBody
          <6>3. QED BY <2>5, <6>2 DEF Transactions
        <5>5. /\ ~r.process /\ r.remaining = 0 /\ r.reply # "bad"
              /\ r.got = IF r.reply = "ok" /\ r.method # "HEAD" THEN Size ELSE 0
          BY <4>1, <5>2, <5>4 DEF InBody, H!BodyLen
        <5> DEFINE v == H!http_transfer_complete(s, h, ok)
        <5> HIDE DEF r
        <5>6. /\ HttpInv(v) /\ Others(s, v, h)
              /\ v.http[h].method = s.http[h].method /\ v.http[h].got = s.http[h].got
          <6>1. h \in Https /\ "none" # h /\ Size \in Nat /\ Rest(s, h)
            BY Zenon, <1>1, <1>3, <2>1, <2>2 DEF h
          <6>2. QED BY ZenonT(40), <2>2, <2>6, <2>7, <5>5, <6>1, Completes
        <5> HIDE DEF v
        <5>7. r.got \in Nat
          BY <2>5 DEF Transactions
        <5>8. QED BY <2>7, <5>1, <5>6, <5>7 DEF Good, v
      <4>2. CASE ~(r.state = "identity" /\ rc = 0 /\ r.framing = "close")
        <5>1. t = H!http_close(s, h, 1, "failed")
          BY Zenon, <2>7, <4>2 DEF H!StateClose
        <5>2. /\ s.http[h].got \in Nat /\ s.http[h].got <= Size
              /\ s.http[h].method = "HEAD" => s.http[h].got = 0
          BY <2>5, <2>7 DEF TransOK, Transactions
        <5>3. QED BY Zenon, <1>1, <1>3, <2>1, <2>2, <5>1, <5>2, Fails DEF h
      <4>3. QED BY Zenon, <4>1, <4>2
    <3> HIDE DEF t
    <3>4. QED BY Zenon, <2>1, <2>2, <2>6, <3>1, <3>2, <3>3, GoodStep
  <2>10. QED BY Zenon, <2>8, <2>9
<1>4. QED BY Zenon, <1>2, <1>3

(* What follows each part of a response *)
LEMMA FollowingFacts ==
  ASSUME NEW p \in Responses, p.part = "data" => p.n > 0
  PROVE  LET f == H!Following(p)
             Same == f.framing = p.framing /\ f.reply = p.reply /\ f.body = p.body
         IN  /\ f \in Responses
             /\ p.part = "head" => f.part = "header" /\ f.n = p.n /\ Same
             /\ p.part = "header" =>
                  IF p.body /\ p.framing = "chunked"
                  THEN f.part = "chunk" /\ f.n = p.n /\ Same
                  ELSE IF p.body /\ p.n > 0
                  THEN f.part = "data" /\ f.n = p.n /\ Same ELSE f = H!Nothing
             /\ p.part = "chunk" =>
                  /\ f.part = (IF p.n > 0 THEN "data" ELSE "trailer")
                  /\ f.n = p.n /\ Same
             /\ p.part = "data" =>
                  IF p.n > 1 THEN f.part = "data" /\ f.n = p.n - 1 /\ Same
                  ELSE IF p.framing = "chunked"
                  THEN f.part = "chunk" /\ f.n = p.n - 1 /\ Same ELSE f = H!Nothing
             /\ p.part = "trailer" => f = H!Nothing
<1> DEFINE f == H!Following(p)
<1>1. H!Nothing \in Responses
  BY Zenon, NoConnType
<1>a. p.n \in Nat /\ p.part \in {"none", "head", "header", "chunk", "data", "trailer"}
      /\ p.body \in BOOLEAN
  BY DEF Responses
<1>2. ASSUME NEW x \in {"header", "chunk", "data", "trailer"}, NEW m \in Nat,
             H!NextPart(p) = x, m = IF p.part = "data" THEN p.n - 1 ELSE p.n
      PROVE  /\ f \in Responses /\ f.part = x /\ f.n = m
             /\ f.framing = p.framing /\ f.reply = p.reply /\ f.body = p.body
  <2>1. f = [p EXCEPT !.part = x, !.n = m]
    BY <1>2 DEF H!Following
  <2>2. QED BY Zenon, <2>1 DEF Responses
<1>3. ASSUME H!NextPart(p) = "none"
      PROVE  f = H!Nothing
  BY Zenon, <1>3 DEF H!Following
<1> HIDE DEF f
<1>4. CASE p.part = "head"
  <2>1. H!NextPart(p) = "header"
    BY <1>4 DEF H!NextPart
  <2>2. QED BY <1>2, <1>4, <1>a, <2>1 DEF f
<1>5. CASE p.part = "header"
  <2>1. H!NextPart(p) = IF ~p.body THEN "none"
                        ELSE IF p.framing = "chunked" THEN "chunk"
                        ELSE IF p.n > 0 THEN "data" ELSE "none"
    BY <1>5 DEF H!NextPart
  <2>2. CASE p.body /\ p.framing = "chunked"
    <3>1. H!NextPart(p) = "chunk"
      BY <2>1, <2>2
    <3>2. QED BY Zenon, <1>2, <1>5, <1>a, <2>2, <3>1 DEF f
  <2>3. CASE p.body /\ p.framing # "chunked" /\ p.n > 0
    <3>1. H!NextPart(p) = "data"
      BY Zenon, <2>1, <2>3
    <3>2. QED BY Zenon, <1>2, <1>5, <1>a, <2>3, <3>1 DEF f
  <2>4. CASE ~p.body \/ (p.framing # "chunked" /\ ~(p.n > 0))
    <3>1. H!NextPart(p) = "none"
      BY ZenonT(40), <2>1, <2>4
    <3>2. QED BY ZenonT(40), <1>1, <1>3, <1>5, <1>a, <2>4, <3>1 DEF f
  <2>5. QED BY Zenon, <1>a, <2>2, <2>3, <2>4
<1>6. CASE p.part = "chunk"
  <2>1. H!NextPart(p) = IF p.n > 0 THEN "data" ELSE "trailer"
    BY <1>6 DEF H!NextPart
  <2>2. QED BY <1>2, <1>6, <1>a, <2>1 DEF f
<1>7. CASE p.part = "data"
  <2>1. H!NextPart(p) = IF p.n > 1 THEN "data"
                        ELSE IF p.framing = "chunked" THEN "chunk" ELSE "none"
    BY Zenon, <1>7 DEF H!NextPart
  <2>2. CASE p.n > 1
    <3>1. H!NextPart(p) = "data" /\ p.n - 1 \in Nat
      BY Zenon, <1>a, <2>1, <2>2, Steps
    <3>2. QED BY Zenon, <1>2, <1>7, <2>2, <3>1 DEF f
  <2>3. CASE ~(p.n > 1) /\ p.framing = "chunked"
    <3>1. H!NextPart(p) = "chunk" /\ p.n - 1 \in Nat
      <4>1. p.n - 1 \in Nat
        BY <1>a, <1>7
      <4>2. QED BY Zenon, <2>1, <2>3, <4>1
    <3>2. QED BY ZenonT(40), <1>2, <1>7, <2>3, <3>1 DEF f
  <2>4. CASE ~(p.n > 1) /\ p.framing # "chunked"
    <3>1. H!NextPart(p) = "none"
      BY Zenon, <2>1, <2>4
    <3>2. QED BY Zenon, <1>1, <1>3, <1>7, <2>4, <3>1 DEF f
  <2>5. QED BY Zenon, <2>2, <2>3, <2>4
<1>8. CASE p.part \in {"trailer", "none"}
  <2>1. H!NextPart(p) = "none"
    BY <1>8 DEF H!NextPart
  <2>2. QED BY <1>1, <1>3, <1>8, <2>1 DEF f
<1>9. QED BY Zenon, <1>4, <1>5, <1>6, <1>7, <1>8, <1>a

(* Part p of the response has arrived on the connection c of h *)
Arrived(s, h, c, p) ==
    /\ Rest(s, h) /\ TransOK(s.http[h]) /\ ~s.http[h].process
    /\ s.http[h].status = "running" /\ s.conn[c].user = h
    /\ \A d \in Conns : s.conn[d].user = h => d = c
    /\ p \in Responses /\ p.part # "none" /\ s.conn[c].left = H!Following(p)
    /\ s.conn[c].sock /\ s.conn[c].host = s.http[h].host /\ ~s.conn[c].pending
    /\ "recyclable" \notin s.conn[c].flags /\ "alive" \in s.conn[c].flags

(* The transaction stays in the header or in the body *)
LEMMA StaysInUse ==
  ASSUME NEW s, NEW h \in Https, NEW c \in Conns, NEW p, NEW q \in Transactions,
         "none" # h, Arrived(s, h, c, p), TransOK(q),
         q.status = "running", q.host = s.http[h].host,
         q.method = s.http[h].method, s.http[h].got <= q.got,
         \/ q.state = "headers" /\ InHeader(q, H!Following(p))
         \/ /\ q.state \in {"identity", "chunked", "trailers"}
            /\ InBody(q, H!Following(p))
  PROVE  Good(s, [s EXCEPT !.http[h] = q], h)
<1> DEFINE t == [s EXCEPT !.http[h] = q]
<1>1. /\ Rest(t, h) /\ Others(s, t, h) /\ t.http[h] = q /\ t.conn = s.conn
  BY Swapped DEF Arrived
<1> HIDE DEF t
<1>2. Serves(s.conn[c], q)
  <2> DEFINE k == s.conn[c]
  <2>1. /\ k.left = H!Following(p) /\ k.sock /\ k.host = q.host /\ ~k.pending
        /\ "recyclable" \notin k.flags /\ "alive" \in k.flags
    BY Zenon DEF Arrived
  <2> HIDE DEF k
  <2>2. Serves(k, q)
    BY <2>1 DEF Serves
  <2>3. QED BY Zenon, <2>2 DEF k
<1>3. ASSUME NEW d \in Conns, t.conn[d].user = h
      PROVE  Serves(t.conn[d], t.http[h])
  BY Zenon, <1>1, <1>2, <1>3 DEF Arrived
<1>4. TransOK(t.http[h])
  BY Zenon, <1>1
<1>5. HttpInv(t)
  BY Zenon, <1>1, <1>3, <1>4, Settled
<1>6. QED BY Zenon, <1>1, <1>5 DEF Good, t

(* The response is over *)
LEMMA IsOver ==
  ASSUME NEW s, NEW h \in Https, NEW c \in Conns, NEW p, NEW q \in Transactions,
         NEW ok, "none" # h, Size \in Nat, Arrived(s, h, c, p),
         q.status = "running", q.method = s.http[h].method, ~q.process,
         q.remaining = 0, q.reply # "bad", s.http[h].got <= q.got,
         q.got = IF q.reply = "ok" /\ q.method # "HEAD" THEN Size ELSE 0,
         H!Following(p) = H!Nothing
  PROVE  Good(s, H!http_transfer_complete([s EXCEPT !.http[h] = q], h, ok), h)
<1> DEFINE t == [s EXCEPT !.http[h] = q]
           u == H!http_transfer_complete(t, h, ok)
<1>1. /\ Rest(t, h) /\ Others(s, t, h) /\ t.http[h] = q /\ t.conn = s.conn
  BY Swapped DEF Arrived
<1> HIDE DEF t
<1>2. Emptied(t, h)
  BY Zenon, <1>1 DEF Arrived, Emptied
<1>3. /\ HttpInv(u) /\ Others(t, u, h)
      /\ u.http[h].method = t.http[h].method /\ u.http[h].got = t.http[h].got
  BY ZenonT(40), <1>1, <1>2, Completes
<1> HIDE DEF u
<1>4. Others(s, u, h)
  BY Zenon, <1>1, <1>3 DEF Others
<1>5. Good(s, u, h)
  BY <1>1, <1>3, <1>4 DEF Good
<1>6. QED BY Zenon, <1>5 DEF u, t

(* http_rx_headers with the last line of the header *)
LEMMA RxHeaders ==
  ASSUME NEW s, NEW h \in Https, NEW c \in Conns, NEW p, NEW ok, "none" # h,
         H!HttpAssumption, Arrived(s, h, c, p), s.http[h].state = "headers",
         p.part = "header", InHeader(s.http[h], p)
  PROVE  Good(s, H!http_rx_headers(s, h, p, ok), h)
<1> DEFINE r == s.http[h]
           q == H!http_parse_headers(r, p)
           t == [s EXCEPT !.http[h] = q]
           f == H!Following(p)
           res == H!http_rx_headers(s, h, p, ok)
<1>1. Size \in Nat /\ \A reply : H!BodyLen(reply) \in Nat
  BY Zenon, BodyLenNat DEF H!HttpAssumption
<1>2. /\ r \in Transactions /\ p \in Responses
      /\ r.got = 0 /\ r.len = 0 /\ r.remaining = 0 /\ ~r.timer /\ ~r.process
      /\ r.status = "running"
  <2>1. r \in Transactions
    BY Zenon, StateFields DEF Arrived, Rest
  <2>2. p \in Responses /\ TransOK(r) /\ ~r.process /\ r.status = "running"
    BY Zenon DEF Arrived
  <2>3. QED BY <2>1, <2>2 DEF TransOK
<1>3. p.n = H!BodyLen(p.reply) /\ p.body = (r.method # "HEAD")
  <2>1. p # H!Nothing
    BY DEF H!Nothing
  <2>2. QED BY Zenon, <2>1 DEF InHeader
<1> DEFINE len == IF p.framing = "length" THEN H!BodyLen(p.reply) ELSE 0
<1>4. /\ q \in Transactions /\ q.reply = p.reply /\ q.framing = p.framing
      /\ q.keep = p.keep /\ q.length = len
      /\ q.got = 0 /\ q.len = 0 /\ q.remaining = 0 /\ ~q.timer /\ ~q.process
      /\ q.status = "running" /\ q.method = r.method /\ q.host = r.host
      /\ q.state = "headers"
  <2>1. /\ len \in Nat /\ r.waits \in Nat
        /\ p.reply \in Kinds /\ p.framing \in Framings /\ p.keep \in BOOLEAN
    BY ZenonT(40), <1>1, <1>2 DEF Responses, Transactions
  <2> DEFINE w == IF p.reply \in {"again", "retry"} THEN r.waits + 1 ELSE r.waits
  <2>2. w \in Nat
    BY <2>1
  <2>3. q = [r EXCEPT !.reply = p.reply, !.framing = p.framing, !.keep = p.keep,
                      !.length = len, !.waits = w]
    BY <1>2 DEF H!http_parse_headers, H!http_parse_status, Transactions,
          H!http_parse_transfer_encoding, H!http_parse_connection,
          H!http_parse_content_length, H!http_parse_retry_after
  <2> HIDE DEF len, w, q
  <2>4. QED BY Zenon, <1>2, <2>1, <2>2, <2>3 DEF Transactions
<1>5. res = IF p.reply = "bad" THEN H!http_close(t, h, 1, "failed")
            ELSE IF q.method = "HEAD" \/ (q.framing = "length" /\ q.length = 0)
            THEN H!http_transfer_complete(t, h, ok)
            ELSE [s EXCEPT !.http[h] = [q EXCEPT !.state =
                    IF p.framing = "chunked" THEN "chunked" ELSE "identity"]]
  BY Zenon DEF H!http_rx_headers
<1> HIDE DEF q, res
<1>6. CASE p.reply = "bad"
  <2>1. /\ Rest(t, h) /\ Others(s, t, h) /\ t.http[h] = q
    <3>1. q \in Transactions /\ Rest(s, h)
      BY Zenon, <1>4 DEF Arrived
    <3>2. LET v == [s EXCEPT !.http[h] = q] IN
          /\ Rest(v, h) /\ Others(s, v, h) /\ v.http[h] = q
          /\ v.http = [s.http EXCEPT ![h] = q] /\ v.conn = s.conn /\ v.pool = s.pool
      BY SMTT(30), <3>1, Swapped
    <3>3. QED BY Zenon, <3>2
  <2> HIDE DEF t
  <2>2. t.http[h].got \in Nat /\ t.http[h].got <= Size /\ t.http[h].got = 0
    BY <1>1, <1>4, <2>1
  <2> DEFINE v == H!http_close(t, h, 1, "failed")
  <2>3. Good(t, v, h)
    BY Zenon, <1>1, <2>1, <2>2, Fails
  <2> HIDE DEF v
  <2>4. Others(s, v, h) /\ HttpInv(v)
    BY Zenon, <2>1, <2>3 DEF Good, Others
  <2>5. Good(s, v, h)
    BY Zenon, <1>2, <1>4, <2>1, <2>3, <2>4 DEF Good
  <2>6. res = v
    BY Zenon, <1>5, <1>6 DEF v
  <2>7. QED BY Zenon, <2>5, <2>6 DEF res
<1>7. CASE p.reply # "bad" /\ (q.method = "HEAD" \/ (q.framing = "length" /\ q.length = 0))
  <2>1. f = H!Nothing
    <3>1. ~p.body \/ (p.framing # "chunked" /\ p.n = 0)
      BY Zenon, <1>3, <1>4, <1>7
    <3>2. p.n \in Nat
      BY Zenon, <1>2 DEF Responses
    <3>3. p.part # "data" /\ ~(p.body /\ p.framing = "chunked") /\ ~(p.body /\ p.n > 0)
      BY Zenon, <3>1, <3>2, Zero
    <3>4. QED BY Zenon, <1>2, <3>3, FollowingFacts
  <2>2. q.got = IF q.reply = "ok" /\ q.method # "HEAD" THEN Size ELSE 0
    BY Zenon, <1>3, <1>4, <1>7 DEF H!BodyLen
  <2>3. s.http[h].got <= q.got
    BY <1>2, <1>4
  <2>4. res = H!http_transfer_complete(t, h, ok)
    BY Zenon, <1>5, <1>7
  <2>5. Good(s, H!http_transfer_complete(t, h, ok), h)
    BY Zenon, <1>1, <1>4, <1>7, <2>1, <2>2, <2>3, IsOver
  <2>6. QED BY Zenon, <2>4, <2>5 DEF res
<1>8. CASE p.reply # "bad" /\ ~(q.method = "HEAD" \/ (q.framing = "length" /\ q.length = 0))
  <2> DEFINE x == IF p.framing = "chunked" THEN "chunked" ELSE "identity"
             w == [q EXCEPT !.state = x]
  <2>1. res = [s EXCEPT !.http[h] = w]
    BY Zenon, <1>5, <1>8
  <2>2. /\ w \in Transactions /\ w.reply = p.reply /\ w.framing = p.framing
        /\ w.length = len /\ w.got = 0 /\ w.len = 0 /\ w.remaining = 0
        /\ ~w.timer /\ ~w.process /\ w.status = "running"
        /\ w.method = r.method /\ w.host = r.host
        /\ w.state = IF p.framing = "chunked" THEN "chunked" ELSE "identity"
    BY <1>4 DEF Transactions
  <2>3. TransOK(w)
    <3>1. 0 <= Size /\ w.method # "HEAD"
      BY Zenon, <1>1, <1>4, <1>8, <2>2, Zero
    <3>2. w.state \in {"identity", "chunked"}
      BY Zenon, <2>2
    <3> HIDE DEF w
    <3>3. QED BY Zenon, <2>2, <3>1, <3>2 DEF TransOK, Ends
  <2>4. r.method # "HEAD" /\ p.body /\ p.n \in Nat /\ p.framing \in Framings
    BY Zenon, <1>2, <1>3, <1>4, <1>8 DEF Responses
  <2>5. IF p.framing = "chunked"
        THEN f.part = "chunk" /\ f.n = p.n /\ f.framing = p.framing
        ELSE IF p.n > 0
        THEN f.part = "data" /\ f.n = p.n /\ f.framing = p.framing ELSE f = H!Nothing
    BY Zenon, <1>2, <2>4, FollowingFacts
  <2>6. InBody(w, f)
    <3>1. H!Nothing.n = 0
      BY Zenon DEF H!Nothing
    <3> HIDE DEF w, f
    <3>2. f.n = p.n
      BY Zenon, <2>4, <2>5, <3>1, Zero
    <3>3. w.len + f.n = H!BodyLen(w.reply)
      BY Zenon, <1>1, <1>3, <2>2, <3>2, Zero
    <3>4. CASE p.framing = "chunked"
      BY Zenon, <1>8, <2>2, <2>4, <2>5, <3>3, <3>4 DEF InBody
    <3>5. CASE p.framing # "chunked"
      <4>1. w.framing = "length" => w.length = H!BodyLen(w.reply) /\ w.len < w.length
        BY Zenon, <1>1, <1>4, <1>8, <2>2, Zero
      <4>2. f = H!Nothing \/ (f.part = "data" /\ f.n > 0 /\ f.framing = w.framing)
        BY Zenon, <2>2, <2>5, <3>2, <3>5
      <4>3. QED BY Zenon, <1>8, <2>2, <2>4, <3>3, <3>5, <4>1, <4>2 DEF InBody
    <3>6. QED BY Zenon, <3>4, <3>5
  <2>7. s.http[h].got <= w.got /\ w.state \in {"identity", "chunked", "trailers"}
    BY <1>2, <2>2
  <2> HIDE DEF w
  <2>8. Good(s, [s EXCEPT !.http[h] = w], h)
    BY Zenon, <2>2, <2>3, <2>6, <2>7, StaysInUse
  <2>9. QED BY Zenon, <2>1, <2>8 DEF res
<1>9. QED BY Zenon, <1>6, <1>7, <1>8

(* What is known of a transaction in the body *)
LEMMA BodyFacts ==
  ASSUME NEW s, NEW h \in Https, NEW c \in Conns, NEW p, H!HttpAssumption,
         Arrived(s, h, c, p), InBody(s.http[h], p),
         s.http[h].state \in {"identity", "chunked", "trailers"}
  PROVE  LET r == s.http[h] IN
         /\ r \in Transactions /\ p \in Responses /\ p.n \in Nat /\ p.part # "none"
         /\ Size \in Nat /\ r.status = "running" /\ ~r.timer /\ ~r.process
         /\ r.method # "HEAD" /\ r.reply # "bad"
         /\ r.len \in Nat /\ r.got \in Nat /\ r.remaining \in Nat
         /\ r.len + p.n = H!BodyLen(r.reply)
         /\ r.got = IF r.reply = "ok" THEN r.len ELSE 0
         /\ H!BodyLen(r.reply) = IF r.reply = "ok" THEN Size ELSE 1
<1> DEFINE r == s.http[h]
<1>1. r \in Transactions
  BY Zenon, StateFields DEF Arrived, Rest
<1>2. p \in Responses /\ p.part # "none" /\ TransOK(r) /\ ~r.process /\ r.status = "running"
  BY Zenon DEF Arrived
<1>3. Size \in Nat
  BY Zenon DEF H!HttpAssumption
<1>4. r.len \in Nat /\ r.got \in Nat /\ r.remaining \in Nat /\ p.n \in Nat
  BY Zenon, <1>1, <1>2 DEF Transactions, Responses
<1> HIDE DEF r
<1>5. ~r.timer
  BY <1>2 DEF TransOK, r
<1>6. /\ r.method # "HEAD" /\ r.reply # "bad"
      /\ r.len + p.n = H!BodyLen(r.reply)
      /\ r.got = IF r.reply = "ok" THEN r.len ELSE 0
  BY Zenon DEF InBody, r
<1>7. QED BY Zenon, <1>1, <1>2, <1>3, <1>4, <1>5, <1>6 DEF H!BodyLen, r

(* http_rx_transfer_identity *)
LEMMA RxIdentity ==
  ASSUME NEW s, NEW h \in Https, NEW c \in Conns, NEW p, NEW ok, "none" # h,
         H!HttpAssumption, Arrived(s, h, c, p), s.http[h].state = "identity",
         InBody(s.http[h], p)
  PROVE  Good(s, H!http_rx_transfer_identity(s, h, ok), h)
<1> DEFINE r == s.http[h]
           q == [r EXCEPT !.len = @ + 1, !.got = H!http_content_deliver(r, 1)]
           t == [s EXCEPT !.http[h] = q]
           f == H!Following(p)
           res == H!http_rx_transfer_identity(s, h, ok)
<1>1. /\ r \in Transactions /\ p \in Responses /\ p.n \in Nat /\ p.part # "none"
      /\ Size \in Nat /\ r.status = "running" /\ ~r.timer /\ ~r.process
      /\ r.method # "HEAD" /\ r.reply # "bad"
      /\ r.len \in Nat /\ r.got \in Nat /\ r.remaining \in Nat
      /\ r.len + p.n = H!BodyLen(r.reply)
      /\ r.got = IF r.reply = "ok" THEN r.len ELSE 0
      /\ H!BodyLen(r.reply) = IF r.reply = "ok" THEN Size ELSE 1
  BY Zenon, BodyFacts
<1>2. /\ r.framing # "chunked" /\ r.remaining = 0
      /\ p.part = "data" /\ p.n > 0 /\ p.framing = r.framing
      /\ r.framing = "length" => r.length = H!BodyLen(r.reply)
  <2>1. p # H!Nothing
    BY <1>1 DEF H!Nothing
  <2>2. QED BY Zenon, <2>1 DEF InBody
<1>3. /\ q \in Transactions /\ q.len = r.len + 1
      /\ q.got = (IF r.reply = "ok" THEN r.got + 1 ELSE r.got)
      /\ q.status = r.status /\ q.state = r.state /\ q.method = r.method
      /\ q.host = r.host /\ q.process = r.process /\ q.timer = r.timer
      /\ q.remaining = r.remaining /\ q.reply = r.reply
      /\ q.framing = r.framing /\ q.length = r.length
  <2> DEFINE b == H!http_content_deliver(r, 1)
             a == r.len + 1
  <2>1. b = IF r.reply = "ok" THEN r.got + 1 ELSE r.got
    BY Zenon DEF H!http_content_deliver
  <2>2. b \in Nat /\ a \in Nat
    BY Zenon, <1>1, <2>1, Steps
  <2> HIDE DEF b, a, r
  <2>3. q = [r EXCEPT !.len = a, !.got = b]
    BY Zenon DEF a, b
  <2> HIDE DEF q
  <2>4. /\ q \in Transactions /\ q.len = a /\ q.got = b /\ q.remaining = r.remaining
        /\ q.status = r.status /\ q.state = r.state /\ q.method = r.method
        /\ q.host = r.host /\ q.process = r.process /\ q.timer = r.timer
        /\ q.reply = r.reply /\ q.framing = r.framing /\ q.length = r.length
    <3>1. r \in Transactions
      BY Zenon, <1>1
    <3>2. QED BY Zenon, <2>2, <2>3, <3>1 DEF Transactions
  <2>5. QED BY Zenon, <2>1, <2>4 DEF a
<1>4. res = IF q.framing = "length" /\ q.len > q.length
            THEN H!http_close(t, h, 1, "failed")
            ELSE IF q.framing = "length" /\ q.len = q.length
            THEN H!http_transfer_complete(t, h, ok) ELSE t
  BY ZenonT(40) DEF H!http_rx_transfer_identity
<1> HIDE DEF r, q, t, f, res
<1>a. /\ r.len \in Nat /\ p.n \in Nat /\ p.n > 0 /\ r.got \in Nat /\ Size \in Nat
      /\ r.len + p.n = H!BodyLen(r.reply)
      /\ r.got = IF r.reply = "ok" THEN r.len ELSE 0
      /\ H!BodyLen(r.reply) = IF r.reply = "ok" THEN Size ELSE 1
  BY Zenon, <1>1, <1>2
<1>b. /\ q.len = r.len + 1 /\ q.reply = r.reply
      /\ q.got = (IF r.reply = "ok" THEN r.got + 1 ELSE r.got)
  BY Zenon, <1>3
<1>c. q.framing = "length" => q.length = H!BodyLen(q.reply)
  BY Zenon, <1>2, <1>3
<1>5. /\ q.len + (p.n - 1) = H!BodyLen(q.reply) /\ q.len \in Nat /\ q.got \in Nat
      /\ q.got = (IF q.reply = "ok" THEN q.len ELSE 0)
      /\ q.got <= Size /\ r.got <= q.got
  BY SMTT(30), <1>a, <1>b
<1>6. IF p.n > 1 THEN f.part = "data" /\ f.n = p.n - 1 /\ f.framing = p.framing
      ELSE f = H!Nothing
  BY Zenon, <1>1, <1>2, FollowingFacts DEF f
<1>7. CASE q.framing = "length" /\ q.len = q.length
  <2>1. p.n = 1 /\ q.len = H!BodyLen(q.reply)
    BY SMTT(30), <1>a, <1>5, <1>7, <1>c
  <2>2. f = H!Nothing
    BY <1>6, <2>1
  <2>3. q.got = IF q.reply = "ok" /\ q.method # "HEAD" THEN Size ELSE 0
    BY Zenon, <1>1, <1>3, <1>5, <2>1
  <2>4. ~(q.len > q.length)
    BY <1>5, <1>7
  <2>5. res = H!http_transfer_complete(t, h, ok)
    BY Zenon, <1>4, <1>7, <2>4
  <2>6. /\ q.status = "running" /\ ~q.process /\ q.remaining = 0
        /\ q.reply # "bad" /\ s.http[h].got <= q.got
    BY Zenon, <1>1, <1>2, <1>3, <1>5 DEF r
  <2>7. Good(s, H!http_transfer_complete(t, h, ok), h)
    BY Zenon, <1>1, <1>3, <2>2, <2>3, <2>6, IsOver DEF f, t, r
  <2>8. QED BY ZenonT(40), <2>5, <2>7 DEF res
<1>8. CASE ~(q.framing = "length" /\ q.len = q.length)
  <2>1. ~(q.framing = "length" /\ q.len > q.length)
    BY SMTT(30), <1>a, <1>5, <1>c
  <2>2. res = t
    BY Zenon, <1>4, <1>8, <2>1
  <2>3. TransOK(q)
    BY Zenon, <1>1, <1>3, <1>5 DEF TransOK, Ends, r
  <2>4. InBody(q, f)
    <3>1. H!Nothing.n = 0
      BY Zenon DEF H!Nothing
    <3>2. f.n = p.n - 1
      BY SMTT(30), <1>a, <1>6, <3>1
    <3>3. q.len + f.n = H!BodyLen(q.reply)
      BY ZenonT(40), <1>5, <3>2
    <3>4. f = H!Nothing \/ (f.part = "data" /\ f.n > 0 /\ f.framing = q.framing)
      <4>1. p.framing = q.framing
        BY Zenon, <1>2, <1>3
      <4>2. QED BY SMTT(30), <1>a, <1>6, <3>2, <4>1
    <3>5. q.framing = "length" => q.length = H!BodyLen(q.reply) /\ q.len < q.length
      BY SMTT(30), <1>a, <1>5, <1>8, <1>c
    <3>6. q.state = "identity"
      BY Zenon, <1>3 DEF r
    <3>7. QED BY Zenon, <1>1, <1>2, <1>3, <1>5, <3>3, <3>4, <3>5, <3>6 DEF InBody
  <2>5. /\ q.status = "running" /\ q.state \in {"identity", "chunked", "trailers"}
        /\ s.http[h].got <= q.got
    BY Zenon, <1>1, <1>3, <1>5 DEF r
  <2>6. Good(s, t, h)
    BY Zenon, <1>3, <2>3, <2>4, <2>5, StaysInUse DEF f, t, r
  <2>7. QED BY ZenonT(40), <2>2, <2>6 DEF res
<1>9. QED BY Zenon, <1>7, <1>8

(* http_rx_transfer_chunked *)
LEMMA RxChunked ==
  ASSUME NEW s, NEW h \in Https, NEW c \in Conns, NEW p, "none" # h,
         H!HttpAssumption, Arrived(s, h, c, p), s.http[h].state = "chunked",
         InBody(s.http[h], p)
  PROVE  Good(s, H!http_rx_transfer_chunked(s, h, p), h)
<1> DEFINE r == s.http[h]
           f == H!Following(p)
           res == H!http_rx_transfer_chunked(s, h, p)
<1>1. /\ r \in Transactions /\ p \in Responses /\ p.n \in Nat /\ p.part # "none"
      /\ Size \in Nat /\ r.status = "running" /\ ~r.timer /\ ~r.process
      /\ r.method # "HEAD" /\ r.reply # "bad"
      /\ r.len \in Nat /\ r.got \in Nat /\ r.remaining \in Nat
      /\ r.len + p.n = H!BodyLen(r.reply)
      /\ r.got = IF r.reply = "ok" THEN r.len ELSE 0
      /\ H!BodyLen(r.reply) = IF r.reply = "ok" THEN Size ELSE 1
  BY ZenonT(40), BodyFacts
<1>2. /\ p.framing = "chunked" /\ r.framing = "chunked"
      /\ \/ p.part = "data" /\ p.n > 0 /\ r.remaining = p.n
         \/ p.part = "chunk" /\ r.remaining = 0
  BY DEF InBody
<1>3. CASE r.remaining > 0
  <2> DEFINE q == [r EXCEPT !.len = @ + 1, !.remaining = @ - 1,
                            !.got = H!http_content_deliver(r, 1)]
  <2>1. res = [s EXCEPT !.http[h] = q]
    BY Zenon, <1>3 DEF H!http_rx_transfer_chunked
  <2>2. p.part = "data" /\ p.n > 0 /\ r.remaining = p.n /\ p.n - 1 \in Nat
    BY <1>1, <1>2, <1>3
  <2>3. /\ q \in Transactions /\ q.len = r.len + 1 /\ q.remaining = p.n - 1
        /\ q.got = (IF r.reply = "ok" THEN r.got + 1 ELSE r.got)
        /\ q.status = r.status /\ q.state = r.state /\ q.method = r.method
        /\ q.host = r.host /\ q.process = r.process /\ q.timer = r.timer
        /\ q.reply = r.reply /\ q.framing = r.framing
    <3> DEFINE b == H!http_content_deliver(r, 1)
               a == r.len + 1
               m == r.remaining - 1
    <3>1. b = IF r.reply = "ok" THEN r.got + 1 ELSE r.got
      BY Zenon DEF H!http_content_deliver
    <3>2. b \in Nat /\ a \in Nat /\ m = p.n - 1 /\ m \in Nat
      BY Zenon, <1>1, <2>2, <3>1, Steps
    <3> HIDE DEF b, a, m, r
    <3>3. q = [r EXCEPT !.len = a, !.remaining = m, !.got = b]
      BY Zenon DEF a, b, m
    <3> HIDE DEF q
    <3>4. /\ q \in Transactions /\ q.len = a /\ q.got = b /\ q.remaining = m
          /\ q.status = r.status /\ q.state = r.state /\ q.method = r.method
          /\ q.host = r.host /\ q.process = r.process /\ q.timer = r.timer
          /\ q.reply = r.reply /\ q.framing = r.framing /\ q.length = r.length
      <4>1. r \in Transactions
        BY ZenonT(40), <1>1
      <4>2. QED BY Zenon, <3>2, <3>3, <4>1 DEF Transactions
    <3>5. QED BY Zenon, <3>1, <3>2, <3>4 DEF a
  <2> HIDE DEF q, r, f
  <2>a. /\ r.len \in Nat /\ p.n \in Nat /\ p.n > 0 /\ r.got \in Nat /\ Size \in Nat
        /\ r.len + p.n = H!BodyLen(r.reply)
        /\ r.got = IF r.reply = "ok" THEN r.len ELSE 0
        /\ H!BodyLen(r.reply) = IF r.reply = "ok" THEN Size ELSE 1
    BY Zenon, <1>1, <2>2
  <2>b. /\ q.len = r.len + 1 /\ q.reply = r.reply /\ q.remaining = p.n - 1
        /\ q.got = (IF r.reply = "ok" THEN r.got + 1 ELSE r.got)
    BY Zenon, <2>3
  <2>4. /\ q.len + (p.n - 1) = H!BodyLen(q.reply) /\ q.len \in Nat /\ q.got \in Nat
        /\ q.got = (IF q.reply = "ok" THEN q.len ELSE 0)
        /\ q.got <= Size /\ r.got <= q.got
    BY SMTT(30), <2>a, <2>b
  <2>5. /\ f.n = p.n - 1 /\ f.framing = p.framing
        /\ f.part = IF p.n > 1 THEN "data" ELSE "chunk"
    BY Zenon, <1>1, <1>2, <2>2, FollowingFacts DEF f
  <2>6. InBody(q, f)
    <3>1. q.len + f.n = H!BodyLen(q.reply)
      BY ZenonT(40), <2>4, <2>5
    <3>2. \/ f.part = "data" /\ f.n > 0 /\ q.remaining = f.n
          \/ f.part = "chunk" /\ q.remaining = 0
      BY SMTT(30), <2>a, <2>b, <2>5
    <3>3. q.state = "chunked"
      BY Zenon, <2>3 DEF r
    <3>4. QED BY Zenon, <1>1, <1>2, <2>3, <2>4, <2>5, <3>1, <3>2, <3>3 DEF InBody
  <2>7. TransOK(q)
    BY Zenon, <1>1, <2>3, <2>4 DEF TransOK, Ends, r
  <2>8. /\ q.status = "running" /\ q.state \in {"identity", "chunked", "trailers"}
        /\ s.http[h].got <= q.got
    BY Zenon, <1>1, <2>3, <2>4 DEF r
  <2>9. Good(s, [s EXCEPT !.http[h] = q], h)
    BY Zenon, <2>3, <2>6, <2>7, <2>8, StaysInUse DEF f, r
  <2>10. QED BY Zenon, <2>1, <2>9
<1>4. CASE ~(r.remaining > 0)
  <2> DEFINE q == [r EXCEPT !.remaining = p.n,
                            !.state = IF p.n = 0 THEN "trailers" ELSE r.state]
  <2>1. res = [s EXCEPT !.http[h] = q]
    BY Zenon, <1>4 DEF H!http_rx_transfer_chunked
  <2>2. p.part = "chunk"
    BY <1>1, <1>2, <1>4
  <2>3. /\ q \in Transactions /\ q.len = r.len /\ q.remaining = p.n
        /\ q.got = r.got /\ q.status = r.status /\ q.method = r.method
        /\ q.host = r.host /\ q.process = r.process /\ q.timer = r.timer
        /\ q.reply = r.reply /\ q.framing = r.framing
        /\ q.state = (IF p.n = 0 THEN "trailers" ELSE "chunked")
    BY Zenon, <1>1 DEF Transactions
  <2> HIDE DEF q, r, f
  <2>4. /\ f.n = p.n /\ f.framing = p.framing
        /\ f.part = IF p.n > 0 THEN "data" ELSE "trailer"
    BY Zenon, <1>1, <2>2, FollowingFacts DEF f
  <2>a. p.n \in Nat /\ q.remaining = p.n
    BY Zenon, <1>1, <2>3
  <2>5. InBody(q, f)
    <3>1. q.len + f.n = H!BodyLen(q.reply)
      BY ZenonT(40), <1>1, <2>3, <2>4
    <3>2. CASE p.n = 0
      <4>1. f.part = "trailer" /\ f.n = 0 /\ q.remaining = 0 /\ q.state = "trailers"
        <5>1. ~(p.n > 0)
          BY <3>2
        <5>2. QED BY Zenon, <2>3, <2>4, <3>2, <5>1
      <4>2. QED BY ZenonT(40), <1>1, <1>2, <2>3, <2>4, <3>1, <4>1 DEF InBody
    <3>3. CASE p.n # 0
      <4>1. f.part = "data" /\ f.n > 0 /\ q.remaining = f.n /\ q.state = "chunked"
        <5>1. p.n > 0
          BY <2>a, <3>3
        <5>2. QED BY Zenon, <2>3, <2>4, <3>3, <5>1
      <4>2. QED BY ZenonT(40), <1>1, <1>2, <2>3, <2>4, <3>1, <4>1 DEF InBody
    <3>4. QED BY Zenon, <3>2, <3>3
  <2>6. r.got <= Size
    <3>1. /\ r.len \in Nat /\ r.len + p.n = H!BodyLen(r.reply) /\ Size \in Nat
          /\ r.got = IF r.reply = "ok" THEN r.len ELSE 0
          /\ H!BodyLen(r.reply) = IF r.reply = "ok" THEN Size ELSE 1
      BY Zenon, <1>1
    <3>2. QED BY SMTT(30), <2>a, <3>1
  <2>7. TransOK(q)
    BY SMTT(30), <1>1, <2>3, <2>6 DEF TransOK, Ends
  <2>8. /\ q.status = "running" /\ q.state \in {"identity", "chunked", "trailers"}
        /\ s.http[h].got <= q.got
    <3>1. r.got <= q.got
      <4>1. r.got \in Nat /\ q.got = r.got
        BY Zenon, <1>1, <2>3
      <4>2. QED BY <4>1
    <3>2. QED BY Zenon, <1>1, <2>3, <3>1 DEF r
  <2>9. Good(s, [s EXCEPT !.http[h] = q], h)
    BY Zenon, <2>3, <2>5, <2>7, <2>8, StaysInUse DEF f, r
  <2>10. QED BY Zenon, <2>1, <2>9
<1>5. QED BY ZenonT(40), <1>3, <1>4

(* The state in which a part of a response is handled *)
Received(c) ==
    H!Build(http, [conn EXCEPT ![c] =
                     [conn[c] EXCEPT !.left = H!Following(conn[c].left),
                                     !.flags = conn[c].flags \cup {"alive"}]], pool)

LEMMA Arrives ==
  ASSUME HttpInvariant, H!HttpAssumption, NEW c \in Conns,
         conn[c].left.part # "none", conn[c].user # "none",
         ~http[conn[c].user].process
  PROVE  /\ conn[c].user \in Https /\ Serves(conn[c], http[conn[c].user])
         /\ Arrived(Received(c), conn[c].user, c, conn[c].left)
         /\ Received(c).http = http
         /\ \A d \in Conns : conn[d].user = conn[c].user => d = c
<1> SUFFICES
        ASSUME NEW h, NEW p, NEW s,
               h = conn[c].user, p = conn[c].left, s = Received(c),
               p.part # "none", h # "none", ~http[h].process
        PROVE  /\ h \in Https /\ Arrived(s, h, c, p) /\ s.http = http
               /\ Serves(conn[c], http[h])
               /\ \A d \in Conns : conn[d].user = h => d = c
  OBVIOUS
<1> DEFINE f == H!Following(p)
           k == [conn[c] EXCEPT !.left = f, !.flags = conn[c].flags \cup {"alive"}]
           y == [conn EXCEPT ![c] = k]
<1>1. "none" \notin Https
  BY Zenon DEF H!HttpAssumption
<1>2. /\ conn \in [Conns -> Connections] /\ conn[c] \in Connections
      /\ h \in Https /\ ~conn[c].timer /\ Serves(conn[c], http[h])
      /\ \A d \in Conns : conn[d].user = h => d = c
  BY Zenon, ConnHere
<1>3. /\ Rest(H!S, h) /\ TransOK(http[h]) /\ http[h] \in Transactions
  BY Zenon, <1>1, <1>2, Here
<1>4. p \in Responses
  BY SMTT(30), <1>2 DEF Connections
<1>5. p # H!Nothing
  <2>1. H!Nothing.part = "none"
    BY Zenon DEF H!Nothing
  <2>2. QED BY Zenon, <2>1
<1>6. http[h].state # "request" /\ ~conn[c].pending
  BY Zenon, <1>2, <1>5 DEF Serves
<1>7. p.part = "data" => p.n > 0
  <2>1. CASE http[h].state = "headers"
    <3>1. p.part \in {"head", "header"}
      BY Zenon, <1>2, <1>5, <2>1 DEF Serves, InHeader
    <3>2. QED BY <3>1
  <2>2. CASE http[h].state \in {"identity", "chunked", "trailers"}
    <3> DEFINE r == http[h]
    <3>1. InBody(r, p)
      BY Zenon, <1>2, <2>2 DEF Serves
    <3> HIDE DEF r
    <3>2. r.state \in {"identity", "chunked", "trailers"}
      BY Zenon, <2>2 DEF r
    <3>3. QED BY <1>5, <3>1, <3>2 DEF InBody
  <2>3. QED BY Zenon, <1>2, <1>6, <2>1, <2>2 DEF Serves
<1>8. f \in Responses
  BY Zenon, <1>4, <1>7, FollowingFacts
<1> HIDE DEF f
<1>9. /\ k \in Connections /\ k.left = f /\ k.flags = conn[c].flags \cup {"alive"}
      /\ k.user = conn[c].user /\ k.sock = conn[c].sock /\ k.timer = conn[c].timer
      /\ k.host = conn[c].host /\ k.pending = conn[c].pending
  BY Zenon, <1>2, <1>8 DEF Connections
<1> HIDE DEF k
<1>10. y \in [Conns -> Connections] /\ y[c] = k /\ \A d \in Conns : d # c => y[d] = conn[d]
  BY Zenon, <1>2, <1>9
<1> HIDE DEF y
<1>11. s = H!Build(http, y, pool)
  BY Zenon DEF y, k, f, Received
<1>12. conn[c].sock /\ conn[c].host = http[h].host /\ "recyclable" \notin conn[c].flags
       /\ http[h].status = "running"
  BY Zenon, <1>2 DEF Serves
<1>13. \A d \in Conns : IF conn[d].user = h
                        THEN y[d].user = h /\ y[d].sock /\ ~y[d].timer
                        ELSE y[d] = conn[d]
  <2>1. ASSUME NEW d \in Conns
        PROVE  IF conn[d].user = h
               THEN y[d].user = h /\ y[d].sock /\ ~y[d].timer
               ELSE y[d] = conn[d]
    <3>1. CASE d = c
      BY Zenon, <1>2, <1>9, <1>10, <1>12, <3>1
    <3>2. CASE d # c
      BY Zenon, <1>2, <1>10, <3>2
    <3>3. QED BY Zenon, <3>1, <3>2
  <2>2. QED BY Zenon, <2>1
<1>14. Rest(s, h) /\ s.http = http /\ s.conn = y
  <2> DEFINE v == H!S
  <2>1. /\ v.http = http /\ v.conn = conn /\ v.pool = pool /\ Rest(v, h)
    BY Zenon, <1>3, Current
  <2> HIDE DEF v
  <2>2. \A d \in Conns : IF v.conn[d].user = h
                         THEN y[d].user = h /\ y[d].sock /\ ~y[d].timer
                         ELSE y[d] = v.conn[d]
    BY Zenon, <1>13, <2>1
  <2> DEFINE w == H!Build(v.http, y, v.pool)
  <2>3. Rest(w, h) /\ w.http = v.http /\ w.conn = y /\ w.pool = v.pool
    BY ZenonT(40), <1>1, <1>2, <1>10, <2>1, <2>2, Rewired
  <2> HIDE DEF w
  <2>4. s = w
    BY Zenon, <1>11, <2>1 DEF w
  <2>5. QED BY Zenon, <2>1, <2>3, <2>4
<1> DEFINE r == http[h]
<1>15. /\ "recyclable" \notin k.flags /\ "alive" \in k.flags
  BY Zenon, <1>9, <1>12
<1>16. \A d \in Conns : s.conn[d].user = h => d = c
  BY Zenon, <1>2, <1>10, <1>14
<1>17. Arrived(s, h, c, p)
  BY Zenon, <1>3, <1>4, <1>6, <1>9, <1>10, <1>12, <1>14, <1>15, <1>16 DEF Arrived, f
<1>18. QED BY Zenon, <1>2, <1>14, <1>17

(* http_conn_deliver *)
LEMMA DeliverStep ==
  ASSUME HttpInvariant, H!HttpAssumption, NEW c \in Conns, NEW ok,
         H!http_conn_deliver(c, ok)
  PROVE  Stepped
<1> DEFINE h == conn[c].user
           p == conn[c].left
           s == Received(c)
           r == http[h]
           t == CASE r.state = "headers" /\ p.part = "head" -> s
                  [] r.state = "headers" /\ p.part = "header" ->
                       H!http_rx_headers(s, h, p, ok)
                  [] r.state = "identity" -> H!http_rx_transfer_identity(s, h, ok)
                  [] r.state = "chunked" -> H!http_rx_transfer_chunked(s, h, p)
                  [] r.state = "trailers" -> H!http_transfer_complete(s, h, ok)
                  [] OTHER -> H!http_close(s, h, 1, "failed")
<1>1. p.part # "none" /\ h # "none" /\ ~r.process /\ H!Become(t)
  BY Zenon DEF H!http_conn_deliver, Received
<1>2. "none" \notin Https /\ Size \in Nat
  BY Zenon DEF H!HttpAssumption
<1>3. /\ h \in Https /\ Arrived(s, h, c, p) /\ s.http = http
      /\ Serves(conn[c], r)
      /\ \A d \in Conns : conn[d].user = h => d = c
  BY Zenon, <1>1, Arrives
<1> HIDE DEF s
<1>4. r.status = "running" /\ s.http[h] = r /\ p # H!Nothing
      /\ r.state \in {"request", "headers", "identity", "chunked", "trailers"}
      /\ r.state # "request"
  <2>1. p # H!Nothing
    BY <1>1 DEF H!Nothing
  <2>2. QED BY Zenon, <1>3, <2>1 DEF Serves
<1>5. r.state = "headers" => InHeader(r, p)
  BY Zenon, <1>3 DEF Serves
<1>6. r.state \in {"identity", "chunked", "trailers"} => InBody(r, p)
  BY Zenon, <1>3 DEF Serves
<1>7. /\ Rest(s, h) /\ TransOK(r) /\ p \in Responses /\ s.conn[c].left = H!Following(p)
      /\ \A d \in Conns : s.conn[d].user = h => d = c
      /\ ~s.conn[c].pending
  BY Zenon, <1>3, <1>4 DEF Arrived
<1>8. r \in Transactions /\ r.got \in Nat
  <2>1. s.http[h] \in Transactions
    BY Zenon, <1>3, <1>7, StateFields DEF Rest
  <2>2. QED BY Zenon, <1>4, <2>1 DEF Transactions
<1>9. CASE r.state = "headers" /\ p.part = "head"
  <2>1. t = s
    BY Zenon, <1>9
  <2>2. InHeader(r, H!Following(p))
    <3>1. /\ H!Following(p).part = "header" /\ H!Following(p).n = p.n
          /\ H!Following(p).reply = p.reply /\ H!Following(p).body = p.body
      BY Zenon, <1>7, <1>9, FollowingFacts
    <3>2. p.n = H!BodyLen(p.reply) /\ p.body = (r.method # "HEAD")
      BY Zenon, <1>4, <1>5, <1>9 DEF InHeader
    <3>3. QED BY Zenon, <3>1, <3>2 DEF InHeader
  <2>3. [s EXCEPT !.http[h] = r] = s
    <3>1. /\ s = H!Build(s.http, s.conn, s.pool) /\ s.http \in [Https -> Transactions]
      BY Zenon, <1>7, StateFields DEF Rest
    <3>2. [s EXCEPT !.http[h] = r] = H!Build([s.http EXCEPT ![h] = r], s.conn, s.pool)
      <4>1. s \in HttpStates
        BY Zenon, <1>7 DEF Rest
      <4> HIDE DEF r, h
      <4>2. QED BY ZenonT(40), <1>3, <1>8, <4>1, PutForm
    <3>3. [s.http EXCEPT ![h] = r] = s.http
      BY <1>3, <1>4, <3>1
    <3>4. QED BY <3>1, <3>2, <3>3
  <2> HIDE DEF r
  <2>4. r.got <= r.got
    BY <1>8
  <2>5. Good(s, [s EXCEPT !.http[h] = r], h)
    BY Zenon, <1>1, <1>3, <1>4, <1>7, <1>8, <1>9, <2>2, <2>4, StaysInUse
  <2>6. Good(s, t, h) /\ t.http[h].status # "failed"
    <3>1. "running" # "failed"
      OBVIOUS
    <3>2. QED BY Zenon, <1>4, <2>1, <2>3, <2>5, <3>1
  <2> HIDE DEF t
  <2>7. QED BY Zenon, <1>1, <1>3, <1>4, <2>6, GoodStep DEF r
<1>10. CASE ~(r.state = "headers" /\ p.part = "head")
  <2>1. ~Stale(H!S, h)
    <3>1. "alive" \in conn[c].flags
      <4>1. CASE r.state = "headers"
        <5>1. p.part = "header"
          BY Zenon, <1>4, <1>5, <1>10, <4>1 DEF InHeader
        <5>2. p.part \notin {"none", "head"}
          BY <5>1
        <5>3. QED BY Zenon, <1>3, <5>2 DEF Serves
      <4>2. CASE r.state # "headers"
        <5>1. r.state \notin {"request", "headers"}
          BY Zenon, <1>4, <4>2
        <5>2. QED BY Zenon, <1>3, <5>1 DEF Serves
      <4>3. QED BY Zenon, <4>1, <4>2
    <3>2. conn[c].flags # {"recycled"}
      BY <3>1
    <3>3. QED BY Zenon, <1>3, <3>2, Current DEF Stale
  <2>2. Good(s, t, h)
    <3>1. CASE r.state = "headers"
      <4>1. p.part = "header"
        BY Zenon, <1>4, <1>5, <1>10, <3>1 DEF InHeader
      <4>2. t = H!http_rx_headers(s, h, p, ok)
        BY <3>1, <4>1
      <4> HIDE DEF t, r
      <4>3. QED
        BY Zenon, <1>1, <1>3, <1>4, <1>5, <3>1, <4>1, <4>2, RxHeaders
    <3>2. CASE r.state = "identity"
      <4>1. t = H!http_rx_transfer_identity(s, h, ok)
        BY <3>2
      <4>2. InBody(r, p)
        BY Zenon, <1>6, <3>2
      <4> HIDE DEF t, r
      <4>3. QED BY Zenon, <1>1, <1>3, <1>4, <3>2, <4>1, <4>2, RxIdentity
    <3>3. CASE r.state = "chunked"
      <4>1. t = H!http_rx_transfer_chunked(s, h, p)
        BY <3>3
      <4>2. InBody(r, p)
        BY Zenon, <1>6, <3>3
      <4> HIDE DEF t, r
      <4>3. QED BY Zenon, <1>1, <1>3, <1>4, <3>3, <4>1, <4>2, RxChunked
    <3>4. CASE r.state = "trailers"
      <4>1. t = H!http_transfer_complete(s, h, ok)
        BY <3>4
      <4>2. InBody(r, p)
        BY Zenon, <1>6, <3>4
      <4> HIDE DEF t
      <4> DEFINE v == H!http_transfer_complete(s, h, ok)
      <4>3. p.part = "trailer" /\ p.n = 0 /\ r.remaining = 0 /\ r.reply # "bad"
            /\ r.len + p.n = H!BodyLen(r.reply)
            /\ r.got = IF r.reply = "ok" THEN r.len ELSE 0
        BY Zenon, <3>4, <4>2 DEF InBody
      <4>4. r.method # "HEAD"
        BY Zenon, <4>2 DEF InBody
      <4>5. r.len \in Nat
        BY <1>8 DEF Transactions
      <4> HIDE DEF r
      <4>6. r.got = IF r.reply = "ok" /\ r.method # "HEAD" THEN Size ELSE 0
        BY <1>2, <4>3, <4>4, <4>5 DEF H!BodyLen
      <4>7. H!Following(p) = H!Nothing
        BY Zenon, <1>7, <4>3, FollowingFacts
      <4>8. Emptied(s, h)
        BY Zenon, <1>7, <4>7 DEF Emptied
      <4>9. ~s.http[h].process
        BY Zenon, <1>1, <1>4
      <4> HIDE DEF h
      <4>10. /\ HttpInv(v) /\ Others(s, v, h)
             /\ v.http[h].method = s.http[h].method /\ v.http[h].got = s.http[h].got
        BY ZenonT(40), <1>1, <1>2, <1>3, <1>4, <1>7, <4>3, <4>6, <4>8, <4>9, Completes
      <4> HIDE DEF v
      <4>11. Good(s, v, h)
        BY <1>4, <1>8, <4>10 DEF Good
      <4>12. QED BY Zenon, <4>1, <4>11 DEF v
    <3>5. QED BY Zenon, <1>4, <3>1, <3>2, <3>3, <3>4
  <2> HIDE DEF t
  <2>3. QED BY Zenon, <1>1, <1>3, <1>4, <2>1, <2>2, GoodStep
<1>11. QED BY Zenon, <1>9, <1>10

(* pool_expired *)
LEMMA ExpireStep ==
  ASSUME HttpInvariant, H!HttpAssumption, NEW c \in Conns, H!pool_expired(c)
  PROVE  Stepped
<1>1. conn[c].user = "none"
  BY Zenon, ConnHere DEF H!pool_expired
<1>2. QED BY Zenon, <1>1, IdleStep DEF H!pool_expired

-----------------------------------------------------------------------------
(* The invariant *)

LEMMA HttpInit ==
  ASSUME H!HttpAssumption, H!Init
  PROVE  HttpInvariant
<1>1. /\ http = [h \in Https |-> H!NoHttp] /\ conn = [c \in Conns |-> H!NoConn]
      /\ pool = <<>>
  BY Zenon DEF H!Init
<1>2. H!NoHttp \in Transactions /\ TransOK(H!NoHttp)
  <2>1. Size \in Nat
    BY Zenon DEF H!HttpAssumption
  <2>2. QED BY <2>1 DEF H!NoHttp, Transactions, TransOK, Ends, Kinds, Framings
<1>3. H!NoConn \in Connections /\ H!NoConn.user = "none"
  BY Zenon, NoConnType DEF H!NoConn
<1>4. pool \in Seq(Conns) /\ Distinct(pool) /\ \A c : ~In(pool, c)
  BY <1>1 DEF Distinct, In
<1>5. H!S \in HttpStates
  <2>1. /\ http \in [Https -> Transactions] /\ conn \in [Conns -> Connections]
    BY <1>1, <1>2, <1>3
  <2>2. QED BY Zenon, <1>4, <2>1, BuildType DEF H!S
<1>6. \A c \in Conns : conn[c] = H!NoConn
  BY <1>1
<1>7. \A h \in Https : http[h] = H!NoHttp
  BY <1>1
<1> DEFINE s == H!S
<1>8. s.http = http /\ s.conn = conn /\ s.pool = pool /\ s \in HttpStates
  BY Zenon, <1>5, Current
<1> HIDE DEF s
<1>9. OneEach(s)
  BY Zenon, <1>3, <1>6, <1>8 DEF OneEach
<1>10. \A c \in Conns : ConnOK(s, c)
  BY Zenon, <1>3, <1>4, <1>6, <1>8 DEF ConnOK
<1>11. \A h \in Https : TransOK(s.http[h])
  BY Zenon, <1>2, <1>7, <1>8
<1>12. HttpInv(s)
  BY Zenon, <1>4, <1>8, <1>9, <1>10, <1>11 DEF HttpInv
<1>13. QED BY Zenon, <1>12 DEF s, HttpInvariant

LEMMA HttpStep ==
  ASSUME HttpInvariant, H!HttpAssumption, H!Next
  PROVE  Stepped
<1>1. ASSUME NEW h \in Https, NEW m \in Methods, NEW host \in Hosts,
             NEW ok \in BOOLEAN, H!http_open(h, m, host, ok)
      PROVE  Stepped
  BY Zenon, <1>1, OpenStep
<1>2. ASSUME NEW h \in Https, NEW window \in BOOLEAN, NEW room \in BOOLEAN,
             H!http_step(h, window, room)
      PROVE  Stepped
  BY Zenon, <1>2, SendStep
<1>3. ASSUME NEW h \in Https, H!http_tx_nomem(h)
      PROVE  Stepped
  <2>1. http[h].state = "request" /\ H!Become(H!http_close(H!S, h, 1, "stopped"))
    BY Zenon, <1>3 DEF H!http_tx_nomem
  <2>2. TransOK(http[h]) /\ http[h] \in Transactions
    <3>1. "none" \notin Https
      BY Zenon DEF H!HttpAssumption
    <3>2. QED BY Zenon, <3>1, Here
  <2>3. http[h].status = "running"
    <3> DEFINE r == http[h]
    <3>1. r \in Transactions /\ TransOK(r) /\ r.state = "request"
      BY Zenon, <2>1, <2>2
    <3> HIDE DEF r
    <3>2. r.status = "running"
      BY <3>1 DEF TransOK, Transactions, Ends
    <3>3. QED BY Zenon, <3>2 DEF r
  <2>4. QED BY Zenon, <2>1, <2>3, CloseStep
<1>4. ASSUME NEW h \in Https, NEW ok \in BOOLEAN, H!http_expired(h, ok)
      PROVE  Stepped
  BY Zenon, <1>4, ExpiredStep
<1>5. ASSUME NEW h \in Https, NEW rc \in {0, 1}, H!http_xfer_close(h, rc)
      PROVE  Stepped
  BY Zenon, <1>5, CloseStep DEF H!http_xfer_close
<1>6. ASSUME NEW c \in Conns, NEW reply \in Replies,
             NEW framing \in {"length", "chunked", "close"}, NEW keep \in BOOLEAN,
             H!server_reply(c, reply, framing, keep)
      PROVE  Stepped
  BY Zenon, <1>6, ReplyStep DEF Framings
<1>7. ASSUME NEW c \in Conns, NEW ok \in BOOLEAN, H!http_conn_deliver(c, ok)
      PROVE  Stepped
  BY Zenon, <1>7, DeliverStep
<1>8. ASSUME NEW c \in Conns, NEW rc \in {0, 1}, NEW ok \in BOOLEAN,
             H!http_conn_socket_close(c, rc, ok)
      PROVE  Stepped
  BY Zenon, <1>8, SocketCloseStep
<1>9. ASSUME NEW c \in Conns, H!pool_expired(c)
      PROVE  Stepped
  BY Zenon, <1>9, ExpireStep
<1>10. QED
  BY Zenon, <1>1, <1>2, <1>3, <1>4, <1>5, <1>6, <1>7, <1>8, <1>9 DEF H!Next

LEMMA HttpStutter ==
  ASSUME HttpInvariant, UNCHANGED H!vars
  PROVE  HttpInvariant'
<1>1. http' = http /\ conn' = conn /\ pool' = pool
  BY Zenon DEF H!vars
<1>2. H!S' = H!S
  BY Zenon, <1>1 DEF H!S
<1>3. QED BY <1>2 DEF HttpInvariant

(* What the invariant says of the pool and of the users of connections *)
LEMMA PoolFacts ==
  ASSUME HttpInvariant, H!HttpAssumption
  PROVE  H!PoolIsClean /\ H!StatePresent /\ H!RightHost
<1>1. "none" \notin Https
  BY Zenon DEF H!HttpAssumption
<1>2. ASSUME NEW c \in Conns
      PROVE  /\ In(pool, c) => Idle(conn[c])
             /\ H!Places(H!S, c) # {} <=> In(pool, c)
             /\ conn[c].timer => In(pool, c)
  <2>1. ConnOK(H!S, c) /\ (conn[c].user # "none" => ~conn[c].timer)
    BY Zenon, ConnHere
  <2>2. H!Places(H!S, c) # {} <=> In(pool, c)
    BY Zenon, Current DEF H!Places, In
  <2>3. ~H!NoConn.timer
    BY DEF H!NoConn
  <2>4. QED BY Zenon, <2>1, <2>2, <2>3, Current DEF ConnOK
<1>3. H!PoolIsClean
  BY Zenon, <1>2 DEF H!PoolIsClean, Idle
<1>4. ASSUME NEW h \in Https
      PROVE  /\ http[h].process =>
                  http[h].state \in {"request", "headers", "identity", "chunked", "trailers"}
             /\ \A c \in H!ConnOf(H!S, h) : c \in Conns /\ Serves(conn[c], http[h])
  <2>1. TransOK(http[h]) /\ \A c \in Conns : conn[c].user = h => Serves(conn[c], http[h])
    BY Zenon, <1>1, Here
  <2>2. \A c \in H!ConnOf(H!S, h) : c \in Conns /\ conn[c].user = h
    BY Zenon, Current DEF H!ConnOf
  <2>3. http[h].process => http[h].state \in {"request", "headers"}
    BY Zenon, <2>1 DEF TransOK
  <2>4. QED BY Zenon, <2>1, <2>2, <2>3
<1>5. H!StatePresent
  BY Zenon, <1>4 DEF H!StatePresent, Serves
<1>6. H!RightHost
  BY Zenon, <1>4 DEF H!RightHost, Serves
<1>7. QED BY Zenon, <1>3, <1>5, <1>6

LEMMA StaleFacts ==
  ASSUME Stepped
  PROVE  \A h \in Https : \A c \in H!ConnOf(H!S, h) :
           conn[c].flags = {"recycled"} => http'[h].status # "failed"
<1>1. ASSUME NEW h \in Https, NEW c \in H!ConnOf(H!S, h), conn[c].flags = {"recycled"}
      PROVE  Stale(H!S, h)
  BY Zenon, <1>1, Current DEF Stale, H!ConnOf
<1>2. \A h \in Https : Stale(H!S, h) => http'[h].status # "failed"
  BY Zenon, Current DEF Stepped, Allowed
<1>3. QED BY Zenon, <1>1, <1>2

(* A step of a transaction is a step of the file transfer its opener sees *)
LEMMA TransferStep ==
  ASSUME HttpInvariant, H!HttpAssumption, Stepped, Viewed \in Https
  PROVE  [HT!Next]_(HT!transferVars)
<1>1. "none" \notin Https /\ Size \in Nat
  BY Zenon DEF H!HttpAssumption
<1> DEFINE r == http[Viewed]
           q == http'[Viewed]
<1>2. r \in Transactions /\ TransOK(r)
  BY Zenon, <1>1, Here
<1>3. q \in Transactions /\ TransOK(q)
  <2> DEFINE t == H!S'
  <2>1. HttpInv(t) /\ t.http[Viewed] = q
    BY Zenon, Current DEF Stepped, HttpInvariant
  <2> HIDE DEF t, q
  <2>2. t.http[Viewed] \in Transactions /\ TransOK(t.http[Viewed])
    BY <2>1, StateFields DEF HttpInv
  <2>3. QED BY Zenon, <2>1, <2>2
<1>4. Moves(r, q)
  BY Zenon, Current DEF Stepped, Allowed
<1> DEFINE see(x) == CASE \/ x.method = "HEAD"
                          \/ x.status \in {"none", "running"} -> "running"
                       [] x.method # "HEAD" /\ x.status = "ok" -> "ok"
                       [] OTHER -> "failed"
           have == 0..(r.got - 1)
           after == 0..(q.got - 1)
<1>5. SUFFICES
        \/ /\ see(r) = "running" /\ have \subseteq after /\ after \subseteq 0..(Size - 1)
           /\ see(q) = "running"
        \/ see(r) = "running" /\ see(q) = "ok" /\ after = 0..(Size - 1)
        \/ /\ see(r) = "running" /\ see(q) = "failed"
           /\ have \subseteq after /\ after \subseteq 0..(Size - 1)
        \/ after = have /\ see(q) = see(r)
  BY DEF HT!Next, HT!Receive, HT!Finish, HT!Fail, HT!Bytes, HT!transferVars
<1> HIDE DEF r, q
<1>6. r.got \in Nat /\ q.got \in Nat
  BY <1>2, <1>3 DEF Transactions
<1>7. CASE r.status \in Ends
  BY Zenon, <1>4, <1>7 DEF Moves
<1>8. CASE r.status \notin Ends
  <2>1. r.status \in {"none", "running"}
    BY <1>2, <1>8 DEF Transactions
  <2>2. see(r) = "running"
    BY <2>1
  <2>3. r.got <= q.got
    BY SMTT(30), <1>2, <1>4, <1>6, <2>1 DEF TransOK, Moves
  <2>4. q.got <= Size
    BY <1>3 DEF TransOK
  <2>5. have \subseteq after /\ after \subseteq 0..(Size - 1)
    BY <1>1, <1>6, <2>3, <2>4
  <2>6. see(q) = "ok" => after = 0..(Size - 1)
    <3>1. see(q) = "ok" => q.method # "HEAD" /\ q.status = "ok"
      BY <1>3 DEF Transactions
    <3>2. QED BY Zenon, <1>3, <3>1 DEF TransOK
  <2>7. see(q) \in {"running", "ok", "failed"}
    BY <1>3
  <2> HIDE DEF see, have, after
  <2>8. QED BY Zenon, <2>2, <2>5, <2>6, <2>7
<1>9. QED BY Zenon, <1>7, <1>8

LEMMA TransferInit ==
  ASSUME H!Init, Viewed \in Https
  PROVE  HT!Init
<1>1. http[Viewed].got = 0 /\ http[Viewed].status = "none"
  BY DEF H!Init, H!NoHttp
<1>2. QED BY <1>1 DEF HT!Init

(* httpconn.c, pool.c: for every number of transactions, connections and   *)
(* servers and every length of the file, a connection in the pool is open, *)
(* unused and clean, a transaction uses only connections to its server and *)
(* always has a state to run, and a recycled connection that turns out to  *)
(* be closed never fails a transaction.                                    *)
THEOREM PoolStaysClean ==
  ASSUME H!HttpAssumption
  PROVE  H!Spec => PoolIsClean
<1>1. H!Init => HttpInvariant
  BY HttpInit
<1>2. HttpInvariant /\ [H!Next]_(H!vars) => HttpInvariant'
  BY Zenon, HttpStep, HttpStutter DEF Stepped
<1>3. HttpInvariant => H!PoolIsClean /\ H!StatePresent /\ H!RightHost
  BY PoolFacts
<1>4. HttpInvariant /\ [H!Next]_(H!vars) =>
        [\A h \in Https : \A c \in H!ConnOf(H!S, h) :
           conn[c].flags = {"recycled"} => http'[h].status # "failed"]_(H!vars)
  BY Zenon, HttpStep, StaleFacts
<1>5. QED
  BY <1>1, <1>2, <1>3, <1>4, PTL DEF H!Spec, PoolIsClean, H!StaleNeverFails

(* httpcore.c: an HTTP transaction implements a file transfer, whatever    *)
(* the other transactions do with the connections it shares with them,     *)
(* whatever responses its server gives and whenever it closes.             *)
THEOREM HttpTransfersFile ==
  ASSUME H!HttpAssumption, Viewed \in Https
  PROVE  H!Spec => HttpIsFileTransfer
<1>1. H!Init => HttpInvariant /\ HT!Init
  BY HttpInit, TransferInit
<1>2. HttpInvariant /\ [H!Next]_(H!vars) => HttpInvariant'
  BY Zenon, HttpStep, HttpStutter DEF Stepped
<1>3. HttpInvariant /\ [H!Next]_(H!vars) => [HT!Next]_(HT!transferVars)
  <2>1. CASE H!Next
    BY Zenon, <2>1, HttpStep, TransferStep
  <2>2. CASE UNCHANGED H!vars
    BY Zenon, <2>2 DEF H!vars, HT!transferVars
  <2>3. QED BY Zenon, <2>1, <2>2
<1>4. QED
  BY <1>1, <1>2, <1>3, PTL DEF H!Spec, HttpIsFileTransfer, HT!Spec

-----------------------------------------------------------------------------
(* The override of sandev_read *)

(* The loop invariant: the buffer has its bytes and no more, and each is   *)
(* that of the disk overlaid with the ranges that have had their turn.     *)
LoopInv ==
    /\ V!seek \in Nat /\ V!len \in Nat
    /\ overLoc \in Seq(Nat) /\ turns \in 0..Len(overLoc)
    /\ read_buffer = [b \in 0..(V!len - 1) |-> V!Overlaid(V!seek + b, turns)]
    /\ V!InBounds

(* The range added last hides those before it ... *)
LEMMA OverlaidHit ==
  ASSUME NEW n \in Nat, NEW p \in Int, n + 1 \in V!Hits(p, n + 1)
  PROVE  V!Overlaid(p, n + 1) = V!FromOver(p - overLoc[n + 1])
<1> DEFINE S == V!Hits(p, n + 1)
<1>1. \A k \in S : k \in Int /\ k <= n + 1
  BY DEF V!Hits
<1> HIDE DEF S
<1>2. \A j \in S : (\A k \in S : k <= j) => j = n + 1
  BY <1>1 DEF S
<1>3. V!Last(S) = n + 1
  BY Zenon, <1>1, <1>2 DEF S, V!Last
<1>4. QED
  BY <1>3 DEF S, V!Overlaid

(* ... and changes nothing where it does not reach. *)
LEMMA OverlaidMiss ==
  ASSUME NEW n \in Nat, NEW p \in Int, n + 1 \notin V!Hits(p, n + 1)
  PROVE  V!Overlaid(p, n + 1) = V!Overlaid(p, n)
<1>1. V!Hits(p, n + 1) = V!Hits(p, n)
  BY DEF V!Hits
<1>2. QED
  BY <1>1 DEF V!Overlaid

(* The disk a user sees depends on the ranges alone *)
LEMMA OverlaidKept ==
  ASSUME overLoc' = overLoc, NEW p, NEW n PROVE V!Overlaid(p, n)' = V!Overlaid(p, n)
<1>1. V!Hits(p, n)' = V!Hits(p, n)
  BY Zenon DEF V!Hits
<1>2. QED
  BY <1>1 DEF V!Overlaid, V!Last, V!FromDisk, V!FromOver

(* One turn overwrites exactly the bytes of the buffer that the range      *)
(* reaches, whichever of its ends lie inside the read.                     *)
LEMMA OverrideExact ==
  ASSUME V!SanOverrideAssumption, LoopInv, NEW start \in Nat
  PROVE  V!override(read_buffer, start) =
           [b \in 0..(V!len - 1) |->
              IF V!seek + b \in start..(start + OverLen - 1)
              THEN V!FromOver(V!seek + b - start) ELSE read_buffer[b]]
<1> DEFINE result == [b \in 0..(V!len - 1) |->
              IF V!seek + b \in start..(start + OverLen - 1)
              THEN V!FromOver(V!seek + b - start) ELSE read_buffer[b]]
<1>a. OverLen \in Nat /\ OverLen > 0 /\ V!seek \in Nat /\ V!len \in Nat
  BY DEF V!SanOverrideAssumption, LoopInv
<1>b. /\ DOMAIN read_buffer = 0..(V!len - 1)
      /\ read_buffer = [b \in 0..(V!len - 1) |-> read_buffer[b]]
  BY DEF LoopInv
<1>1. CASE V!seek + V!len <= start \/ V!seek >= start + OverLen
  <2>1. \A b \in 0..(V!len - 1) : V!seek + b \notin start..(start + OverLen - 1)
    BY <1>a, <1>1
  <2>2. V!override(read_buffer, start) = read_buffer
    BY <1>1 DEF V!override
  <2>3. QED
    BY Zenon, <1>b, <2>1, <2>2
<1>2. CASE /\ V!seek + V!len > start /\ V!seek < start + OverLen /\ V!seek <= start
           /\ V!seek + V!len <= start + OverLen
  <2> DEFINE X == (start - V!seek)..((start - V!seek) + (V!seek + V!len - start) - 1)
  <2>1. V!override(read_buffer, start) =
          V!memcpy(read_buffer, start - V!seek, 0, V!seek + V!len - start)
    <3>1. /\ ~(V!seek + V!len <= start)
          /\ ~(V!seek >= start + OverLen)
      BY <1>a, <1>2
    <3>2. QED BY Zenon, <1>2, <3>1 DEF V!override
  <2>2. DOMAIN read_buffer \cup X = 0..(V!len - 1)
    BY <1>a, <1>b, <1>2
  <2>3. \A b \in 0..(V!len - 1) :
          /\ b \in X <=> V!seek + b \in start..(start + OverLen - 1)
          /\ (0) + b - (start - V!seek) = V!seek + b - start
    BY <1>a, <1>2
  <2>4. V!memcpy(read_buffer, start - V!seek, 0, V!seek + V!len - start) =
          [b \in DOMAIN read_buffer \cup X |->
             IF b \in X THEN V!FromOver((0) + b - (start - V!seek)) ELSE read_buffer[b]]
    BY DEF V!memcpy
  <2> HIDE DEF X
  <2>5. QED
    BY Zenon, <2>1, <2>2, <2>3, <2>4
<1>3. CASE /\ V!seek + V!len > start /\ V!seek < start + OverLen /\ V!seek <= start
           /\ V!seek + V!len > start + OverLen
  <2> DEFINE X == (start - V!seek)..((start - V!seek) + OverLen - 1)
  <2>1. V!override(read_buffer, start) =
          V!memcpy(read_buffer, start - V!seek, 0, OverLen)
    <3>1. /\ ~(V!seek + V!len <= start)
          /\ ~(V!seek >= start + OverLen)
          /\ ~(V!seek + V!len <= start + OverLen)
      BY <1>a, <1>3
    <3>2. QED BY Zenon, <1>3, <3>1 DEF V!override
  <2>2. DOMAIN read_buffer \cup X = 0..(V!len - 1)
    BY <1>a, <1>b, <1>3
  <2>3. \A b \in 0..(V!len - 1) :
          /\ b \in X <=> V!seek + b \in start..(start + OverLen - 1)
          /\ (0) + b - (start - V!seek) = V!seek + b - start
    BY <1>a, <1>3
  <2>4. V!memcpy(read_buffer, start - V!seek, 0, OverLen) =
          [b \in DOMAIN read_buffer \cup X |->
             IF b \in X THEN V!FromOver((0) + b - (start - V!seek)) ELSE read_buffer[b]]
    BY DEF V!memcpy
  <2> HIDE DEF X
  <2>5. QED
    BY Zenon, <2>1, <2>2, <2>3, <2>4
<1>4. CASE /\ V!seek + V!len > start /\ V!seek < start + OverLen /\ V!seek > start
           /\ V!seek + V!len <= start + OverLen
  <2> DEFINE X == (0)..(0 + V!len - 1)
  <2>1. V!override(read_buffer, start) =
          V!memcpy(read_buffer, 0, V!seek - start, V!len)
    <3>1. /\ ~(V!seek + V!len <= start)
          /\ ~(V!seek >= start + OverLen)
          /\ ~(V!seek <= start)
      BY <1>a, <1>4
    <3>2. QED BY Zenon, <1>4, <3>1 DEF V!override
  <2>2. DOMAIN read_buffer \cup X = 0..(V!len - 1)
    BY <1>a, <1>b, <1>4
  <2>3. \A b \in 0..(V!len - 1) :
          /\ b \in X <=> V!seek + b \in start..(start + OverLen - 1)
          /\ (V!seek - start) + b - (0) = V!seek + b - start
    BY <1>a, <1>4
  <2>4. V!memcpy(read_buffer, 0, V!seek - start, V!len) =
          [b \in DOMAIN read_buffer \cup X |->
             IF b \in X THEN V!FromOver((V!seek - start) + b - (0)) ELSE read_buffer[b]]
    BY DEF V!memcpy
  <2> HIDE DEF X
  <2>5. QED
    BY Zenon, <2>1, <2>2, <2>3, <2>4
<1>5. CASE /\ V!seek + V!len > start /\ V!seek < start + OverLen /\ V!seek > start
           /\ V!seek + V!len > start + OverLen
  <2> DEFINE X == (0)..(0 + ((start + OverLen) - V!seek) - 1)
  <2>1. V!override(read_buffer, start) =
          V!memcpy(read_buffer, 0, V!seek - start, (start + OverLen) - V!seek)
    <3>1. /\ ~(V!seek + V!len <= start)
          /\ ~(V!seek >= start + OverLen)
          /\ ~(V!seek <= start)
          /\ ~(V!seek + V!len <= start + OverLen)
      BY <1>a, <1>5
    <3>2. QED BY Zenon, <1>5, <3>1 DEF V!override
  <2>2. DOMAIN read_buffer \cup X = 0..(V!len - 1)
    BY <1>a, <1>b, <1>5
  <2>3. \A b \in 0..(V!len - 1) :
          /\ b \in X <=> V!seek + b \in start..(start + OverLen - 1)
          /\ (V!seek - start) + b - (0) = V!seek + b - start
    BY <1>a, <1>5
  <2>4. V!memcpy(read_buffer, 0, V!seek - start, (start + OverLen) - V!seek) =
          [b \in DOMAIN read_buffer \cup X |->
             IF b \in X THEN V!FromOver((V!seek - start) + b - (0)) ELSE read_buffer[b]]
    BY DEF V!memcpy
  <2> HIDE DEF X
  <2>5. QED
    BY Zenon, <2>1, <2>2, <2>3, <2>4
<1>6. QED
  BY SMTT(30), <1>a, <1>1, <1>2, <1>3, <1>4, <1>5

(* Init starts the loop with what the disk holds. *)
LEMMA LoopInit ==
  ASSUME V!SanOverrideAssumption, V!Init PROVE LoopInv
<1>1. read_lba \in Nat /\ blocks \in Nat /\ BlkSize \in Nat /\ DiskBlocks * BlkSize \in Nat
  BY DEF V!Init, V!SanOverrideAssumption
<1>2. V!seek \in Nat /\ V!len \in Nat
  BY <1>1 DEF V!seek, V!len
<1>3. overLoc \in Seq(Nat) /\ turns \in 0..Len(overLoc)
  <2>1. PICK n \in 0..MaxOver : overLoc \in [1..n -> 0..(DiskBlocks * BlkSize - 1)]
    BY DEF V!Init
  <2>2. n \in Nat /\ overLoc \in [1..n -> Nat]
    BY <1>1, <2>1 DEF V!SanOverrideAssumption
  <2>3. QED
    BY <2>2 DEF V!Init
<1>4. \A b \in 0..(V!len - 1) : V!Overlaid(V!seek + b, turns) = V!FromDisk(V!seek + b)
  BY DEF V!Init, V!Overlaid, V!Hits
<1>5. read_buffer = [b \in 0..(V!len - 1) |-> V!FromDisk(V!seek + b)]
  BY DEF V!Init, V!seek, V!len
<1>6. V!InBounds
  BY Zenon, <1>5 DEF V!InBounds, V!FromDisk
<1>7. QED
  BY Zenon, <1>2, <1>3, <1>4, <1>5, <1>6 DEF LoopInv

(* A turn of the loop brings in its own range and keeps the others. *)
LEMMA LoopNext ==
  ASSUME V!SanOverrideAssumption, LoopInv, V!sandev_read PROVE LoopInv'
<1> DEFINE start == overLoc[turns + 1]
<1>1. /\ V!seek \in Nat /\ V!len \in Nat /\ overLoc \in Seq(Nat)
      /\ turns \in Nat /\ turns + 1 \in 1..Len(overLoc) /\ start \in Nat
  BY DEF LoopInv, V!sandev_read
<1>2. V!seek' = V!seek /\ V!len' = V!len /\ overLoc' = overLoc /\ turns' = turns + 1
  BY DEF V!sandev_read, V!seek, V!len
<1>3. read_buffer = [b \in 0..(V!len - 1) |-> V!Overlaid(V!seek + b, turns)]
  BY DEF LoopInv
<1>4. read_buffer' = [b \in 0..(V!len - 1) |->
                   IF V!seek + b \in start..(start + OverLen - 1)
                   THEN V!FromOver(V!seek + b - start) ELSE read_buffer[b]]
  <2>1. read_buffer' = V!override(read_buffer, start)
    BY Zenon DEF V!sandev_read
  <2>2. QED
    BY Zenon, <1>1, <2>1, OverrideExact
<1>5. ASSUME NEW b \in 0..(V!len - 1)
      PROVE  V!Overlaid(V!seek + b, turns + 1) =
               IF V!seek + b \in start..(start + OverLen - 1)
               THEN V!FromOver(V!seek + b - start) ELSE V!Overlaid(V!seek + b, turns)
  <2>1. V!seek + b \in Int
    BY <1>1
  <2>2. turns + 1 \in V!Hits(V!seek + b, turns + 1)
          <=> V!seek + b \in start..(start + OverLen - 1)
    BY <1>1 DEF V!Hits
  <2>3. QED
    BY SMTT(30), <1>1, <2>1, <2>2, OverlaidHit, OverlaidMiss
<1>6. read_buffer' = [b \in 0..(V!len - 1) |-> V!Overlaid(V!seek + b, turns + 1)]
  BY Zenon, <1>3, <1>4, <1>5
<1>7. \A p, n : V!Overlaid(p, n)' = V!Overlaid(p, n)
  BY Zenon, <1>2, OverlaidKept
<1>8. V!InBounds'
  <2>1. OverLen \in Nat /\ V!InBounds
    BY DEF V!SanOverrideAssumption, LoopInv
  <2>2. DOMAIN read_buffer' = 0..(V!len - 1) /\ DOMAIN read_buffer = 0..(V!len - 1)
    BY Zenon, <1>3, <1>4
  <2>3. ASSUME NEW b \in 0..(V!len - 1), read_buffer'[b].from = "over"
        PROVE  read_buffer'[b].at \in 0..(OverLen - 1)
    <3>1. CASE V!seek + b \in start..(start + OverLen - 1)
      <4>1. read_buffer'[b].at = V!seek + b - start
        BY Zenon, <1>4, <3>1 DEF V!FromOver
      <4>2. QED
        BY SMTT(30), <1>1, <2>1, <3>1, <4>1
    <3>2. CASE V!seek + b \notin start..(start + OverLen - 1)
      <4>1. read_buffer'[b] = read_buffer[b]
        BY <1>4, <3>2
      <4>2. QED
        BY Zenon, <2>1, <2>2, <2>3, <4>1 DEF V!InBounds
    <3>3. QED
      BY Zenon, <3>1, <3>2
  <2>4. QED
    BY Zenon, <1>2, <2>2, <2>3 DEF V!InBounds
<1>9. QED
  BY SMTT(30), <1>1, <1>2, <1>6, <1>7, <1>8 DEF LoopInv

(* While the loop runs, every byte of the buffer of sandev_read is that of *)
(* the disk overlaid with the ranges that have had their turn, and no byte *)
(* beside the buffer is written nor one beside the override buffer read:   *)
(* for every size of block, disk and range and any number of ranges.       *)
THEOREM OverlayExact ==
  ASSUME V!SanOverrideAssumption PROVE V!Spec => []ReadIsOverlaid
<1>1. V!Init => LoopInv
  BY LoopInit
<1>2. LoopInv /\ [V!Next]_V!vars => LoopInv'
  <2> SUFFICES ASSUME LoopInv, [V!Next]_V!vars PROVE LoopInv'
    OBVIOUS
  <2>1. CASE V!sandev_read
    BY Zenon, <2>1, LoopNext
  <2>2. CASE UNCHANGED V!vars
    <3>1. V!seek' = V!seek /\ V!len' = V!len /\ \A p, n : V!Overlaid(p, n)' = V!Overlaid(p, n)
      BY Zenon, <2>2, OverlaidKept DEF V!vars, V!seek, V!len
    <3>2. V!InBounds'
      BY <2>2, <3>1 DEF V!vars, LoopInv, V!InBounds
    <3>3. QED
      BY Zenon, <2>2, <3>1, <3>2 DEF V!vars, LoopInv
  <2>3. QED
    BY Zenon, <2>1, <2>2 DEF V!Next
<1>3. LoopInv => ReadIsOverlaid
  BY DEF LoopInv, ReadIsOverlaid, V!ReadIsOverlaid
<1>4. QED
  BY <1>1, <1>2, <1>3, PTL DEF V!Spec

-----------------------------------------------------------------------------
(* Commands over several paths *)

(* Lists o and c hold every path once between them. *)
ListsOK(o, c) ==
    /\ o \in Seq(Paths) /\ c \in Seq(Paths) /\ Distinct(o) /\ Distinct(c)
    /\ \A p \in Paths : In(o, p) <=> ~In(c, p)

Waiting == {"waiting", "waiting step"}

(* The paths: the active one is opened *)
PathsInv ==
    /\ ListsOK(opened, closed)
    /\ active # None => In(opened, active)

(* The command: only while the caller waits, only through the active path, *)
(* and for the blocks the caller is at                                     *)
CommandInv ==
    /\ timer \in BOOLEAN
    /\ timer => active # None
    /\ pc \notin Waiting => ~timer
    /\ command # NoCommand => timer /\ command = Fragment

(* The blocks: those before lba have been moved, and those of the command  *)
(* too when it is over and its status is no error                          *)
BlocksInv ==
    /\ lba \in 0..Count
    /\ pc # "idle" => 0..(lba - 1) \subseteq moved
    /\ pc \in Waiting /\ ~timer /\ command_rc = OK => Fragment \subseteq moved

SanInv == PathsInv /\ CommandInv /\ BlocksInv

(* Closing an opened path moves it from one list to the other. *)
LEMMA CloseMoves ==
    ASSUME PathsInv, NEW p \in Paths, NEW rc, sanpath_close(p, rc)
    PROVE  PathsInv'
  <1>1. PICK i \in DOMAIN opened : opened[i] = p /\ opened' = list_del(opened, i)
    BY Zenon DEF sanpath_close
  <1>2. /\ opened \in Seq(Paths) /\ closed \in Seq(Paths)
        /\ Distinct(opened) /\ Distinct(closed)
        /\ \A q \in Paths : In(opened, q) <=> ~In(closed, q)
    BY Zenon DEF PathsInv, ListsOK
  <1>3. /\ opened' \in Seq(Paths) /\ Distinct(opened')
        /\ \A u : In(opened', u) <=> In(opened, u) /\ u # p
    BY Zenon, <1>1, <1>2, Delisted
  <1>4. In(opened, p) /\ ~In(closed, p) /\ closed' = Append(closed, p)
    BY Zenon, <1>1, <1>2 DEF In, sanpath_close
  <1>5. /\ closed' \in Seq(Paths) /\ Distinct(closed')
        /\ \A u : In(closed', u) <=> In(closed, u) \/ u = p
    BY Zenon, <1>2, <1>4, Appended
  <1>6. ListsOK(opened, closed)'
    BY Zenon, <1>2, <1>3, <1>5 DEF ListsOK, Paths
  <1>7. active' # None => In(opened', active')
    BY Zenon, <1>3 DEF sanpath_close, PathsInv
  <1>8. QED BY Zenon, <1>6, <1>7 DEF PathsInv

(* Closing a path ends the command with the path's status if it went       *)
(* through that path, and leaves it alone otherwise.                       *)
LEMMA CloseEnds ==
    ASSUME NEW p \in Paths, NEW rc, sanpath_close(p, rc)
    PROVE  \/ sandev_command_close(rc) /\ p = active
           \/ UNCHANGED <<active, timer, command, command_rc>> /\ p # active
  BY Zenon DEF sanpath_close

(* An event in which the command ends with an error, or goes on. *)
LEMMA EventKeeps ==
    ASSUME SanbootAssumption, SanInv, Event, moved' = moved,
           \/ \E rc : sandev_command_close(rc) /\ rc # OK
           \/ UNCHANGED <<timer, command, command_rc>> /\ (timer => active' # None)
    PROVE  CommandInv' /\ BlocksInv'
  <1>1. /\ pc' = pc /\ lba' = lba /\ Fragment' = Fragment
    BY Zenon DEF Event, Fragment, frag_count
  <1>2. CASE \E rc : sandev_command_close(rc) /\ rc # OK
    <2>1. timer' = FALSE /\ command' = NoCommand /\ command_rc' # OK
      BY Zenon, <1>2 DEF sandev_command_close
    <2>2. CommandInv'
      BY Zenon, <2>1 DEF CommandInv, NoCommand
    <2>3. QED BY Zenon, <1>1, <2>1, <2>2 DEF SanInv, BlocksInv, Waiting
  <1>3. CASE UNCHANGED <<timer, command, command_rc>> /\ (timer => active' # None)
    BY Zenon, <1>1, <1>3 DEF SanInv, CommandInv, BlocksInv, Waiting, NoCommand
  <1>4. QED BY Zenon, <1>2, <1>3

(* A path becomes available, or closes. *)
LEMMA PathEventKeeps ==
    ASSUME SanbootAssumption, SanInv, NEW p \in Paths,
           path_available(p) \/ \E rc \in {OK, Error} : path_closed(p, rc)
    PROVE  SanInv'
  <1>1. Event /\ p \in Range(opened) /\ moved' = moved
    BY Zenon DEF path_available, path_closed
  <1>2. In(opened, p) /\ p # None
    <2>1. p # None
      BY DEF Paths, None
    <2>2. QED BY Zenon, <1>1, <2>1 DEF In, Range
  <1>3. CASE active = None /\ active' = p /\ UNCHANGED <<opened, closed, timer, command, command_rc>>
    <2>1. PathsInv'
      BY Zenon, <1>2, <1>3 DEF SanInv, PathsInv, ListsOK, Paths
    <2>2. CommandInv' /\ BlocksInv'
      BY Zenon, <1>1, <1>2, <1>3, EventKeeps
    <2>3. QED BY Zenon, <2>1, <2>2 DEF SanInv
  <1>4. CASE p # active /\ sanpath_close(p, OK)
    <2>1. PathsInv'
      BY Zenon, <1>4, CloseMoves DEF SanInv
    <2>2. UNCHANGED <<active, timer, command, command_rc>>
      BY Zenon, <1>4 DEF sanpath_close
    <2>3. timer => active' # None
      BY Zenon, <2>2 DEF SanInv, CommandInv
    <2>4. CommandInv' /\ BlocksInv'
      BY Zenon, <1>1, <2>2, <2>3, EventKeeps
    <2>5. QED BY Zenon, <2>1, <2>4 DEF SanInv
  <1>5. ASSUME NEW rc, rc # OK, sanpath_close(p, rc) PROVE SanInv'
    <2>1. PathsInv'
      BY Zenon, <1>5, CloseMoves DEF SanInv
    <2>2. \/ \E r : sandev_command_close(r) /\ r # OK
          \/ UNCHANGED <<timer, command, command_rc>> /\ (timer => active' # None)
      <3>1. timer => active # None
        BY Zenon DEF SanInv, CommandInv
      <3>2. \/ sandev_command_close(rc) /\ p = active
            \/ UNCHANGED <<active, timer, command, command_rc>> /\ p # active
        BY Zenon, <1>5, CloseEnds
      <3>3. QED BY Zenon, <1>5, <3>1, <3>2
    <2>3. CommandInv' /\ BlocksInv'
      BY Zenon, <1>1, <2>2, EventKeeps
    <2>4. QED BY Zenon, <2>1, <2>3 DEF SanInv
  <1>6. CASE path_available(p)
    BY Zenon, <1>3, <1>4, <1>6 DEF path_available, sanpath_step
  <1>7. ASSUME NEW rc \in {OK, Error}, path_closed(p, rc) PROVE SanInv'
    <2>1. (IF rc = OK THEN Error ELSE rc) # OK
      BY DEF OK, Error
    <2>2. QED BY Zenon, <1>5, <1>7, <2>1 DEF path_closed, sanpath_block_close
  <1>8. QED BY Zenon, <1>6, <1>7

(* The block device finishes the command, or it times out. *)
LEMMA CommandEventKeeps ==
    ASSUME SanbootAssumption, SanInv,
           sandev_command_expired \/ \E rc \in {OK, Error} : command_done(rc)
    PROVE  SanInv'
  <1>1. UNCHANGED pathVars
    BY Zenon DEF sandev_command_expired, command_done
  <1>2. PathsInv'
    BY Zenon, <1>1 DEF pathVars, SanInv, PathsInv, ListsOK, Paths
  <1>3. ASSUME NEW rc, rc # OK, Event, sandev_command_close(rc), moved' = moved
        PROVE  SanInv'
    BY Zenon, <1>2, <1>3, EventKeeps DEF SanInv
  <1>4. ETIMEDOUT # OK /\ Error # OK
    BY DEF ETIMEDOUT, Error, OK
  <1>5. CASE sandev_command_expired
    BY Zenon, <1>3, <1>4, <1>5 DEF sandev_command_expired
  <1>6. CASE command_done(Error)
    BY Zenon, <1>3, <1>4, <1>6 DEF command_done
  <1>7. CASE command_done(OK)
    <2>1. /\ pc' = pc /\ lba' = lba /\ Fragment' = Fragment
      BY Zenon, <1>7 DEF command_done, Event, Fragment, frag_count
    <2>2. /\ timer' = FALSE /\ command' = NoCommand
          /\ moved' = moved \cup command /\ command = Fragment
      BY Zenon, <1>7 DEF command_done, sandev_command_close, SanInv, CommandInv
    <2>3. CommandInv'
      BY Zenon, <2>2 DEF CommandInv, NoCommand
    <2>4. BlocksInv'
      BY Zenon, <2>1, <2>2 DEF SanInv, BlocksInv
    <2>5. QED BY Zenon, <1>2, <2>3, <2>4 DEF SanInv
  <1>8. QED BY Zenon, <1>5, <1>6, <1>7

(* A step of the caller that leaves no command behind and is not the end   *)
(* of a fragment.                                                          *)
LEMMA CallerKeeps ==
    ASSUME SanbootAssumption, SanInv, PathsInv', pc # "idle",
           pc' \notin Waiting, UNCHANGED <<lba, moved>>,
           \/ \E rc : sandev_command_close(rc)
           \/ ~timer /\ UNCHANGED <<timer, command>>
    PROVE  SanInv'
  <1>1. timer' = FALSE /\ command' = NoCommand
    BY Zenon DEF sandev_command_close, SanInv, CommandInv
  <1>2. CommandInv'
    BY Zenon, <1>1 DEF CommandInv, NoCommand
  <1>3. BlocksInv'
    BY Zenon DEF SanInv, BlocksInv
  <1>4. QED BY Zenon, <1>2, <1>3 DEF SanInv

(* Retry leads to another attempt or to the end of the call. *)
LEMMA RetryFacts ==
    ASSUME NEW n, Retry(n)
    PROVE  pc' \notin Waiting /\ UNCHANGED <<lba, moved>>
  BY DEF Retry, Waiting

(* sandev_reopen up to its loop: every path is opened, or none. *)
LEMMA ReopenBeginKeeps ==
    ASSUME SanbootAssumption, SanInv, NEW k \in 0..NumPaths, reopen_begin(k)
    PROVE  SanInv'
  <1> DEFINE order == closed \o opened
  <1>1. /\ opened \in Seq(Paths) /\ closed \in Seq(Paths)
        /\ Distinct(opened) /\ Distinct(closed)
        /\ \A q \in Paths : In(opened, q) <=> ~In(closed, q)
    BY Zenon DEF SanInv, PathsInv, ListsOK
  <1>2. /\ order \in Seq(Paths) /\ Distinct(order)
        /\ \A u : In(order, u) <=> In(closed, u) \/ In(opened, u)
    <2>1. \A q \in Paths : ~(In(closed, q) /\ In(opened, q))
      BY Zenon, <1>1
    <2>2. QED BY <1>1, <2>1, Joined
  <1>3. \A q \in Paths : In(order, q)
    BY Zenon, <1>1, <1>2
  <1>4. <<>> \in Seq(Paths) /\ Distinct(<<>>) /\ \A u : ~In(<<>>, u)
    BY DEF Distinct, In
  <1>5. pc = "retry" /\ active = None /\ k <= Len(order)
    BY Zenon DEF reopen_begin
  <1>6. CASE k > 0
    <2> DEFINE a == SubSeq(order, k, Len(order))
               b == SubSeq(order, 1, k - 1)
    <2>1. k \in 1..Len(order)
      BY <1>2, <1>5, <1>6, LenProperties
    <2>2. /\ opened' = <<>> /\ closed' = a \o b /\ active' = None
          /\ sandev_command_close(Error)
          /\ Retry(IF NumPaths <= 1 THEN 1 ELSE 0)
      BY Zenon, <1>6 DEF reopen_begin, sandev_restart
    <2> HIDE DEF order
    <2>3. /\ a \in Seq(Paths) /\ b \in Seq(Paths) /\ Distinct(a) /\ Distinct(b)
          /\ \A u : In(order, u) <=> In(a, u) \/ In(b, u)
          /\ \A u : ~(In(a, u) /\ In(b, u))
      BY Zenon, <1>2, <2>1, Cut
    <2> HIDE DEF a, b
    <2>4. /\ a \o b \in Seq(Paths) /\ Distinct(a \o b)
          /\ \A u : In(a \o b, u) <=> In(a, u) \/ In(b, u)
      <3>1. \A q \in Paths : ~(In(a, q) /\ In(b, q))
        BY Zenon, <2>3
      <3>2. QED BY <2>3, <3>1, Joined
    <2>5. ListsOK(opened, closed)'
      BY Zenon, <1>3, <1>4, <2>2, <2>3, <2>4 DEF ListsOK, Paths
    <2>6. PathsInv'
      BY Zenon, <2>2, <2>5 DEF PathsInv
    <2>7. pc # "idle"
      BY <1>5
    <2>8. QED BY Zenon, <2>2, <2>6, <2>7, CallerKeeps, RetryFacts
  <1>7. CASE ~(k > 0)
    <2>1. /\ opened' = order /\ closed' = <<>> /\ active' = None
          /\ sandev_command_close(Error) /\ pc' = "reopening"
          /\ UNCHANGED <<lba, moved>>
      BY Zenon, <1>5, <1>7 DEF reopen_begin, callVars
    <2> HIDE DEF order
    <2>2. ListsOK(opened, closed)'
      BY Zenon, <1>2, <1>3, <1>4, <2>1 DEF ListsOK, Paths
    <2>3. PathsInv'
      BY Zenon, <2>1, <2>2 DEF PathsInv
    <2>4. pc # "idle" /\ pc' \notin Waiting
      BY <1>5, <2>1 DEF Waiting
    <2>5. QED BY Zenon, <2>1, <2>3, <2>4, CallerKeeps
  <1>8. QED BY Zenon, <1>6, <1>7

(* After a step() of sandev_reopen. *)
LEMMA ReopenCheckKeeps ==
    ASSUME SanbootAssumption, SanInv, reopen_check
    PROVE  SanInv'
  <1>1. pc # "idle" /\ ~timer
    BY Zenon DEF reopen_check, SanInv, CommandInv, Waiting
  <1>2. CASE opened = <<>>
    <2> DEFINE rc == path_rc[Head(closed)]
    <2>1. /\ sandev_restart(rc, {}, closed)
          /\ IF rc = OK THEN pc' = "issue" /\ UNCHANGED callVars
             ELSE Retry(IF NumPaths <= 1 THEN 1 ELSE 0)
      BY Zenon, <1>2 DEF reopen_check
    <2>2. /\ opened' = opened /\ closed' = closed /\ active' = None
          /\ sandev_command_close(rc)
      BY Zenon, <1>2, <2>1 DEF sandev_restart
    <2>3. PathsInv'
      BY Zenon, <2>2 DEF SanInv, PathsInv, ListsOK, Paths
    <2>4. pc' \notin Waiting /\ UNCHANGED <<lba, moved>>
      <3>1. CASE rc = OK
        BY <2>1, <3>1 DEF callVars, Waiting
      <3>2. CASE rc # OK
        BY Zenon, <2>1, <3>2, RetryFacts
      <3>3. QED BY Zenon, <3>1, <3>2
    <2>5. QED BY Zenon, <1>1, <2>2, <2>3, <2>4, CallerKeeps
  <1>3. CASE opened # <<>>
    <2>1. /\ pc' = IF active # None THEN "issue" ELSE "reopening"
          /\ UNCHANGED <<pathVars, commandVars, callVars>>
      BY Zenon, <1>3 DEF reopen_check
    <2>2. PathsInv'
      BY Zenon, <2>1 DEF SanInv, PathsInv, ListsOK, Paths, pathVars
    <2>3. pc' \notin Waiting
      BY <2>1 DEF Waiting
    <2>4. UNCHANGED <<timer, command>> /\ UNCHANGED <<lba, moved>>
      BY Zenon, <2>1 DEF commandVars, callVars
    <2>5. QED BY Zenon, <1>1, <2>2, <2>3, <2>4, CallerKeeps
  <1>4. QED BY Zenon, <1>2, <1>3

(* The next command: what it is given, if it starts, is the fragment. *)
LEMMA CommandKeeps ==
    ASSUME SanbootAssumption, SanInv, NEW outcome, sandev_command_rw(outcome)
    PROVE  SanInv'
  <1>1. pc = "issue" /\ UNCHANGED pathVars
    BY Zenon DEF sandev_command_rw
  <1>2. pc # "idle" /\ ~timer
    BY <1>1 DEF SanInv, CommandInv, Waiting
  <1>3. PathsInv'
    BY Zenon, <1>1 DEF SanInv, PathsInv, ListsOK, Paths, pathVars
  <1>4. CASE active = None
    <2>1. pc' = "NULL path" /\ UNCHANGED <<timer, command>> /\ UNCHANGED <<lba, moved>>
      BY Zenon, <1>4 DEF sandev_command_rw, commandVars, callVars
    <2>2. pc' \notin Waiting
      BY Zenon, <2>1 DEF Waiting
    <2>3. QED BY Zenon, <1>2, <1>3, <2>1, <2>2, CallerKeeps
  <1>5. CASE Retry(1) /\ UNCHANGED commandVars
    <2>1. UNCHANGED <<timer, command>>
      BY Zenon, <1>5 DEF commandVars
    <2>2. QED BY Zenon, <1>2, <1>3, <1>5, <2>1, CallerKeeps, RetryFacts
  <1>6. CASE /\ active # None /\ timer' = TRUE /\ command' \in {Fragment, NoCommand}
             /\ pc' = "waiting" /\ UNCHANGED callVars
    <2>1. /\ active' # None /\ lba' = lba /\ moved' = moved /\ Fragment' = Fragment
      BY <1>1, <1>6 DEF pathVars, callVars, Fragment, frag_count
    <2>2. CommandInv'
      BY Zenon, <1>6, <2>1 DEF CommandInv, Waiting
    <2>3. BlocksInv'
      BY Zenon, <1>2, <1>6, <2>1 DEF SanInv, BlocksInv
    <2>4. QED BY Zenon, <1>3, <2>2, <2>3 DEF SanInv
  <1>7. QED BY Zenon, <1>4, <1>5, <1>6 DEF sandev_command_rw

(* After a step() of the wait: a fragment counts when its command did.     *)
LEMMA WaitCheckKeeps ==
    ASSUME SanbootAssumption, SanInv, wait_check
    PROVE  SanInv'
  <1>1. /\ pc = "waiting step" /\ UNCHANGED pathVars /\ UNCHANGED commandVars
    BY Zenon DEF wait_check
  <1>2. PathsInv'
    BY Zenon, <1>1 DEF SanInv, PathsInv, ListsOK, Paths, pathVars
  <1>3. pc # "idle" /\ pc \in Waiting /\ UNCHANGED <<timer, command, command_rc, active>>
    BY Zenon, <1>1 DEF Waiting, commandVars, pathVars
  <1>4. CASE timer
    <2>1. pc' = "waiting" /\ lba' = lba /\ moved' = moved
      BY Zenon, <1>4 DEF wait_check, callVars
    <2>2. Fragment' = Fragment
      BY <2>1 DEF Fragment, frag_count
    <2>3. CommandInv'
      BY Zenon, <1>3, <2>1, <2>2 DEF SanInv, CommandInv, Waiting
    <2>4. BlocksInv'
      BY Zenon, <1>3, <1>4, <2>1, <2>2 DEF SanInv, BlocksInv
    <2>5. QED BY Zenon, <1>2, <2>3, <2>4 DEF SanInv
  <1>5. CASE ~timer /\ command_rc # OK
    <2>1. Retry(1)
      BY Zenon, <1>5 DEF wait_check
    <2>2. QED BY Zenon, <1>2, <1>3, <1>5, <2>1, CallerKeeps, RetryFacts
  <1>6. CASE ~timer /\ command_rc = OK
    <2> DEFINE next == lba + frag_count
    <2>1. /\ lba' = next /\ moved' = moved
          /\ pc' = IF next < Count THEN "retry" ELSE "done"
      BY Zenon, <1>6 DEF wait_check
    <2>2. /\ lba \in 0..Count /\ 0..(lba - 1) \subseteq moved
          /\ Fragment \subseteq moved
      BY Zenon, <1>3, <1>6 DEF SanInv, BlocksInv
    <2>3. Count \in Nat /\ MaxCount \in Nat
      BY DEF SanbootAssumption
    <2>4. /\ next \in 0..Count
          /\ \A b \in 0..(next - 1) : b \in 0..(lba - 1) \/ b \in Fragment
      BY <2>2, <2>3 DEF Fragment, frag_count
    <2> HIDE DEF next
    <2>5. 0..(next - 1) \subseteq moved
      BY Zenon, <2>2, <2>4
    <2>6. pc' \notin Waiting /\ pc' # "idle"
      BY <2>1 DEF Waiting
    <2>7. BlocksInv'
      BY Zenon, <2>1, <2>4, <2>5, <2>6 DEF BlocksInv
    <2>8. CommandInv'
      BY Zenon, <1>3, <1>6 DEF SanInv, CommandInv
    <2>9. QED BY Zenon, <1>2, <2>7, <2>8 DEF SanInv
  <1>7. QED BY Zenon, <1>4, <1>5, <1>6

(* The steps that touch neither the paths nor a command. *)
LEMMA QuietKeeps ==
    ASSUME SanbootAssumption, SanInv,
           UNCHANGED vars \/ sandev_rw \/ no_reopen \/ return \/ step
    PROVE  SanInv'
  <1>1. UNCHANGED pathVars /\ UNCHANGED commandVars
    BY Zenon DEF vars, pathVars, commandVars, sandev_rw, no_reopen, return, step
  <1>2. PathsInv'
    BY Zenon, <1>1 DEF SanInv, PathsInv, ListsOK, Paths, pathVars
  <1>3. UNCHANGED <<timer, command, command_rc, active>>
    BY Zenon, <1>1 DEF commandVars, pathVars
  <1>4. CASE UNCHANGED vars \/ no_reopen \/ return \/ step
    <2>1. lba' = lba /\ moved' = moved
      BY Zenon, <1>4 DEF vars, callVars, no_reopen, return, step
    <2>2. Fragment' = Fragment
      BY <2>1 DEF Fragment, frag_count
    <2>3. (pc' \in Waiting <=> pc \in Waiting) /\ (pc' # "idle" => pc # "idle")
      BY Zenon, <1>4 DEF vars, no_reopen, return, step, Waiting
    <2>4. CommandInv' /\ BlocksInv'
      BY Zenon, <1>3, <2>1, <2>2, <2>3 DEF SanInv, CommandInv, BlocksInv
    <2>5. QED BY Zenon, <1>2, <2>4 DEF SanInv
  <1>5. CASE sandev_rw
    <2>1. pc' \notin Waiting /\ ~timer /\ lba' = 0 /\ moved' = {}
      BY <1>5 DEF sandev_rw, Waiting, SanInv, CommandInv
    <2>2. CommandInv'
      BY Zenon, <1>3, <2>1 DEF SanInv, CommandInv
    <2>3. 0 \in 0..Count /\ 0..(0 - 1) = {}
      BY DEF SanbootAssumption
    <2>4. BlocksInv'
      BY Zenon, <2>1, <2>3 DEF BlocksInv
    <2>5. QED BY Zenon, <1>2, <2>2, <2>4 DEF SanInv
  <1>6. QED BY Zenon, <1>4, <1>5

LEMMA SanInit == ASSUME SanbootAssumption, Init PROVE SanInv
  <1>1. NumPaths \in Nat /\ Count \in Nat
    BY DEF SanbootAssumption
  <1>2. /\ <<>> \in Seq(Paths) /\ Distinct(<<>>) /\ \A u : ~In(<<>>, u)
    BY DEF Distinct, In
  <1>3. [i \in Paths |-> i] \in Seq(Paths)
    BY <1>1 DEF Paths
  <1>4. Distinct([i \in Paths |-> i]) /\ \A p \in Paths : In([i \in Paths |-> i], p)
    BY DEF Distinct, In
  <1>5. PathsInv
    BY Zenon, <1>2, <1>3, <1>4 DEF Init, PathsInv, ListsOK
  <1>6. CommandInv
    BY Zenon DEF Init, CommandInv, Waiting
  <1>7. BlocksInv
    BY <1>1 DEF Init, BlocksInv, Waiting
  <1>8. QED BY Zenon, <1>5, <1>6, <1>7 DEF SanInv

LEMMA SanNext == ASSUME SanbootAssumption, SanInv, [Next]_vars PROVE SanInv'
  <1>1. CASE UNCHANGED vars \/ sandev_rw \/ no_reopen \/ return \/ step
    BY Zenon, <1>1, QuietKeeps
  <1>2. CASE reopen_check
    BY Zenon, <1>2, ReopenCheckKeeps
  <1>3. CASE wait_check
    BY Zenon, <1>3, WaitCheckKeeps
  <1>4. CASE \E k \in 0..NumPaths : reopen_begin(k)
    BY Zenon, <1>4, ReopenBeginKeeps
  <1>5. CASE \E outcome \in {"error", "started", "over"} : sandev_command_rw(outcome)
    BY Zenon, <1>5, CommandKeeps
  <1>6. CASE \E p \in Paths : \/ path_available(p)
                             \/ \E rc \in {OK, Error} : path_closed(p, rc)
    BY Zenon, <1>6, PathEventKeeps
  <1>7. CASE sandev_command_expired \/ \E rc \in {OK, Error} : command_done(rc)
    BY Zenon, <1>7, CommandEventKeeps
  <1>8. QED BY Zenon, <1>1, <1>2, <1>3, <1>4, <1>5, <1>6, <1>7 DEF Next

(* Whatever the caller of sandev_rw has been told of has been moved by a   *)
(* command of this call, and paths, command and timer are in order: for    *)
(* any number of paths, blocks, retries and events in one step().          *)
THEOREM SanDeviceSound ==
    ASSUME SanbootAssumption PROVE Spec => []SanSound
  <1>1. Init => SanInv
    BY Zenon, SanInit
  <1>2. SanInv /\ [Next]_vars => SanInv'
    BY Zenon, SanNext
  <1>3. ASSUME SanInv PROVE SanSound
    <2>1. MovedExact
      BY Zenon, <1>3 DEF SanInv, BlocksInv, MovedExact
    <2>2. \A s : \A u : u \in Range(s) <=> In(s, u)
      BY Zenon DEF Range, In
    <2>3. \A s \in Seq(Paths) : \A u : In(s, u) => u \in Paths
      BY ElementOfSeq, LenProperties DEF In
    <2>4. ListsOK(opened, closed) /\ (active # None => In(opened, active))
      BY Zenon, <1>3 DEF SanInv, PathsInv
    <2>5. Range(opened) \cap Range(closed) = {}
      BY Zenon, <2>2, <2>3, <2>4 DEF ListsOK
    <2>6. Range(opened) \cup Range(closed) = Paths
      BY Zenon, <2>2, <2>3, <2>4 DEF ListsOK
    <2>7. active # None => active \in Range(opened)
      BY Zenon, <2>2, <2>4
    <2>8. pc \in {"retry", "issue", "idle"} => pc \notin Waiting
      BY Zenon DEF Waiting
    <2>9. /\ command # NoCommand => active # None /\ timer
          /\ pc \in {"retry", "issue", "idle"} => ~timer /\ command = NoCommand
      BY Zenon, <1>3, <2>8 DEF SanInv, CommandInv
    <2>10. QED BY Zenon, <2>1, <2>5, <2>6, <2>7, <2>9 DEF SanSound, PathsSound
  <1>4. QED BY <1>1, <1>2, <1>3, PTL DEF Spec

-----------------------------------------------------------------------------
(* A device with one path *)

(* A closed path has failed, and a command is issued to an active path. *)
OnePathInv ==
    /\ path_rc \in [Paths -> Int]
    /\ \A p \in Paths : In(closed, p) => path_rc[p] # OK
    /\ pc = "issue" => active # None
    /\ pc # "NULL path"

(* Closing with an error leaves the path with that error. *)
LEMMA OneCloses ==
    ASSUME SanInv, OnePathInv, NEW p \in Paths, NEW rc \in Int, rc # OK,
           sanpath_close(p, rc)
    PROVE  /\ path_rc' \in [Paths -> Int]
           /\ \A q \in Paths : In(closed', q) => path_rc'[q] # OK
  <1>1. /\ path_rc \in [Paths -> Int] /\ path_rc' = [path_rc EXCEPT ![p] = rc]
        /\ closed' = Append(closed, p)
        /\ \E i \in DOMAIN opened : opened[i] = p
    BY Zenon DEF OnePathInv, sanpath_close
  <1>2. closed \in Seq(Paths) /\ Distinct(closed) /\ ~In(closed, p)
    BY Zenon, <1>1 DEF SanInv, PathsInv, ListsOK, In
  <1>3. \A u : In(closed', u) <=> In(closed, u) \/ u = p
    BY Zenon, <1>1, <1>2, Appended
  <1>4. path_rc' \in [Paths -> Int]
    BY <1>1
  <1>5. path_rc'[p] = rc /\ \A q \in Paths : q # p => path_rc'[q] = path_rc[q]
    BY <1>1
  <1>6. QED BY Zenon, <1>3, <1>4, <1>5 DEF OnePathInv

LEMMA OnePathEvent ==
    ASSUME SanbootAssumption, NumPaths = 1, SanInv, OnePathInv, NEW p \in Paths,
           path_available(p) \/ \E rc \in {OK, Error} : path_closed(p, rc)
    PROVE  OnePathInv'
  <1>1. Event /\ In(opened, p)
    BY Zenon DEF path_available, path_closed, Range, In
  <1>2. pc' # "issue" /\ pc' # "NULL path"
    BY Zenon, <1>1 DEF Event
  <1>3. CASE path_available(p)
    <2>1. active = None
      <3>1. SUFFICES ASSUME active # None PROVE FALSE
        OBVIOUS
      <3>2. opened \in Seq(Paths) /\ In(opened, active) /\ p # active
        BY Zenon, <1>3, <3>1 DEF SanInv, PathsInv, ListsOK, path_available, sanpath_step
      <3>3. active \in Paths
        BY <3>2, ElementOfSeq, LenProperties DEF In
      <3>4. QED BY <3>2, <3>3 DEF Paths
    <2>2. /\ path_rc' = [path_rc EXCEPT ![p] = OK] /\ closed' = closed
      BY Zenon, <1>3, <2>1 DEF path_available, sanpath_step
    <2>3. path_rc' \in [Paths -> Int]
      <3>1. path_rc \in [Paths -> Int]
        BY Zenon DEF OnePathInv
      <3>2. OK \in Int
        BY DEF OK
      <3>3. QED BY <2>2, <3>1, <3>2
    <2>4. \A q \in Paths : q = p
      BY DEF Paths
    <2>5. \A q \in Paths : ~In(closed', q)
      BY Zenon, <1>1, <2>2, <2>4 DEF SanInv, PathsInv, ListsOK
    <2>6. QED BY Zenon, <1>2, <2>3, <2>5 DEF OnePathInv
  <1>4. ASSUME NEW rc \in {OK, Error}, path_closed(p, rc) PROVE OnePathInv'
    <2> DEFINE r == IF rc = OK THEN Error ELSE rc
    <2>1. r # OK /\ r \in Int
      BY DEF OK, Error
    <2>2. sanpath_close(p, r)
      BY Zenon, <1>4 DEF path_closed, sanpath_block_close
    <2> HIDE DEF r
    <2>3. /\ path_rc' \in [Paths -> Int]
          /\ \A q \in Paths : In(closed', q) => path_rc'[q] # OK
      BY Zenon, <2>1, <2>2, OneCloses
    <2>4. QED BY Zenon, <1>2, <2>3 DEF OnePathInv
  <1>5. QED BY Zenon, <1>3, <1>4

LEMMA OnePathReopen ==
    ASSUME SanbootAssumption, NumPaths = 1, SanInv, OnePathInv,
           reopen_check \/ \E k \in 0..NumPaths : reopen_begin(k)
    PROVE  OnePathInv'
  <1>1. \A n : Retry(n) => pc' # "issue" /\ pc' # "NULL path"
    BY DEF Retry
  <1>2. Error # OK /\ Error \in Int /\ EINPROGRESS # OK /\ EINPROGRESS \in Int
    BY DEF Error, OK, EINPROGRESS
  <1>3. path_rc \in [Paths -> Int]
    BY Zenon DEF OnePathInv
  <1>4. \A p \in Paths : In(opened, p) \/ In(closed, p)
    BY Zenon DEF SanInv, PathsInv, ListsOK
  <1>5. ASSUME NEW k \in 0..NumPaths, reopen_begin(k), k > 0 PROVE OnePathInv'
    <2> DEFINE open == Range(opened)
                         \cup {(closed \o opened)[i] : i \in 1..(k - 1)}
    <2>1. /\ path_rc' = [p \in Paths |-> IF p \in open THEN Error ELSE path_rc[p]]
          /\ Retry(IF NumPaths <= 1 THEN 1 ELSE 0)
      BY Zenon, <1>5 DEF reopen_begin, sandev_restart
    <2>2. \A p \in Paths : In(opened, p) => p \in open
      BY Zenon DEF In, Range
    <2> HIDE DEF open
    <2>3. path_rc' \in [Paths -> Int]
      BY ZenonT(40), <1>2, <1>3, <2>1
    <2>4. \A p \in Paths : path_rc'[p] # OK
      BY Zenon, <1>2, <1>4, <2>1, <2>2 DEF OnePathInv
    <2>5. QED BY Zenon, <1>1, <2>1, <2>3, <2>4 DEF OnePathInv
  <1>6. ASSUME NEW k \in 0..NumPaths, reopen_begin(k), ~(k > 0) PROVE OnePathInv'
    <2>1. path_rc' = [p \in Paths |-> EINPROGRESS] /\ pc' = "reopening"
      BY Zenon, <1>6 DEF reopen_begin
    <2>2. path_rc' \in [Paths -> Int] /\ \A p \in Paths : path_rc'[p] # OK
      BY <1>2, <2>1
    <2>3. pc' # "issue" /\ pc' # "NULL path"
      BY <2>1
    <2>4. QED BY Zenon, <2>2, <2>3 DEF OnePathInv
  <1>7. CASE reopen_check /\ opened = <<>>
    <2> DEFINE rc == path_rc[Head(closed)]
    <2>1. /\ sandev_restart(rc, {}, closed)
          /\ IF rc = OK THEN pc' = "issue" /\ UNCHANGED callVars
             ELSE Retry(IF NumPaths <= 1 THEN 1 ELSE 0)
      BY Zenon, <1>7 DEF reopen_check
    <2>2. 1 \in Paths /\ ~In(<<>>, 1)
      BY DEF Paths, In
    <2>3. In(closed, 1)
      BY Zenon, <1>4, <1>7, <2>2
    <2>4. closed \in Seq(Paths) /\ Distinct(closed)
      BY Zenon DEF SanInv, PathsInv, ListsOK
    <2>5. closed # <<>>
      BY <2>3 DEF In
    <2>6. Head(closed) \in Paths /\ In(closed, Head(closed))
      BY Zenon, <2>4, <2>5, Advanced
    <2>7. rc # OK
      BY Zenon, <2>6 DEF OnePathInv
    <2>8. /\ path_rc' = [p \in Paths |-> IF p \in {} THEN rc ELSE path_rc[p]]
          /\ closed' = closed
      BY Zenon, <2>1 DEF sandev_restart
    <2> HIDE DEF rc
    <2>9. path_rc' = path_rc
      BY <1>3, <2>8
    <2>10. QED BY Zenon, <1>1, <2>1, <2>7, <2>8, <2>9 DEF OnePathInv
  <1>8. CASE reopen_check /\ opened # <<>>
    <2>1. /\ pc' = IF active # None THEN "issue" ELSE "reopening"
          /\ UNCHANGED pathVars
      BY Zenon, <1>8 DEF reopen_check
    <2>2. /\ pc' # "NULL path" /\ (pc' = "issue" => active # None)
      BY <2>1
    <2>3. QED BY Zenon, <2>1, <2>2 DEF OnePathInv, pathVars
  <1>9. QED BY Zenon, <1>5, <1>6, <1>7, <1>8

LEMMA OnePathNext ==
    ASSUME SanbootAssumption, NumPaths = 1, SanInv, OnePathInv, [Next]_vars
    PROVE  OnePathInv'
  <1>1. ASSUME UNCHANGED pathVars, pc' # "NULL path", pc' = "issue" => active # None
        PROVE  OnePathInv'
    BY Zenon, <1>1 DEF OnePathInv, pathVars
  <1>2. CASE UNCHANGED vars
    BY Zenon, <1>2 DEF OnePathInv, vars
  <1>3. CASE sandev_rw \/ no_reopen \/ return \/ step
    <2>1. UNCHANGED pathVars
      BY Zenon, <1>3 DEF sandev_rw, no_reopen, return, step
    <2>2. pc' # "NULL path" /\ (pc' = "issue" => active # None)
      BY Zenon, <1>3 DEF sandev_rw, no_reopen, return, step
    <2>3. QED BY Zenon, <1>1, <2>1, <2>2
  <1>4. CASE wait_check
    <2>1. UNCHANGED pathVars
      BY Zenon, <1>4 DEF wait_check
    <2>2. pc' # "NULL path" /\ pc' # "issue"
      BY Zenon, <1>4 DEF wait_check, Retry
    <2>3. QED BY Zenon, <1>1, <2>1, <2>2
  <1>5. ASSUME NEW outcome, sandev_command_rw(outcome) PROVE OnePathInv'
    <2>1. UNCHANGED pathVars /\ active # None
      BY Zenon, <1>5 DEF sandev_command_rw, OnePathInv
    <2>2. pc' # "NULL path"
      BY Zenon, <1>5, <2>1 DEF sandev_command_rw, Retry
    <2>3. QED BY Zenon, <1>1, <2>1, <2>2
  <1>6. CASE sandev_command_expired \/ \E rc \in {OK, Error} : command_done(rc)
    <2>1. UNCHANGED pathVars /\ Event
      BY Zenon, <1>6 DEF sandev_command_expired, command_done
    <2>2. pc' # "NULL path" /\ pc' # "issue"
      BY Zenon, <2>1 DEF Event
    <2>3. QED BY Zenon, <1>1, <2>1, <2>2
  <1>7. QED BY Zenon, <1>2, <1>3, <1>4, <1>5, <1>6, OnePathEvent, OnePathReopen DEF Next

(* assert ( sanpath != NULL ) in sandev_command_rw holds for a device with *)
(* one path: sandev_reopen returns success only when that path is active.  *)
THEOREM OnePathActive ==
    ASSUME SanbootAssumption, NumPaths = 1 PROVE Spec => []ActiveAtCommand
  <1>1. ASSUME Init PROVE SanInv /\ OnePathInv
    <2>1. path_rc \in [Paths -> Int] /\ \A p \in Paths : path_rc[p] # OK
      BY <1>1 DEF Init, EINPROGRESS, OK
    <2>2. pc # "issue" /\ pc # "NULL path"
      BY <1>1 DEF Init
    <2>3. QED BY Zenon, <1>1, <2>1, <2>2, SanInit DEF OnePathInv
  <1>2. SanInv /\ OnePathInv /\ [Next]_vars => (SanInv /\ OnePathInv)'
    BY Zenon, SanNext, OnePathNext
  <1>3. OnePathInv => ActiveAtCommand
    BY Zenon DEF OnePathInv, ActiveAtCommand
  <1>4. QED BY <1>1, <1>2, <1>3, PTL DEF Spec
=============================================================================
