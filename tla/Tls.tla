-------------------------------- MODULE Tls ---------------------------------
(***************************************************************************)
(* The connections of one TLS session (net/tls.c): what is sent and        *)
(* received in which order, which keys and sequence numbers protect it,    *)
(* the handshake digest, the session identifier, ticket and master secret  *)
(* that connections hand on to each other, and the rule that lets one      *)
(* connection negotiate at a time.  The servers follow the protocol.       *)
(* Secrets, identifiers and tickets are named by the negotiation that      *)
(* made them: connection and number of its Client Hello.                   *)
(***************************************************************************)
EXTENDS Integers, Sequences, FiniteSets, SequencesExt

CONSTANTS
    Conns,         \* connections, numbered
    MaxRequests,   \* Hello Requests each server sends
    Tickets,       \* whether a full handshake may, or may not, issue a ticket
    Names,         \* whether it may, or may not, name the session
    ClientCert,    \* whether servers ask for the client's certificate
    Secure,        \* whether servers may, or may not, send renegotiation information
    MaxData        \* data records each side sends on a connection

TlsAssumption ==
    /\ Conns \subseteq Nat \ {0}
    /\ MaxRequests \in Nat /\ MaxData \in Nat
    /\ {Tickets, Names, Secure} \subseteq SUBSET BOOLEAN /\ Secure # {}

VARIABLES
    conn,      \* the connections
    session,   \* id, master secret and ticket for the next connection
    list,      \* session->conn
    window,    \* whether each cipherstream accepts data
    up,        \* records on their way to each server
    down,      \* records on their way from it
    server,    \* each server's side of the connection
    cache      \* identifiers servers have issued, with their secrets

vars == <<conn, session, list, window, up, down, server, cache>>

None     == <<0, 0>>
NoTicket == [of |-> None, master |-> None]
NullKey  == [master |-> None, n |-> 0]      \* the null cipher suite
NoKeyYet == [master |-> None, n |-> -1]     \* a suite that was selected and has no keys
NoInfo   == <<>>                            \* no renegotiation information

(* A handshake message: what it is, and what it says *)
Msg(m, id, ticket, verify) == [m |-> m, id |-> id, ticket |-> ticket, verify |-> verify]
Plain(m) == Msg(m, None, NoTicket, <<0, 0>>)

Cipher(key) == [key |-> key, seq |-> 0]
(* What is sent; a Finished proves the digest of its sender *)
Record(side, msg) ==
    [key |-> side.tx.key, seq |-> side.tx.seq, msg |-> msg,
     proof |-> IF msg.m = "finished" THEN side.digest ELSE <<>>]
NextSeq(cipher) == [cipher EXCEPT !.seq = @ + 1]

Fresh ==
    [state |-> "new", pending |-> {}, process |-> FALSE,
     client_negotiation |-> FALSE, server_negotiation |-> FALSE, validation |-> FALSE,
     id |-> None, master |-> None, ticket |-> NoTicket, certs |-> FALSE, n |-> 0,
     secure |-> FALSE, verify |-> <<0, 0>>, tx |-> Cipher(NullKey), rx |-> Cipher(NullKey),
     tx_pending |-> NullKey, rx_pending |-> NullKey,
     digest |-> <<>>, told |-> FALSE, sent |-> 0]

-----------------------------------------------------------------------------
(* All of it as a record, for operations that call each other *)

Now == [conn |-> conn, session |-> session, list |-> list, up |-> up]

Become(S) ==
    \E T \in {S} : conn' = T.conn /\ session' = T.session /\ list' = T.list /\ up' = T.up

tls_ready(C) == ~C.client_negotiation /\ ~C.server_negotiation

tls_tx_resume(S, c) == [S EXCEPT !.conn[c].process = TRUE]

tls_tx_resume_all(S) ==
    [S EXCEPT !.conn = [c \in Conns |-> IF c \in Range(S.list)
                                        THEN [@[c] EXCEPT !.process = TRUE] ELSE @[c]]]

(* Mutant: the others are not resumed *)
CloseAlone(S, c, why) ==
    [S EXCEPT !.conn[c].state = why, !.conn[c].client_negotiation = FALSE,
              !.conn[c].server_negotiation = FALSE, !.conn[c].validation = FALSE,
              !.conn[c].process = FALSE,
              !.list = SelectSeq(@, LAMBDA x : x # c)]

tls_close(S, c, why) ==
    tls_tx_resume_all(
      [S EXCEPT !.conn[c].state = why, !.conn[c].client_negotiation = FALSE,
                !.conn[c].server_negotiation = FALSE, !.conn[c].validation = FALSE,
                !.conn[c].process = FALSE,
                !.list = SelectSeq(@, LAMBDA x : x # c)])

tls_restart(S, c) ==
    [tls_tx_resume(S, c) EXCEPT !.conn[c].pending = {"hello"},
                                !.conn[c].client_negotiation = TRUE,
                                !.conn[c].server_negotiation = TRUE,
                                !.conn[c].told = FALSE]

(* The plainstream learns that its window may have changed *)
WindowChange(S, c) == [S EXCEPT !.conn[c].told = tls_ready(S.conn[c])]

tls_send_plaintext(S, c, msg) ==
    [S EXCEPT !.up[c] = Append(@, Record(S.conn[c], msg)),
              !.conn[c].tx = NextSeq(@)]

tls_add_handshake(S, c, msg) == [S EXCEPT !.conn[c].digest = Append(@, msg)]

tls_send_handshake(S, c, msg) == tls_add_handshake(tls_send_plaintext(S, c, msg), c, msg)

(* The Client Hello as it is now: it is built once to be sent, and again   *)
(* to be digested when the digest algorithm is known                       *)
tls_client_hello(S, c) ==
    Msg("hello", S.conn[c].id, S.session.ticket,
        IF S.conn[c].secure THEN <<S.conn[c].verify[1], 0>> ELSE <<0, 0>>)

(* A pending suite takes the place of the active one, unless it is null *)
tls_change_cipher(S, c, active, pending) ==
    IF S.conn[c][pending] = NullKey THEN tls_close(S, c, "failed")
    ELSE [S EXCEPT !.conn[c][active] = Cipher(S.conn[c][pending]), !.conn[c][pending] = NullKey]

Key(C) == [master |-> C.master, n |-> C.n]

tls_generate_keys(S, c) ==
    [S EXCEPT !.conn[c].tx_pending = Key(S.conn[c]), !.conn[c].rx_pending = Key(S.conn[c])]

-----------------------------------------------------------------------------
(* Transmission *)

add_tls(c) ==
    /\ conn[c].state = "new"
    /\ Become([tls_restart(Now, c) EXCEPT !.conn[c].state = "open", !.list = Append(@, c)])
    /\ UNCHANGED <<window, down, server, cache>>

(* Connections before this one in the list *)
Before(S, c) == {S.list[i] : i \in 1..(SelectInSeq(S.list, LAMBDA x : x = c) - 1)}

(* Negotiations are serialised *)
HeldBack(S, c) == \E d \in Before(S, c) : S.conn[d].server_negotiation

(* Offer the session's identifier, or a random one, and send the hello *)
SendHello(S, c) ==
    LET T == [S EXCEPT !.conn[c].n = @ + 1,
                       !.conn[c].id = IF S.session.id # None THEN S.session.id ELSE <<c, 0>>,
                       !.conn[c].master = IF S.session.id # None THEN S.session.master ELSE @]
    IN  tls_send_handshake(T, c, tls_client_hello(T, c))

tls_send_client_key_exchange(S, c) ==
    LET T == [S EXCEPT !.conn[c].master = <<c, S.conn[c].n>>]
    IN  tls_send_handshake(tls_generate_keys(T, c), c, Plain("key"))

tls_send_change_cipher(S, c) == tls_send_plaintext(S, c, Plain("change"))

tls_send_finished(S, c) ==
    LET T == [S EXCEPT !.conn[c].verify[1] = S.conn[c].n]
    IN  [tls_send_handshake(T, c, Plain("finished")) EXCEPT !.conn[c].client_negotiation = FALSE]

(* What is sent first *)
Order == <<"hello", "certificate", "key", "verify", "change", "finished">>

FirstPending(C) == Order[CHOOSE i \in 1..6 : /\ Order[i] \in C.pending
                                             /\ \A j \in 1..(i - 1) : Order[j] \notin C.pending]

Send(S, c, what) ==
    CASE what = "hello"       -> SendHello(S, c)
      [] what = "certificate" -> tls_send_handshake(S, c, Plain("certificate"))
      [] what = "key"         -> tls_send_client_key_exchange(S, c)
      [] what = "verify"      -> tls_send_handshake(S, c, Plain("verify"))
      [] what = "change"      -> tls_change_cipher(tls_send_change_cipher(S, c), c, "tx", "tx_pending")
      [] what = "finished"    -> tls_send_finished(S, c)

(* Go on with what is left, or say that all is sent *)
AfterSending(S, c) ==
    IF S.conn[c].pending # {} THEN tls_tx_resume(S, c) ELSE WindowChange(S, c)

(* One pending transmission at a time; the process runs once each time it  *)
(* is added                                                                *)
tls_tx_step(c) ==
    /\ conn[c].process
    /\ LET S == [Now EXCEPT !.conn[c].process = FALSE]
           C == conn[c]
       IN  IF ~window[c] THEN Become(S)
           ELSE IF C.pending = {} THEN Become(WindowChange(S, c))
           ELSE LET what == FirstPending(C)
                    T == [Send(S, c, what) EXCEPT !.conn[c].pending = @ \ {what}]
                IN  IF what = "hello" /\ HeldBack(S, c) THEN Become(S)
                    ELSE IF T.conn[c].state # "open" THEN Become(T)
                    ELSE Become(AfterSending(T, c))
    /\ window' \in IF up'[c] # up[c] THEN {[window EXCEPT ![c] = w] : w \in BOOLEAN} ELSE {window}
    /\ UNCHANGED <<down, server, cache>>

(* A record could not be sent *)
TxFails(c) ==
    /\ conn[c].process /\ window[c] /\ conn[c].pending # {}
    /\ Become(tls_close(Now, c, "closed"))
    /\ UNCHANGED <<window, down, server, cache>>

(* TCP accepts data again *)
WindowOpens(c) ==
    /\ conn[c].state = "open" /\ ~window[c]
    /\ window' = [window EXCEPT ![c] = TRUE]
    /\ Become(tls_tx_resume(Now, c))
    /\ UNCHANGED <<down, server, cache>>

(* Data from above *)
tls_plainstream_deliver(c) ==
    /\ conn[c].state = "open" /\ tls_ready(conn[c]) /\ window[c]
    /\ conn[c].sent < MaxData
    /\ Become([tls_send_plaintext(Now, c, Plain("data")) EXCEPT !.conn[c].sent = @ + 1])
    /\ UNCHANGED <<window, down, server, cache>>

-----------------------------------------------------------------------------
(* Receipt *)

(* The number is -1 so that the next record has number 0 *)
tls_new_change_cipher(S, c) ==
    LET T == tls_change_cipher(S, c, "rx", "rx_pending")
    IN  IF T.conn[c].state # "open" THEN T ELSE [T EXCEPT !.conn[c].rx.seq = -1]

tls_new_hello_request(S, c) ==
    IF ~tls_ready(S.conn[c]) THEN S
    ELSE IF ~S.conn[c].secure THEN tls_close(S, c, "refused")
    ELSE tls_restart(S, c)

(* Select the suite, restart the digest with the hello rebuilt, resume if  *)
(* the identifier is the one offered, and check the renegotiation          *)
tls_new_server_hello(S, c, msg) ==
    LET C == S.conn[c]
        T == [S EXCEPT !.conn[c].digest = <<tls_client_hello(S, c)>>,
                       !.conn[c].tx_pending = NoKeyYet, !.conn[c].rx_pending = NoKeyYet]
        U == IF msg.id # None /\ msg.id = C.id THEN tls_generate_keys(T, c)
             ELSE IF msg.id # None THEN [T EXCEPT !.conn[c].id = msg.id]
             ELSE T
        wanted == IF C.secure THEN {C.verify} ELSE {<<0, 0>>, NoInfo}
    IN  IF msg.verify \notin wanted THEN tls_close(U, c, "failed")
        ELSE [U EXCEPT !.conn[c].secure = (msg.verify # NoInfo)]

(* Start the validator *)
tls_new_server_hello_done(S, c) == [S EXCEPT !.conn[c].validation = TRUE]

MoveToEnd(S, c) == [S EXCEPT !.list = Append(SelectSeq(@, LAMBDA x : x # c), c)]

(* What a session keeps for its next connection *)
SessionAfter(old, C) ==
    [id |-> C.id, master |-> C.master,
     ticket |-> IF C.ticket # NoTicket THEN C.ticket ELSE old.ticket]

(* The end of the server's part, and what comes after it *)
tls_new_finished(S, c) ==
    LET C == S.conn[c]
        T == [S EXCEPT !.conn[c].server_negotiation = FALSE,
                       !.conn[c].verify[2] = C.n,
                       !.conn[c].pending = IF C.client_negotiation
                                           THEN @ \cup {"change", "finished"} ELSE @,
                       !.conn[c].ticket = NoTicket,
                       !.session = SessionAfter(@, C)]
    IN  WindowChange(tls_tx_resume_all(MoveToEnd(T, c)), c)

tls_new_handshake(S, c, r) ==
    LET msg == r.msg
        T == CASE msg.m = "request"     -> tls_new_hello_request(S, c)
               [] msg.m = "serverhello" -> tls_new_server_hello(S, c, msg)
               [] msg.m = "ticket"      -> [S EXCEPT !.conn[c].ticket = msg.ticket]
               [] msg.m = "certreq"     -> [S EXCEPT !.conn[c].certs = TRUE]
               [] msg.m = "done"        -> tls_new_server_hello_done(S, c)
               [] msg.m = "finished"    -> IF r.proof = S.conn[c].digest
                                           THEN tls_new_finished(S, c)
                                           ELSE tls_close(S, c, "failed")
               [] OTHER                 -> S
    IN  IF msg.m = "request" THEN T ELSE tls_add_handshake(T, c, msg)

(* Data is refused unless the connection is ready for it *)
tls_new_data(S, c) == IF tls_ready(S.conn[c]) THEN S ELSE tls_close(S, c, "refused")

(* A record that is not protected by the expected key and number fails *)
tls_new_ciphertext(c) ==
    /\ conn[c].state = "open" /\ down[c] # <<>>
    /\ LET r == Head(down[c])
           C == conn[c]
           S == IF r.key # C.rx.key \/ r.seq # C.rx.seq THEN tls_close(Now, c, "failed")
                ELSE IF r.msg.m = "change" THEN tls_new_change_cipher(Now, c)
                ELSE IF r.msg.m = "data" THEN tls_new_data(Now, c)
                ELSE tls_new_handshake(Now, c, r)
       IN  Become(IF S.conn[c].state = "open" THEN [S EXCEPT !.conn[c].rx = NextSeq(@)] ELSE S)
    /\ down' = [down EXCEPT ![c] = Tail(@)]
    /\ UNCHANGED <<window, server, cache>>

tls_validator_done(c, ok) ==
    /\ conn[c].state = "open" /\ conn[c].validation
    /\ LET S == [Now EXCEPT !.conn[c].validation = FALSE,
                            !.conn[c].pending = @ \cup {"key", "change", "finished"} \cup
                               (IF conn[c].certs THEN {"certificate", "verify"} ELSE {})]
       IN  Become(IF ok THEN tls_tx_resume(S, c) ELSE tls_close(Now, c, "closed"))
    /\ UNCHANGED <<window, down, server, cache>>

(* Either side closes the connection *)
ConnectionCloses(c) ==
    /\ conn[c].state = "open"
    /\ Become(tls_close(Now, c, "closed"))
    /\ UNCHANGED <<window, down, server, cache>>

-----------------------------------------------------------------------------
(* The servers *)

NewServer(secure) ==
    [secure |-> secure, wait |-> "hello", tx |-> Cipher(NullKey), rx |-> Cipher(NullKey), key |-> NullKey,
     digest |-> <<>>, n |-> 0, id |-> None, master |-> None, resumed |-> FALSE,
     verify |-> <<0, 0>>, requests |-> 0, sent |-> 0, ok |-> TRUE]

(* Send messages, digesting and protecting them *)
Reply(R, msg) ==
    [server |-> [R.server EXCEPT !.digest = Append(@, msg), !.tx = NextSeq(@)],
     queue  |-> Append(R.queue, Record(R.server, msg))]

ReplyAll(V, c, msgs) == FoldLeft(Reply, [server |-> V, queue |-> down[c]], msgs)

(* Change the cipher and send Finished *)
ReplyFinished(R) ==
    Reply([server |-> [R.server EXCEPT !.tx = Cipher(R.server.key)],
           queue  |-> Append(R.queue, Record(R.server, Plain("change")))], Plain("finished"))

Outcome(c, R) ==
    /\ server' = [server EXCEPT ![c] = R.server]
    /\ down' = [down EXCEPT ![c] = R.queue]

Ticket(c, V) == <<Msg("ticket", None, [of |-> <<c, V.n>>, master |-> V.master], <<0, 0>>)>>

(* A hello: resume the session it offers, by the ticket if there is one    *)
(* and by the identifier otherwise, with or without a new ticket; or begin *)
(* a full handshake, naming the session or leaving its identifier empty    *)
ServerHello(c, V, msg) ==
    LET hello(id) == Msg("serverhello", id, NoTicket, IF V.secure THEN V.verify ELSE NoInfo)
        full(id)  == ReplyAll([V EXCEPT !.id = id, !.resumed = FALSE,
                                        !.wait = IF ClientCert THEN "certificate" ELSE "key"], c,
                              <<hello(id), Plain("chain")>>
                              \o (IF ClientCert THEN <<Plain("certreq")>> ELSE <<>>)
                              \o <<Plain("done")>>)
        resumed(m) == [V EXCEPT !.master = m, !.key = [master |-> m, n |-> V.n],
                                !.resumed = TRUE, !.wait = "change", !.id = msg.id]
        resume(m, t) == ReplyFinished(ReplyAll(resumed(m), c,
                            <<hello(msg.id)>> \o IF t THEN Ticket(c, resumed(m)) ELSE <<>>))
        known == IF msg.ticket # NoTicket THEN {msg.ticket.master}
                 ELSE {e.master : e \in {x \in cache : x.id = msg.id}}
    IN  /\ \/ \E m \in known, t \in Tickets \cup {FALSE} : Outcome(c, resume(m, t))
           \/ \E named \in Names : Outcome(c, full(IF named THEN <<c, V.n>> ELSE None))
        /\ UNCHANGED cache

(* The client's Finished: the server's own follows if it has not yet come *)
ServerFinished(c, V, r) ==
    LET D == [V EXCEPT !.digest = Append(@, r.msg), !.wait = "hello", !.verify = <<V.n, V.n>>]
    IN  IF r.proof # V.digest
        THEN /\ server' = [server EXCEPT ![c].ok = FALSE]
             /\ UNCHANGED <<down, cache>>
        ELSE IF V.resumed
        THEN /\ server' = [server EXCEPT ![c] = D]
             /\ UNCHANGED <<down, cache>>
        ELSE /\ \E t \in Tickets :
                   Outcome(c, ReplyFinished(ReplyAll(D, c, IF t THEN Ticket(c, V) ELSE <<>>)))
             /\ cache' = cache \cup (IF V.id = None THEN {} ELSE {[id |-> V.id, master |-> V.master]})

(* A record from the client *)
ServerStep(c) ==
    /\ conn[c].state = "open" /\ up[c] # <<>> /\ server[c].ok
    /\ up' = [up EXCEPT ![c] = Tail(@)]
    /\ LET r == Head(up[c])
           m == r.msg.m
           V == [server[c] EXCEPT !.rx = NextSeq(@)]
           D == [V EXCEPT !.digest = Append(@, r.msg)]
           K == [master |-> <<c, V.n>>, n |-> V.n]
           becomes(W) == server' = [server EXCEPT ![c] = W] /\ UNCHANGED <<down, cache>>
       IN  IF r.key # server[c].rx.key \/ r.seq # server[c].rx.seq \/ m \notin {"data", V.wait}
           THEN becomes([server[c] EXCEPT !.ok = FALSE])
           ELSE CASE m = "data"        -> becomes(V)
                  [] m = "hello"       -> ServerHello(c, [V EXCEPT !.n = @ + 1,
                                                                   !.digest = <<r.msg>>], r.msg)
                  [] m = "certificate" -> becomes([D EXCEPT !.wait = "key"])
                  [] m = "key"         -> becomes([D EXCEPT !.master = K.master, !.key = K,
                                                     !.wait = IF ClientCert THEN "verify" ELSE "change"])
                  [] m = "verify"      -> becomes([D EXCEPT !.wait = "change"])
                  [] m = "change"      -> becomes([V EXCEPT !.rx = Cipher(V.key), !.wait = "finished"])
                  [] m = "finished"    -> ServerFinished(c, V, r)
    /\ UNCHANGED <<conn, session, list, window>>

(* Between negotiations a server sends data, or asks for another one *)
ServerSends(c) ==
    /\ conn[c].state = "open" /\ server[c].wait = "hello" /\ server[c].n > 0
    /\ LET V == [server[c] EXCEPT !.tx = NextSeq(@)]
       IN  \/ /\ server[c].sent < MaxData
              /\ down' = [down EXCEPT ![c] = Append(@, Record(server[c], Plain("data")))]
              /\ server' = [server EXCEPT ![c] = [V EXCEPT !.sent = @ + 1]]
           \/ /\ server[c].requests < MaxRequests
              /\ down' = [down EXCEPT ![c] = Append(@, Record(server[c], Plain("request")))]
              /\ server' = [server EXCEPT ![c] = [V EXCEPT !.requests = @ + 1]]
    /\ UNCHANGED <<conn, session, list, window, up, cache>>

-----------------------------------------------------------------------------
Init ==
    /\ conn = [c \in Conns |-> Fresh]
    /\ session = [id |-> None, master |-> None, ticket |-> NoTicket]
    /\ list = <<>>
    /\ window = [c \in Conns |-> FALSE]
    /\ up = [c \in Conns |-> <<>>] /\ down = [c \in Conns |-> <<>>]
    /\ \E s \in Secure : server = [c \in Conns |-> NewServer(s)]
    /\ cache = {}

Next == \E c \in Conns :
    \/ add_tls(c) \/ tls_tx_step(c) \/ TxFails(c) \/ WindowOpens(c)
    \/ tls_plainstream_deliver(c)
    \/ tls_new_ciphertext(c)
    \/ \E ok \in BOOLEAN : tls_validator_done(c, ok)
    \/ ConnectionCloses(c)
    \/ ServerStep(c) \/ ServerSends(c)

Spec == Init /\ [][Next]_vars

-----------------------------------------------------------------------------
(* With a server that follows the protocol nothing goes wrong by itself:   *)
(* the client never finds a record, a Finished or a renegotiation wrong,   *)
(* and the server never finds an unexpected or unreadable record, or a     *)
(* wrong digest.  The digest is over the Client Hello as rebuilt after the *)
(* Server Hello, from the session's ticket of that moment.                 *)
NeverFails == \A c \in Conns : conn[c].state # "failed" /\ server[c].ok

(* "Serialise server negotiations within a session, to provide a           *)
(* consistent view of session IDs and session tickets": one connection at  *)
(* a time is between its Client Hello and the server's Finished.           *)
Serialised ==
    Cardinality({c \in Conns : /\ conn[c].state = "open" /\ conn[c].server_negotiation
                               /\ "hello" \notin conn[c].pending}) <= 1

(* "Record session ID, ticket, and master secret": the secret the next     *)
(* connection starts from is the one the server will find for the ticket,  *)
(* or else the identifier, that the connection offers.                     *)
SessionConsistent ==
    IF session.ticket # NoTicket THEN session.ticket.master = session.master
    ELSE \A e \in cache : e.id = session.id => e.master = session.master

(* Nothing that is to be sent is forgotten: the process is scheduled, or   *)
(* the window or another negotiation will bring it back.                   *)
Driven ==
    \A c \in Conns : conn[c].state = "open" /\ conn[c].pending # {} =>
        conn[c].process \/ ~window[c] \/ HeldBack(Now, c)

(* Whoever waits above for the connection to be ready is told of it, by    *)
(* whichever of the two Finished comes last.                               *)
ReadyIsTold ==
    \A c \in Conns : conn[c].state = "open" /\ tls_ready(conn[c]) =>
        conn[c].told \/ conn[c].process

(* Data travels only under the keys of a completed negotiation. *)
DataProtected ==
    \A c \in Conns : \A i \in 1..Len(up[c]) :
        up[c][i].msg.m = "data" => up[c][i].key # NullKey
=============================================================================
