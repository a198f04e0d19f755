------------------------------- MODULE Iscsi --------------------------------
(***************************************************************************)
(* The iSCSI initiator (net/tcp/iscsi.c): login with its negotiation       *)
(* phases, CHAP and redirection, one SCSI command at a time, and the       *)
(* transmit and receive engines that cut PDUs out of the TCP stream.  The  *)
(* target answers as RFC 3720 lets it; the bytes of its answers arrive in  *)
(* packets of any size.  A byte of a command's data is its position.       *)
(***************************************************************************)
EXTENDS Integers, Sequences, SequencesExt

CONSTANTS
    BhsLen,        \* size of a basic header segment (48 in the code)
    ReadLen,       \* data_in_len of a read
    WriteLen,      \* data_out_len of a write
    OutLen,        \* largest Data-Out PDU (512 in the code)
    MaxCommands,   \* commands the SCSI layer issues
    MaxRedirects,  \* how often the target redirects a login
    Redirects,     \* kinds of redirection: subset of {"named", "default"} (port)
    SplitRedirect, \* whether a redirection may arrive in several packets
    TargetUser,    \* whether the target has to authenticate itself
    Targets        \* kinds of target: subset of {"open", "chap"}

IscsiAssumption ==
    /\ {BhsLen, ReadLen, WriteLen, OutLen, MaxCommands} \subseteq Nat \ {0}
    /\ MaxRedirects \in Nat
    /\ {SplitRedirect, TargetUser} \subseteq BOOLEAN

VARIABLES
    open,      \* the session's interfaces are open
    status,    \* phase, strings to send, and authentication
    port,      \* iscsi->target_port
    tx,        \* transmit engine: state, header, process
    rx,        \* receive engine: state, offset, length, header, buffered
    iob,       \* what is left of the packet being delivered
    loop,      \* "none", "tx" or "rx": which engine is running
    command,   \* iscsi->command: [id, rw], or NoCommand
    data,      \* which command the data interface is plugged to, or 0
    window,    \* the socket accepts data
    r2t,       \* transfer_offset and transfer_len
    din,       \* data-in buffer of the current command
    result,    \* how each command ended
    wire,      \* PDUs on their way to the target
    target,    \* the target's own state
    stream     \* bytes on their way from the target

vars == <<open, status, port, tx, rx, iob, loop, command, data, window, r2t, din, result,
          wire, target, stream>>

session == <<open, status, port, tx, rx, command, data, r2t, din, result>>

NoCommand == [id |-> 0, rw |-> "none"]
NoPdu     == [op |-> "none", len |-> 0]

Ids == 1..MaxCommands

ISCSI_PORT == 3260
NamedPort  == 3261      \* a port that a redirection names

(* Host to network order on a little-endian machine *)
htons(x) == (x % 256) * 256 + x \div 256

Pad(len) == len % 2     \* padding to a multiple of two (four in the code)

(* A PDU as it travels: header, data and padding *)
Bytes(p) ==
    [i \in 1..BhsLen |-> [pdu |-> p, part |-> "bhs", at |-> i]]
    \o [i \in 1..p.len |-> [pdu |-> p, part |-> "data", at |-> i]]
    \o [i \in 1..Pad(p.len) |-> [pdu |-> p, part |-> "pad", at |-> i]]

-----------------------------------------------------------------------------
(* The session as a record, for operations that call each other *)

Now == [open |-> open, status |-> status, port |-> port, tx |-> tx, rx |-> rx, command |-> command,
        data |-> data, r2t |-> r2t, din |-> din, result |-> result]

Become(S) ==
    \E T \in {S} :
        /\ open' = T.open /\ status' = T.status /\ port' = T.port
        /\ tx' = T.tx /\ rx' = T.rx
        /\ command' = T.command /\ data' = T.data
        /\ r2t' = T.r2t /\ din' = T.din /\ result' = T.result

(* Close the data interface: the command's owner learns how it ended *)
EndCommand(S, rc) ==
    IF S.data = 0 THEN S
    ELSE [S EXCEPT !.result[S.data] = rc, !.data = 0]

(* Everything is shut down; the command stays allocated with the session *)
iscsi_close(S) ==
    [EndCommand(S, "error") EXCEPT !.open = FALSE, !.tx.process = FALSE]

iscsi_tx_resume(S) == [S EXCEPT !.tx.process = TRUE]

iscsi_start_tx(S, pdu) ==
    iscsi_tx_resume([S EXCEPT !.tx.state = "bhs", !.tx.pdu = pdu])

iscsi_start_login(S) ==
    iscsi_start_tx(S, [op |-> "login", len |-> IF S.status.strings = {} THEN 0 ELSE 1,
                       phase |-> S.status.phase, strings |-> S.status.strings])

(* A new connection starts in the security negotiation phase *)
iscsi_open_connection(S) ==
    iscsi_start_login([S EXCEPT !.status = [phase |-> "security",
                                            strings |-> {"security"}, ok |-> FALSE]])

iscsi_close_connection(S) ==
    [S EXCEPT !.status = [phase |-> "none", strings |-> {}, ok |-> FALSE],
              !.tx.state = "idle", !.rx.state = "bhs", !.rx.offset = 0,
              !.rx.buffered = 0]

iscsi_start_command(S) ==
    iscsi_start_tx(S, [op |-> "command", len |-> 0, id |-> S.command.id,
                       rw |-> S.command.rw])

iscsi_scsi_window(S) == S.status.phase = "full" /\ S.command = NoCommand

iscsi_scsi_command(S, id, rw) ==
    [iscsi_start_command([S EXCEPT !.command = [id |-> id, rw |-> rw],
                                   !.din = [i \in 1..ReadLen |-> -1]])
       EXCEPT !.data = id]

(* The next piece of what the target has asked for *)
iscsi_start_data_out(S, datasn) ==
    LET offset    == datasn * OutLen
        remaining == S.r2t.len - offset
        len       == IF remaining > OutLen THEN OutLen ELSE remaining
    IN  iscsi_start_tx(S, [op |-> "dataout", len |-> len,
                           offset |-> S.r2t.offset + offset, datasn |-> datasn,
                           final |-> len = remaining])

-----------------------------------------------------------------------------
(* Transmission: one round of the loop in iscsi_tx_step() *)

iscsi_login_request_done(S) == [S EXCEPT !.status.strings = {}]

iscsi_data_out_done(S) ==
    IF S.tx.pdu.final THEN S ELSE iscsi_start_data_out(S, S.tx.pdu.datasn + 1)

iscsi_tx_done(S) ==
    LET paused == [S EXCEPT !.tx.process = FALSE]
    IN  CASE S.tx.pdu.op = "dataout" -> iscsi_data_out_done(paused)
          [] S.tx.pdu.op = "login"   -> iscsi_login_request_done(paused)
          [] OTHER                   -> paused

(* The process runs *)
iscsi_tx_step ==
    /\ loop = "none" /\ tx.process
    /\ loop' = "tx"
    /\ UNCHANGED <<session, iob, window, wire, target, stream>>

(* Nothing to send, or no room for it: wait for the window to open *)
TxPause ==
    /\ loop = "tx"
    /\ \/ tx.state = "idle"
       \/ tx.state = "bhs" /\ ~window
       \/ tx.state = "data" /\ tx.pdu.len > 0 /\ ~window
    /\ Become([Now EXCEPT !.tx.process = FALSE])
    /\ loop' = "none"
    /\ UNCHANGED <<iob, window, wire, target, stream>>

(* Send the header; the socket may be full afterwards *)
iscsi_tx_bhs ==
    /\ loop = "tx" /\ tx.state = "bhs" /\ window
    /\ Become([Now EXCEPT !.tx.state = "ahs"])
    /\ window' \in BOOLEAN
    /\ UNCHANGED <<iob, loop, wire, target, stream>>

iscsi_tx_nothing ==
    /\ loop = "tx" /\ tx.state = "ahs"
    /\ Become([Now EXCEPT !.tx.state = "data"])
    /\ UNCHANGED <<iob, loop, window, wire, target, stream>>

(* Send the data segment, with which the PDU is complete.  The login       *)
(* strings are put together again from the flags of this moment.           *)
iscsi_tx_data ==
    /\ loop = "tx" /\ tx.state = "data"
    /\ tx.pdu.len > 0 => window
    /\ wire' = Append(wire, IF tx.pdu.op = "login"
                            THEN [tx.pdu EXCEPT !.strings = status.strings] ELSE tx.pdu)
    /\ Become(iscsi_tx_done([Now EXCEPT !.tx.state = "idle"]))
    /\ window' \in IF tx.pdu.len > 0 THEN BOOLEAN ELSE {window}
    /\ UNCHANGED <<iob, loop, target, stream>>

(* Nothing could be sent: fatal *)
TxFails ==
    /\ loop = "tx" /\ window
    /\ tx.state = "bhs" \/ (tx.state = "data" /\ tx.pdu.len > 0)
    /\ Become(iscsi_close(Now))
    /\ loop' = "none"
    /\ UNCHANGED <<iob, window, wire, target, stream>>

(* The socket has room again (xfer_window_changed) *)
WindowChanged ==
    /\ loop = "none" /\ open /\ ~window
    /\ window' = TRUE
    /\ Become(iscsi_tx_resume(Now))
    /\ UNCHANGED <<iob, loop, wire, target, stream>>

-----------------------------------------------------------------------------
(* Receipt *)

(* What the SCSI layer does when it is told of a response: nothing yet,    *)
(* close the command, or close it and issue the next one at once           *)
ScsiResponse(S, what) ==
    CASE what = "later" -> S
      [] what = "close" -> EndCommand(S, "ok")
      [] what = "next"  -> iscsi_scsi_command(EndCommand(S, "ok"), S.data + 1, "read")

(* The command is complete; it is closed unless the response has already   *)
(* led to another one                                                      *)
iscsi_scsi_done(S, rsp, what) ==
    LET cleared == [S EXCEPT !.command = NoCommand]
        told    == IF rsp THEN ScsiResponse(cleared, what) ELSE cleared
    IN  IF told.data = S.data THEN EndCommand(told, "ok") ELSE told

iscsi_handle_targetaddress_value(S, pdu) ==
    [S EXCEPT !.port = IF pdu.named THEN NamedPort ELSE htons(ISCSI_PORT)]

(* AuthMethod=CHAP: the algorithm is proposed next *)
iscsi_handle_authmethod_value(S) == [S EXCEPT !.status.strings = @ \cup {"chap_a"}]

(* A challenge is answered, with one of our own if the target has to       *)
(* authenticate itself                                                     *)
iscsi_handle_chap_c_value(S) ==
    [S EXCEPT !.status.strings = @ \cup {"response"} \cup
                                   (IF TargetUser THEN {"challenge"} ELSE {})]

(* The target's answer to our challenge: a wrong one is an error *)
iscsi_handle_chap_r_value(S, right) ==
    IF right THEN [S EXCEPT !.status.ok = TRUE] ELSE iscsi_close(S)

(* Text strings of a login response.  "refused" stands for those that are  *)
(* errors whatever the state: malformed, a rejection, an algorithm other   *)
(* than the one offered, the name of another target.                       *)
iscsi_handle_strings(S, pdu) ==
    CASE pdu.kind = "redirect"            -> iscsi_handle_targetaddress_value(S, pdu)
      [] pdu.kind = "method"              -> iscsi_handle_authmethod_value(S)
      [] pdu.kind = "challenge"           -> iscsi_handle_chap_c_value(S)
      [] pdu.kind \in {"proof", "badproof"} -> iscsi_handle_chap_r_value(S, pdu.kind = "proof")
      [] pdu.kind = "refused"             -> iscsi_close(S)
      [] OTHER                            -> S

(* A whole login response: redirection, transition to the next phase and   *)
(* the next request, or the end of the login.  Errors close the session.   *)
iscsi_rx_login_response(S, pdu) ==
    LET T == iscsi_handle_strings(S, pdu)
        U == IF pdu.next = "stay" THEN T
             ELSE [T EXCEPT !.status.phase = pdu.next,
                            !.status.strings = IF pdu.next = "operational"
                                               THEN {"operational"} ELSE {}]
    IN  IF ~T.open THEN T
        ELSE IF pdu.kind = "redirect" THEN iscsi_open_connection(iscsi_close_connection(T))
        ELSE IF pdu.kind = "fail" THEN iscsi_close(T)
        ELSE IF U.status.phase # "full" THEN iscsi_start_login(U)
        ELSE IF TargetUser /\ ~U.status.ok THEN iscsi_close(U)
        ELSE U

iscsi_rx_data_in(S, bytes) ==
    LET offset == S.rx.bhs.offset + S.rx.offset
    IN  [S EXCEPT !.din = [i \in 1..ReadLen |->
                             IF i - offset \in 1..Len(bytes)
                             THEN bytes[i - offset].pdu.offset + bytes[i - offset].at - 1
                             ELSE @[i]]]

iscsi_rx_r2t(S) ==
    iscsi_start_data_out([S EXCEPT !.r2t = [offset |-> S.rx.bhs.offset,
                                            len |-> S.rx.bhs.want]], 0)

(* Mutant: the status in a Data-In counts before all of its data is there *)
RxDataStatusAtOnce(S, bytes, remaining, what) ==
    LET p == S.rx.bhs
        B == [S EXCEPT !.rx.buffered = @ + Len(bytes)]
        D == [B EXCEPT !.rx.buffered = 0]
    IN  CASE p.op = "login" ->
                 IF remaining > 0 THEN B
                 ELSE iscsi_rx_login_response(D, p)
          [] p.op = "response" ->
                 IF remaining > 0 THEN B ELSE iscsi_scsi_done(D, TRUE, what)
          [] p.op = "datain" ->
                 LET R == iscsi_rx_data_in(S, bytes)
                 IN  IF p.status THEN iscsi_scsi_done(R, FALSE, what) ELSE R
          [] p.op = "r2t" -> iscsi_rx_r2t(S)
          [] OTHER -> S

(* A part of a PDU's data segment; "what" is the SCSI layer's reaction *)
iscsi_rx_data(S, bytes, remaining, what) ==
    LET p == S.rx.bhs
        B == [S EXCEPT !.rx.buffered = @ + Len(bytes)]
        D == [B EXCEPT !.rx.buffered = 0]
    IN  CASE p.op = "login" ->
                 IF remaining > 0 THEN B
                 ELSE iscsi_rx_login_response(D, p)
          [] p.op = "response" ->
                 IF remaining > 0 THEN B ELSE iscsi_scsi_done(D, TRUE, what)
          [] p.op = "datain" ->
                 LET R == iscsi_rx_data_in(S, bytes)
                 IN  IF remaining = 0 /\ p.status THEN iscsi_scsi_done(R, FALSE, what) ELSE R
          [] p.op = "r2t" -> iscsi_rx_r2t(S)
          [] OTHER -> S

(* Length of each part of a PDU *)
RxLen(S) ==
    CASE S.rx.state = "bhs"  -> BhsLen
      [] S.rx.state = "ahs"  -> 0
      [] S.rx.state = "data" -> S.rx.bhs.len
      [] S.rx.state = "pad"  -> Pad(S.rx.bhs.len)

NextRxState(state) ==
    CASE state = "bhs" -> "ahs" [] state = "ahs" -> "data"
      [] state = "data" -> "pad" [] state = "pad" -> "bhs"

(* A packet arrives *)
iscsi_socket_deliver(n) ==
    /\ loop = "none" /\ open
    /\ n <= Len(stream)
    /\ iob' = SubSeq(stream, 1, n)
    /\ stream' = SubSeq(stream, n + 1, Len(stream))
    /\ loop' = "rx"
    /\ UNCHANGED <<session, window, wire, target>>

(* One round of its loop: give the state's handler what there is, then     *)
(* move the offset on.  The handler may have reset the engine meanwhile,   *)
(* in which case old and new connection are mixed: the offset and the next *)
(* state are those of the round.                                           *)
RxRound(what) ==
    /\ loop = "rx"
    /\ LET rx_len == RxLen(Now)
           frag   == IF rx_len - rx.offset > Len(iob) THEN Len(iob) ELSE rx_len - rx.offset
           bytes  == SubSeq(iob, 1, frag)
           left   == rx_len - rx.offset - frag
           bhs    == IF rx.state = "bhs" /\ frag > 0
                     THEN [Now EXCEPT !.rx.bhs = bytes[frag].pdu] ELSE Now
           S      == IF rx.state = "data" THEN iscsi_rx_data(Now, bytes, left, what) ELSE bhs
           moved  == [S EXCEPT !.rx.offset = @ + frag]
           failed == open /\ ~S.open
           end    == ~failed /\ moved.rx.offset = rx_len
           anew   == /\ rx.state = "data" /\ rx.bhs.op = "login" /\ left = 0
                     /\ rx.bhs.kind = "redirect"
       IN  /\ Become(IF failed THEN S
                     ELSE IF end
                     THEN [moved EXCEPT !.rx.state = NextRxState(rx.state), !.rx.offset = 0]
                     ELSE moved)
           /\ iob' = IF end THEN SubSeq(iob, frag + 1, Len(iob)) ELSE <<>>
           /\ loop' = IF end THEN "rx" ELSE "none"
           \* a new connection has no old bytes in it, and is not yet established
           /\ stream' = IF anew THEN <<>> ELSE stream
           /\ window' = (window /\ ~anew)
    /\ what # "later" => rx.state = "data" /\ rx.bhs.op = "response" /\ data # 0
    /\ what = "next" => data < MaxCommands
    /\ UNCHANGED <<wire, target>>

-----------------------------------------------------------------------------
(* The SCSI layer *)

IssueCommand(rw) ==
    /\ loop = "none" /\ open
    /\ iscsi_scsi_window(Now)
    /\ \E id \in Ids :
          /\ result[id] = "none" /\ \A j \in 1..(id - 1) : result[j] # "none"
          /\ Become(iscsi_scsi_command(Now, id, rw))
    /\ UNCHANGED <<iob, loop, window, wire, target, stream>>

(* Mutant: a command closed before its end leaves the session as it is *)
CommandCloseOnly ==
    /\ loop = "none" /\ open /\ data # 0
    /\ Become(EndCommand(Now, "error"))
    /\ UNCHANGED <<iob, loop, window, wire, target, stream>>

(* A command closed before its end takes the session with it *)
iscsi_command_close ==
    /\ loop = "none" /\ open /\ data # 0
    /\ Become(LET S == EndCommand(Now, "error")
              IN  IF command # NoCommand THEN iscsi_close(S) ELSE S)
    /\ UNCHANGED <<iob, loop, window, wire, target, stream>>

(* The target, TCP or the SCSI layer closes the session *)
SessionCloses ==
    /\ loop = "none" /\ open
    /\ Become(iscsi_close(Now))
    /\ UNCHANGED <<iob, loop, window, wire, target, stream>>

-----------------------------------------------------------------------------
(* The target *)

LoginResponse(kind, next) == [op |-> "login", len |-> 1, kind |-> kind, next |-> next]
Redirection(named) ==
    [op |-> "login", len |-> 3, kind |-> "redirect", next |-> "stay", named |-> named]
DataIn(offset, len, st) == [op |-> "datain", len |-> len, offset |-> offset, status |-> st]
Response == [op |-> "response", len |-> 0]
R2T(offset, want) == [op |-> "r2t", len |-> 0, offset |-> offset, want |-> want]
NopIn == [op |-> "nop", len |-> 1]

(* What the target may send on receipt of a login request *)
LoginAnswers(p) ==
    LET move == { LoginResponse("plain", n) : n \in {"operational", "full"} }
    IN  IF p.phase = "operational"
        THEN {LoginResponse("plain", "full"), LoginResponse("fail", "stay"), LoginResponse("refused", "full")}
        ELSE IF "security" \in p.strings
        THEN (IF "open" \in Targets THEN move ELSE {})
             \cup (IF "chap" \in Targets THEN {LoginResponse("method", "stay")} ELSE {})
             \cup (IF target.redirects < MaxRedirects
                   THEN {Redirection(k = "named") : k \in Redirects} ELSE {})
        ELSE IF "chap_a" \in p.strings THEN { LoginResponse(k, "stay") : k \in {"challenge", "refused"} }
        ELSE IF "challenge" \in p.strings
        THEN { LoginResponse(k, "operational") : k \in {"proof", "badproof", "refused"} }
        ELSE move

(* ... of a command or of the last piece of the data it asked for *)
CommandAnswers(p) ==
    LET half == ReadLen \div 2
    IN  IF p.op = "command" /\ p.rw = "read"
        THEN { <<DataIn(0, ReadLen, TRUE)>>,
               <<DataIn(0, half, FALSE), NopIn, DataIn(half, ReadLen - half, TRUE)>>,
               <<DataIn(0, half, FALSE), DataIn(half, ReadLen - half, FALSE), Response>> }
        ELSE LET got == IF p.op = "command" THEN 0 ELSE p.offset + p.len
             IN  IF got = WriteLen THEN {<<Response>>}
                 ELSE { <<R2T(got, n)>> : n \in {OutLen - 1, WriteLen - got} \cap 1..(WriteLen - got) }

TargetAnswers ==
    /\ loop = "none" /\ open /\ wire # <<>>
    /\ LET p == Head(wire)
       IN  \/ /\ p.op = "login"
              /\ \E a \in LoginAnswers(p) :
                    /\ stream' = stream \o Bytes(a)
                    /\ target' = IF a.kind = "redirect"
                                 THEN [target EXCEPT !.redirects = @ + 1,
                                                     !.port = IF a.named THEN NamedPort
                                                              ELSE ISCSI_PORT]
                                 ELSE target
           \/ /\ p.op = "command" \/ (p.op = "dataout" /\ p.final)
              /\ \E a \in CommandAnswers(p) :
                    stream' = stream \o FlattenSeq([i \in DOMAIN a |-> Bytes(a[i])])
              /\ target' = IF p.op = "command" THEN [target EXCEPT !.got = <<>>]
                           ELSE [target EXCEPT !.got = @ \o
                                   [i \in 1..p.len |-> p.offset + i - 1]]
           \/ /\ p.op = "dataout" /\ ~p.final
              /\ target' = [target EXCEPT !.got = @ \o [i \in 1..p.len |-> p.offset + i - 1]]
              /\ UNCHANGED stream
    /\ wire' = Tail(wire)
    /\ UNCHANGED <<session, iob, loop, window>>

-----------------------------------------------------------------------------
Init ==
    /\ open = TRUE
    /\ status = [phase |-> "security", strings |-> {"security"}, ok |-> FALSE]
    /\ port = ISCSI_PORT
    /\ tx = [state |-> "bhs", process |-> TRUE,
             pdu |-> [op |-> "login", len |-> 1, phase |-> "security",
                      strings |-> {"security"}]]
    /\ rx = [state |-> "bhs", offset |-> 0, bhs |-> NoPdu, buffered |-> 0]
    /\ iob = <<>> /\ loop = "none"
    /\ command = NoCommand /\ data = 0
    /\ window = FALSE
    /\ r2t = [offset |-> 0, len |-> 0]
    /\ din = <<>>
    /\ result = [id \in Ids |-> "none"]
    /\ wire = <<>>
    /\ target = [redirects |-> 0, port |-> ISCSI_PORT, got |-> <<>>]
    /\ stream = <<>>

Finished == ~open /\ loop = "none" /\ UNCHANGED vars

(* A redirection that may not be split arrives with its whole PDU *)
Deliver(n) ==
    /\ iscsi_socket_deliver(n)
    /\ ~SplitRedirect /\ stream[1].pdu.op = "login" /\ stream[1].pdu.kind = "redirect"
          => n = Len(stream)

Next ==
    \/ iscsi_tx_step \/ TxPause \/ iscsi_tx_bhs \/ iscsi_tx_nothing \/ iscsi_tx_data \/ TxFails
    \/ WindowChanged
    \/ \E n \in 1..Len(stream) : Deliver(n)
    \/ \E what \in {"later", "close", "next"} : RxRound(what)
    \/ \E rw \in {"read", "write"} : IssueCommand(rw)
    \/ iscsi_command_close
    \/ SessionCloses
    \/ TargetAnswers
    \/ Finished

Spec == Init /\ [][Next]_vars

-----------------------------------------------------------------------------
(* A read that ended well returned every byte in its place, and a write    *)
(* that ended well gave the target every byte once and in order, however   *)
(* the data was cut into PDUs, packets and Data-Outs.                      *)
TransferExact ==
    [][ \A id \in Ids :
          result[id] = "none" /\ result'[id] = "ok" =>
            \/ command.rw = "read" /\ din' = [i \in 1..ReadLen |-> i - 1]
            \/ /\ command.rw = "read" /\ data' = id + 1   \* the buffer is the next one's
               /\ din = [i \in 1..ReadLen |-> i - 1]
            \/ command.rw = "write" /\ target.got = [i \in 1..WriteLen |-> i - 1] ]_vars

(* iscsi_scsi_done() and iscsi_start_tx() assert that the transmit engine  *)
(* is idle: a command never ends, and no PDU is started, while another     *)
(* is still being sent.                                                    *)
IdleWhenAsserted ==
    [][ /\ command # NoCommand /\ command' # command /\ open' => tx.state = "idle"
        /\ tx.pdu # tx'.pdu => tx.state \in {"idle", "data"} ]_vars

(* Whatever is to be sent is being sent, or waits for the window, whose    *)
(* change will resume it.                                                  *)
TxDriven ==
    open /\ loop = "none" /\ tx.state # "idle" => tx.process \/ ~window

(* Every command has an owner waiting for its end as long as it is in      *)
(* progress, and no command is reported as ended while it still is.        *)
CommandOwned ==
    open => /\ command # NoCommand => data = command.id
            /\ data # 0 => result[data] = "none"

(* No command is sent to a target that has not proved who it is, when it   *)
(* has to: neither skipping phases nor a redirection gets round it.        *)
Authenticated ==
    TargetUser => \A i \in 1..Len(wire) : wire[i].op = "command" => status.ok

(* "Closes the transport-layer connection and resets the session state     *)
(* ready to attempt a fresh login": the first byte on a new connection is  *)
(* taken as the first byte of a header.                                    *)
FreshConnection ==
    /\ open /\ loop = "none" /\ stream # <<>> /\ stream[1].part = "bhs" /\ stream[1].at = 1
    => rx.state = "bhs" /\ rx.offset = 0

(* "Default iSCSI port": a redirection leads to the port it names, or to   *)
(* the default port when it names none.                                    *)
PortAsTold == [][port' # port => port' = target.port]_vars
=============================================================================
