---------------------------- MODULE FileTransfer ----------------------------
(***************************************************************************)
(* What a download protocol promises to the object that opened it: bytes   *)
(* of the file are handed over in some order, no byte that was right       *)
(* becomes wrong again, and success is reported, once, only when the whole *)
(* file is there.                                                          *)
(***************************************************************************)
EXTENDS Integers

CONSTANT Size            \* length of the file

VARIABLES have,          \* offsets of the bytes handed over so far
          status         \* "running", "ok" or "failed"

transferVars == <<have, status>>

Bytes == 0..(Size - 1)

Init == have = {} /\ status = "running"

Receive ==
    /\ status = "running"
    /\ have \subseteq have' /\ have' \subseteq Bytes
    /\ status' = "running"

(* The last bytes and the report of success may be one step *)
Finish ==
    /\ status = "running" /\ status' = "ok"
    /\ have' = Bytes

Fail ==
    /\ status = "running" /\ status' = "failed"
    /\ have \subseteq have' /\ have' \subseteq Bytes

Next == Receive \/ Finish \/ Fail

Spec == Init /\ [][Next]_transferVars
=============================================================================
