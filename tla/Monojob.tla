------------------------------- MODULE Monojob ------------------------------
(***************************************************************************)
(* The foreground job (core/monojob.c) waiting for a download              *)
(* (core/downloader.c) that fills an image.  The transfer delivers the     *)
(* blocks of a file in any order and closes when it likes; a key press and *)
(* the timeout end the wait from the other side.  Everything happens in    *)
(* step(), between two looks at the clock, except what the waiting loop    *)
(* does by itself.                                                         *)
(***************************************************************************)
EXTENDS Integers, FiniteSets, FiniteSetsExt

CONSTANTS
    Blocks,    \* the length of the file in blocks
    Timeout,   \* the timeout in ticks, 0 for none
    MaxJobs    \* bound on the jobs waited for

MonojobAssumption == {Blocks, Timeout, MaxJobs} \subseteq Nat

VARIABLES
    pc,          \* where monojob_wait is
    monojob_rc,  \* the variable of that name
    idle,        \* ticks since last_progress
    completed,   \* the progress seen last
    job,         \* the downloader: is it plugged to the job interface, its end
    buffer,      \* struct xfer_buffer and the blocks in it
    image,       \* the length of the image, as the downloader leaves it
    jobs         \* the number of jobs started

vars == <<pc, monojob_rc, idle, completed, job, buffer, image, jobs>>

Empty == [pos |-> 0, len |-> 0, has |-> {}]

-----------------------------------------------------------------------------
(* Mutant: the length of the image is set on success only *)
FinishedOnSuccess(rc) ==
    /\ image' = IF rc = "ok" THEN buffer.len ELSE image
    /\ job' = [plugged |-> FALSE, rc |-> rc]

(* The transfer is shut down, and the interface to whoever waits *)
downloader_finished(rc) ==
    /\ image' = buffer.len
    /\ job' = [plugged |-> FALSE, rc |-> rc]

(* The close reaches monojob_close *)
JobEnds(rc) == downloader_finished(rc) /\ monojob_rc' = rc

-----------------------------------------------------------------------------
Init ==
    /\ pc = "start" /\ monojob_rc = "none" /\ idle = 0 /\ completed = 0
    /\ job = [plugged |-> FALSE, rc |-> "none"] /\ buffer = Empty
    /\ image = 0 /\ jobs = 0

(* create_downloader and the beginning of monojob_wait *)
create_downloader ==
    /\ pc = "start" /\ jobs < MaxJobs /\ jobs' = jobs + 1
    /\ job' = [plugged |-> TRUE, rc |-> "none"] /\ buffer' = Empty /\ image' = 0
    /\ monojob_rc' = "inprogress" /\ idle' = 0 /\ completed' = 0 /\ pc' = "step"

(* step(): the transfer delivers a block *)
downloader_deliver ==
    /\ pc = "step" /\ job.plugged /\ pc' = "look"
    /\ \E b \in 1..Blocks \ buffer.has :
         buffer' = [pos |-> b, len |-> Max({buffer.len, b}), has |-> buffer.has \cup {b}]
    /\ UNCHANGED <<monojob_rc, idle, completed, job, image, jobs>>

(* step(): the transfer closes; with success when the file is complete.    *)
(* Errors are those of the transfer, of the buffer and of a redirection.   *)
transfer_closes ==
    /\ pc = "step" /\ job.plugged /\ pc' = "look"
    /\ \E rc \in {"ok", "error"} : (rc = "ok" => buffer.has = 1..Blocks) /\ JobEnds(rc)
    /\ UNCHANGED <<idle, completed, buffer, jobs>>

(* step(): nothing happens to this job *)
other_step ==
    /\ pc = "step" /\ pc' = "look"
    /\ UNCHANGED <<monojob_rc, idle, completed, job, buffer, image, jobs>>

(* No timer tick: only the condition of the loop is looked at *)
no_tick ==
    /\ pc = "look"
    /\ pc' = IF monojob_rc = "inprogress" THEN "step" ELSE "end"
    /\ UNCHANGED <<monojob_rc, idle, completed, job, buffer, image, jobs>>

(* A tick, and CTRL_C *)
key ==
    /\ pc = "look" /\ monojob_rc' = "cancelled" /\ pc' = "end"
    /\ UNCHANGED <<idle, completed, job, buffer, image, jobs>>

(* job_progress through downloader_progress: the position in the buffer;   *)
(* without a job it is zero                                                *)
progress == IF job.plugged THEN buffer.pos ELSE 0

(* The status of a timeout, or the ongoing status that the job reports *)
Late == {"timeout"} \cup (IF job.plugged THEN {"error"} ELSE {})

(* A tick: progress restarts the timeout.  Whether the loop goes on is  *)
(* looked at after it.                                                     *)
tick ==
    LET t == IF completed # progress THEN 0 ELSE idle + 1
        late == Timeout > 0 /\ t >= Timeout
    IN  /\ pc = "look" /\ completed' = progress
        /\ idle' = (IF late \/ Timeout = 0 THEN 0 ELSE t)
        /\ IF late THEN monojob_rc' \in Late /\ pc' = "end"
           ELSE /\ pc' = IF monojob_rc = "inprogress" THEN "step" ELSE "end"
                /\ UNCHANGED monojob_rc
        /\ UNCHANGED <<job, buffer, image, jobs>>

(* monojob_close after the loop ends a job that has not ended by itself *)
monojob_close ==
    /\ pc = "end" /\ pc' = "start"
    /\ IF job.plugged THEN downloader_finished(monojob_rc) ELSE UNCHANGED <<job, image>>
    /\ UNCHANGED <<monojob_rc, idle, completed, buffer, jobs>>

Next ==
    \/ create_downloader \/ downloader_deliver \/ transfer_closes \/ other_step
    \/ no_tick \/ key \/ tick \/ monojob_close

Spec == Init /\ [][Next]_vars

-----------------------------------------------------------------------------
Waited == pc = "start" /\ jobs > 0

(* monojob_wait: when it returns the job is over, and nothing but an       *)
(* error, a key or the timeout stands between the file and the image: the  *)
(* image is as long as what was received, whole if the wait succeeded      *)
NothingLeft ==
    Waited => /\ ~job.plugged
              /\ image = (IF buffer.has = {} THEN 0 ELSE Max(buffer.has))
              /\ monojob_rc = "ok" => buffer.has = 1..Blocks
=============================================================================
