------------------------------ MODULE Sanboot -------------------------------
(***************************************************************************)
(* SAN devices (core/sanboot.c): a blocking read or write is cut into      *)
(* commands, each retried until it succeeds, over whichever of several     *)
(* paths became available first.  While the caller waits it calls step():  *)
(* one process runs, and a process such as the network poller may handle   *)
(* several packets, that is, several events of this module, before the     *)
(* caller looks at the device again.                                       *)
(***************************************************************************)
EXTENDS Integers, Sequences, Functions, Lists

CONSTANTS
    NumPaths,    \* sandev->paths
    Count,       \* blocks to be transferred by one call
    MaxCount,    \* capacity.max_count: blocks per command
    SanRetries,  \* san_retries
    Batch        \* events handled by one step() at most

SanbootAssumption ==
    /\ NumPaths \in Nat \ {0}
    /\ Count \in Nat \ {0} /\ MaxCount \in Nat \ {0}
    /\ SanRetries \in Nat /\ Batch \in Nat \ {0}

VARIABLES
    opened, closed,  \* lists of paths
    path_rc,         \* status of each path
    active,          \* the active path, or None
    timer,           \* command timer is running
    command,         \* the command plugged into sandev->command, or NoCommand
    command_rc,      \* status of the last command
    pc,              \* where the caller is
    events,          \* events handled by the current step()
    retries,
    lba,             \* blocks transferred, as far as the caller knows
    moved            \* blocks the devices have really transferred

vars == <<opened, closed, path_rc, active, timer, command, command_rc, pc,
          events, retries, lba, moved>>

pathVars == <<opened, closed, path_rc, active>>
commandVars == <<timer, command, command_rc>>
callVars == <<retries, lba, moved>>

Paths == 1..NumPaths
None == 0
NoCommand == {}

(* Status codes: 0, and the errors that are told apart *)
OK == 0
Error == 1
ETIMEDOUT == 2
EINPROGRESS == 3

-----------------------------------------------------------------------------
(* Closing a command: the timer stops, the interface is unplugged *)
sandev_command_close(rc) ==
    timer' = FALSE /\ command' = NoCommand /\ command_rc' = rc

sanpath_close(p, rc) ==
    /\ path_rc' = [path_rc EXCEPT ![p] = rc]
    /\ \E i \in DOMAIN opened : opened[i] = p /\ opened' = list_del(opened, i)
    /\ closed' = Append(closed, p)
    /\ IF p = active
       THEN active' = None /\ sandev_command_close(rc)
       ELSE UNCHANGED <<active, timer, command, command_rc>>

(* Mutant: a clean close is not an error *)
BlockCloseClean(p, rc) == sanpath_close(p, rc)

(* "Any closure is an error from our point of view" *)
sanpath_block_close(p, rc) == sanpath_close(p, IF rc = OK THEN Error ELSE rc)

(* sanpath_step once the path has become available: the first path becomes *)
(* active, the others are closed again                                     *)
sanpath_step(p) ==
    /\ p # active
    /\ IF active = None
       THEN /\ active' = p /\ path_rc' = [path_rc EXCEPT ![p] = OK]
            /\ UNCHANGED <<opened, closed, timer, command, command_rc>>
       ELSE sanpath_close(p, OK)

-----------------------------------------------------------------------------
Init ==
    /\ opened = <<>> /\ closed = [i \in Paths |-> i]
    /\ path_rc = [p \in Paths |-> EINPROGRESS] /\ active = None
    /\ timer = FALSE /\ command = NoCommand /\ command_rc = OK
    /\ pc = "idle" /\ events = 0 /\ retries = 0 /\ lba = 0 /\ moved = {}

(* The caller enters sandev_rw *)
sandev_rw ==
    /\ pc = "idle" /\ pc' = "retry"
    /\ lba' = 0 /\ moved' = {} /\ retries' = 0
    /\ UNCHANGED <<pathVars, commandVars, events>>

(* The number of blocks of the next command, and which they are *)
frag_count == IF Count - lba < MaxCount THEN Count - lba ELSE MaxCount
Fragment == lba..(lba + frag_count - 1)

(* retries is increased by n and the loop's condition decides *)
Retry(n) ==
    /\ retries' = retries + n
    /\ pc' = IF retries + n <= SanRetries THEN "retry" ELSE "failed"
    /\ UNCHANGED <<lba, moved>>

(* sandev_restart closes the paths that are open, in the order they were   *)
(* opened; order is the list of closed paths it leaves                     *)
sandev_restart(rc, open, order) ==
    /\ opened' = <<>> /\ closed' = order
    /\ path_rc' = [p \in Paths |-> IF p \in open THEN rc ELSE path_rc[p]]
    /\ active' = None
    /\ sandev_command_close(rc)

(* sandev_command with no active path: sandev_reopen up to its loop, unless *)
(* the k-th path cannot be opened, which fails the whole device; the paths  *)
(* opened before it are then closed again                                   *)
reopen_begin(k) ==
    LET order == closed \o opened IN
    /\ pc = "retry" /\ active = None /\ k <= Len(order)
    /\ IF k > 0
       THEN /\ sandev_restart(Error,
                 Range(opened) \cup {order[i] : i \in 1..(k - 1)},
                 SubSeq(order, k, Len(order)) \o SubSeq(order, 1, k - 1))
            /\ Retry(IF NumPaths <= 1 THEN 1 ELSE 0)
       ELSE /\ closed' = <<>> /\ opened' = order
            /\ path_rc' = [p \in Paths |-> EINPROGRESS] /\ UNCHANGED active
            /\ sandev_command_close(Error)
            /\ pc' = "reopening" /\ UNCHANGED callVars
    /\ UNCHANGED events

(* After step(): "Wait for any device to become available, or for all      *)
(* devices to fail"                                                        *)
reopen_check ==
    /\ pc = "reopening step" /\ events' = 0
    /\ IF opened = <<>>
       THEN LET rc == path_rc[Head(closed)] IN
            /\ sandev_restart(rc, {}, closed)
            /\ IF rc = OK THEN pc' = "issue" /\ UNCHANGED callVars
               ELSE Retry(IF NumPaths <= 1 THEN 1 ELSE 0)
       ELSE /\ pc' = IF active # None THEN "issue" ELSE "reopening"
            /\ UNCHANGED <<pathVars, commandVars, callVars>>

(* The device is open already *)
no_reopen ==
    /\ pc = "retry" /\ active # None /\ pc' = "issue"
    /\ UNCHANGED <<pathVars, commandVars, callVars, events>>

(* sandev_command_rw and the start of the timer.  The command may fail to  *)
(* start, or be over by the time the timer is started.                     *)
sandev_command_rw(outcome) ==
    /\ pc = "issue"
    /\ IF active = None
       THEN /\ outcome = "started" /\ pc' = "NULL path"
            /\ UNCHANGED <<commandVars, callVars>>
       ELSE \/ /\ outcome = "error" /\ Retry(1) /\ UNCHANGED commandVars
            \/ /\ outcome = "started" /\ command' = Fragment /\ timer' = TRUE
               /\ pc' = "waiting" /\ UNCHANGED <<command_rc, callVars>>
            \/ /\ outcome = "over" /\ command' = NoCommand /\ timer' = TRUE
               /\ command_rc' = Error /\ pc' = "waiting" /\ UNCHANGED callVars
    /\ UNCHANGED <<pathVars, events>>

(* After step(): the loop ends when the timer has stopped *)
wait_check ==
    /\ pc = "waiting step" /\ events' = 0
    /\ IF timer
       THEN pc' = "waiting" /\ UNCHANGED callVars
       ELSE IF command_rc # OK THEN Retry(1)
       ELSE LET next == lba + frag_count IN
            /\ lba' = next /\ retries' = 0 /\ UNCHANGED moved
            /\ pc' = IF next < Count THEN "retry" ELSE "done"
    /\ UNCHANGED <<pathVars, commandVars>>

(* sandev_rw returns *)
return ==
    /\ pc \in {"done", "failed"} /\ pc' = "idle"
    /\ UNCHANGED <<pathVars, commandVars, callVars, events>>

-----------------------------------------------------------------------------
(* step() *)
step ==
    /\ pc \in {"reopening", "waiting"}
    /\ pc' = IF pc = "reopening" THEN "reopening step" ELSE "waiting step"
    /\ UNCHANGED <<pathVars, commandVars, callVars, events>>

Event ==
    /\ pc \in {"reopening step", "waiting step"} /\ events < Batch
    /\ events' = events + 1 /\ UNCHANGED <<pc, retries, lba>>

path_available(p) == Event /\ p \in Range(opened) /\ sanpath_step(p) /\ UNCHANGED moved

path_closed(p, rc) ==
    Event /\ p \in Range(opened) /\ sanpath_block_close(p, rc) /\ UNCHANGED moved

(* The block device finishes the command *)
command_done(rc) ==
    /\ Event /\ command # NoCommand /\ sandev_command_close(rc)
    /\ moved' = IF rc = OK THEN moved \cup command ELSE moved
    /\ UNCHANGED pathVars

sandev_command_expired ==
    Event /\ timer /\ sandev_command_close(ETIMEDOUT) /\ UNCHANGED <<pathVars, moved>>

Next ==
    \/ sandev_rw \/ no_reopen \/ reopen_check \/ wait_check \/ return \/ step
    \/ \E k \in 0..NumPaths : reopen_begin(k)
    \/ \E outcome \in {"error", "started", "over"} : sandev_command_rw(outcome)
    \/ \E p \in Paths : path_available(p)
    \/ \E p \in Paths, rc \in {OK, Error} : path_closed(p, rc)
    \/ \E rc \in {OK, Error} : command_done(rc)
    \/ sandev_command_expired

Spec == Init /\ [][Next]_vars

-----------------------------------------------------------------------------
(* assert ( sanpath != NULL ) in sandev_command_rw: whenever sandev_reopen *)
(* has returned success there is an active path.                           *)
ActiveAtCommand == pc # "NULL path"

(* Success means that the data have really been moved: whatever the caller *)
(* has been told of, block by block, was transferred by a command of this  *)
(* call, never by one given up before, and never by a path closing cleanly *)
(* or by a status left over from an earlier command.                       *)
MovedExact == pc # "idle" => 0..(lba - 1) \subseteq moved

(* A path is either opened or closed, the active path is opened, and there *)
(* is an outstanding command or a wait only through it; nothing is left of *)
(* a command when the next one is started (the assertions on the timer).   *)
PathsSound ==
    /\ Range(opened) \cap Range(closed) = {}
    /\ Range(opened) \cup Range(closed) = Paths
    /\ active # None => active \in Range(opened)
    /\ command # NoCommand => active # None /\ timer
    /\ pc \in {"retry", "issue", "idle"} => ~timer /\ command = NoCommand

(* Both at once: the call tells the truth, over paths that are in order.   *)
SanSound == MovedExact /\ PathsSound
=============================================================================
