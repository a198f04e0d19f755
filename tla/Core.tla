-------------------------------- MODULE Core --------------------------------
(***************************************************************************)
(* The retry timers, which this module extends, and beside them the run    *)
(* queue and the foreground job: what drives every other part of iPXE, and *)
(* what waits for it.  They share no state.                                *)
(***************************************************************************)
EXTENDS RetryTimer

CONSTANTS Procs, Reschedule, MaxOwners, MaxNest
CONSTANTS Blocks, Timeout, MaxJobs
VARIABLES run_queue, executing, owners, count, freed
VARIABLES pc, monojob_rc, idle, completed, job, buffer, image, jobs

P == INSTANCE Process
J == INSTANCE Monojob

(* process.c, refcnt.c: the count of an object is the number of its        *)
(* references less one, whatever a step does to its own process, and       *)
(* free() is called when the last one goes and never before.               *)
ProcessReferences == P!ProcessReferences

(* monojob.c, downloader.c: when monojob_wait returns, the job is over,    *)
(* and the image is as long as what was received, whole on success.        *)
NothingLeft == J!NothingLeft
=============================================================================
