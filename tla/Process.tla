------------------------------ MODULE Process -------------------------------
(***************************************************************************)
(* The cooperative scheduler (core/process.c) and the reference counts     *)
(* (core/refcnt.c) that keep a process's object alive.  A process is       *)
(* identified with the object that contains it.                            *)
(*                                                                         *)
(* The code of a step may add, remove or abandon any process, its own      *)
(* included, and may call step() again (a process that waits for a job     *)
(* does).  Those calls interleave with the steps on the stack here.        *)
(***************************************************************************)
EXTENDS Integers, Sequences, FiniteSets, Functions, Lists

CONSTANTS
    Procs,       \* processes
    Reschedule,  \* those whose descriptor says "reschedule"
    MaxOwners,   \* bound on the references held by other objects
    MaxNest      \* bound on nested calls of step()

ProcessAssumption ==
    /\ Reschedule \subseteq Procs /\ IsFiniteSet(Procs)
    /\ MaxOwners \in Nat \ {0} /\ MaxNest \in Nat \ {0}

VARIABLES
    run_queue,   \* sequence of processes
    executing,   \* the steps on the stack, innermost first
    owners,      \* references other objects hold
    count,       \* refcnt->count: one less than the number of references
    freed        \* objects whose free() method was called

vars == <<run_queue, executing, owners, count, freed>>

Queued == {run_queue[i] : i \in DOMAIN run_queue}

-----------------------------------------------------------------------------

(* ref_put: free() is called when the count passes below zero, and never   *)
(* again for an object whose count is too low already.                     *)
ref_put(p) ==
    /\ count' = [count EXCEPT ![p] = @ - 1]
    /\ freed' = IF count[p] = 0 THEN freed \cup {p} ELSE freed

ref_get(p) == count' = [count EXCEPT ![p] = @ + 1] /\ UNCHANGED freed

(* The processes some running code may refer to *)
Reachable == {p \in Procs : owners[p] > 0 \/ p \in Range(executing)}

-----------------------------------------------------------------------------
Init ==
    /\ run_queue = <<>> /\ executing = <<>>
    /\ owners = [p \in Procs |-> 1]      \* the creator's reference
    /\ count = [p \in Procs |-> 0]       \* ref_init
    /\ freed = {}

(* "It is safe to call process_add() multiple times" *)
process_add(p) ==
    /\ p \in Reachable
    /\ p \notin Queued
    /\ ref_get(p) /\ run_queue' = Append(run_queue, p)
    /\ UNCHANGED <<executing, owners>>

process_del(p) ==
    /\ p \in Reachable
    /\ \E i \in DOMAIN run_queue :
         run_queue[i] = p /\ run_queue' = list_del(run_queue, i)
    /\ ref_put(p)
    /\ UNCHANGED <<executing, owners>>

(* Other objects take and drop their references *)
Take(p) ==
    /\ p \in Reachable /\ owners[p] < MaxOwners
    /\ owners' = [owners EXCEPT ![p] = @ + 1]
    /\ ref_get(p) /\ UNCHANGED <<run_queue, executing>>

Drop(p) ==
    /\ owners[p] > 0
    /\ owners' = [owners EXCEPT ![p] = @ - 1]
    /\ ref_put(p) /\ UNCHANGED <<run_queue, executing>>

-----------------------------------------------------------------------------
(* Mutant: the first process stays the first *)
StepFirst ==
    /\ run_queue # <<>> /\ Len(executing) < MaxNest
    /\ LET p == Head(run_queue) IN
       /\ executing' = <<p>> \o executing
       /\ IF p \in Reschedule
          THEN UNCHANGED run_queue /\ ref_get(p)
          ELSE run_queue' = Tail(run_queue) /\ UNCHANGED <<count, freed>>
    /\ UNCHANGED owners

(* Mutant: nothing inhibits destruction mid-step *)
StepUnprotected ==
    /\ run_queue # <<>> /\ Len(executing) < MaxNest
    /\ LET p == Head(run_queue) IN
       /\ executing' = <<p>> \o executing
       /\ IF p \in Reschedule
          THEN run_queue' = Append(Tail(run_queue), p) /\ UNCHANGED <<count, freed>>
          ELSE run_queue' = Tail(run_queue) /\ ref_put(p)
    /\ UNCHANGED owners

(* step() up to the call of the process's own function.  The reference of  *)
(* the queue and the one that inhibits destruction mid-step cancel out     *)
(* when the process is not rescheduled.                                    *)
step ==
    /\ run_queue # <<>> /\ Len(executing) < MaxNest
    /\ LET p == Head(run_queue) IN
       /\ executing' = <<p>> \o executing
       /\ IF p \in Reschedule
          THEN run_queue' = Append(Tail(run_queue), p) /\ ref_get(p)
          ELSE run_queue' = Tail(run_queue) /\ UNCHANGED <<count, freed>>
    /\ UNCHANGED owners

(* The end of step(): "Allow destruction" *)
step_end ==
    /\ executing # <<>>
    /\ executing' = Tail(executing)
    /\ ref_put(Head(executing))
    /\ UNCHANGED <<run_queue, owners>>

Next ==
    \/ step \/ step_end
    \/ \E p \in Procs : process_add(p) \/ process_del(p) \/ Take(p) \/ Drop(p)

Spec == Init /\ [][Next]_vars

-----------------------------------------------------------------------------
TypeOK ==
    /\ run_queue \in Seq(Procs) /\ IsInjective(run_queue)
    /\ executing \in Seq(Procs)
    /\ owners \in [Procs -> 0..MaxOwners] /\ count \in [Procs -> Int]
    /\ freed \subseteq Procs

Occurs(p, s) == Cardinality({i \in DOMAIN s : s[i] = p})

(* The count of an object is the number of its references less one: its    *)
(* owners, its place in the run queue and its steps on the stack, whatever *)
(* a step does to its own process (process_add, process_del, step).        *)
CountExact ==
    \A p \in Procs :
      count[p] = owners[p] + Occurs(p, run_queue) + Occurs(p, executing) - 1

(* free() is called at the moment the last reference goes and never        *)
(* before: nothing that is queued or being executed is freed, and nothing  *)
(* that is unreferenced is kept.                                           *)
FreedExactly ==
    \A p \in Procs : p \in freed <=>
      owners[p] = 0 /\ p \notin Queued /\ p \notin Range(executing)

(* The three together: what free() of an object rests on (refcnt.c) *)
ProcessReferences == TypeOK /\ CountExact /\ FreedExactly

(* A process that stays queued is executed again and again (step). *)
QueuedRuns ==
    \A p \in Procs : []<>(p \notin Queued \/ (executing # <<>> /\ Head(executing) = p))
=============================================================================
