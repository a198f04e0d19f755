------------------------------- MODULE MCCore -------------------------------
(***************************************************************************)
(* The services every protocol of iPXE rests on, for TLC: the retry        *)
(* timers, the run queue, the object interfaces, the heap and the          *)
(* foreground job.  They share no state, and so a behaviour moves one of   *)
(* them, its part, while the others rest in their initial states.          *)
(*                                                                         *)
(*   prompt              no fixed timeouts, and a main loop that polls at  *)
(*                       least once per tick                               *)
(*   interface, serial   an opener (downloader), a filter with two         *)
(*                       interfaces and two transports, with objects that  *)
(*                       close their interfaces all at once or in turn     *)
(*   heap, offset        sizes at the edges of rounding, one that          *)
(*                       overflows, and I/O buffers with and without an    *)
(*                       offset to their alignment                         *)
(***************************************************************************)
EXTENDS Core

VARIABLES
    part,
    dest, enabled, refs, held, freed_objects, todo,
    free_blocks, freemem, usedmem, objs, cached, cur

processVars == <<run_queue, executing, owners, count, freed>>
interfaceVars == <<dest, enabled, refs, held, freed_objects, todo>>
mallocVars == <<free_blocks, freemem, usedmem, objs, cached, cur>>
monojobVars == <<pc, monojob_rc, idle, completed, job, buffer, image, jobs>>

R == INSTANCE RetryTimer WITH
       TickSpace <- 10, MIN_TIMEOUT <- 2, MinTimeout <- 1, MaxTimeout <- 4,
       FixedTimeouts <- {}, Prompt <- TRUE, MaxAge <- 8, MaxCount <- 3,
       MaxSmoothed <- 4

MCOwner == [xfer |-> "opener", upper |-> "filter", lower |-> "filter",
            first_xfer |-> "first", second_xfer |-> "second"]
MCIntfs == {"xfer", "upper", "lower", "first_xfer", "second_xfer"}
MCObjects == {"opener", "filter", "first", "second"}
MCClose == [xfer |-> "default", upper |-> "finish", lower |-> "finish",
            first_xfer |-> "finish", second_xfer |-> "serial"]

I == INSTANCE Interface WITH freed <- freed_objects,
       Objects <- MCObjects, Intfs <- MCIntfs, Owner <- MCOwner,
       Close <- MCClose, MaxTodo <- 16
S == INSTANCE Interface WITH freed <- freed_objects,
       Objects <- MCObjects, Intfs <- MCIntfs, Owner <- MCOwner, MaxTodo <- 16,
       Close <- [MCClose EXCEPT !.upper = "serial", !.lower = "serial",
                                !.xfer = "finish"]

H == INSTANCE Malloc WITH
       W <- 128, MinBlock <- 4, Hdr <- 2, IobSize <- 4, IobAlign <- 2,
       HeapStart <- 10, HeapLen <- 37, MaxObjs <- 2,
       MallocSizes <- {1, 6, 125, 127}, PhysAsked <- {<<5, 8>>, <<3, 1>>},
       IobAsked <- {<<0, 0, 0>>, <<3, 8, 0>>, <<1, 127, 0>>}
O == INSTANCE Malloc WITH
       W <- 128, MinBlock <- 4, Hdr <- 2, IobSize <- 4, IobAlign <- 2,
       HeapStart <- 10, HeapLen <- 37, MaxObjs <- 3,
       MallocSizes <- {2, 6}, PhysAsked <- {<<5, 8>>},
       IobAsked <- {<<2, 8, 127>>, <<9, 8, 126>>}

ASSUME CoreAssumption ==
    /\ P!ProcessAssumption /\ I!InterfaceAssumption /\ S!InterfaceAssumption
    /\ H!MallocAssumption /\ O!MallocAssumption /\ J!MonojobAssumption

CoreInit ==
    /\ part \in {"retry", "prompt", "process", "interface", "serial",
                 "heap", "offset", "job"}
    /\ IF part = "prompt" THEN R!Init ELSE Init /\ (part = "retry" \/ now = 0)
    /\ P!Init /\ I!Init /\ H!Init /\ J!Init

CoreNext ==
    /\ UNCHANGED part
    /\ \/ /\ part = "retry" /\ Next
          /\ UNCHANGED <<processVars, interfaceVars, mallocVars, monojobVars>>
       \/ /\ part = "prompt" /\ R!Next
          /\ UNCHANGED <<processVars, interfaceVars, mallocVars, monojobVars>>
       \/ /\ part = "process" /\ P!Next
          /\ UNCHANGED <<vars, interfaceVars, mallocVars, monojobVars>>
       \/ /\ part = "interface" /\ I!Next
          /\ UNCHANGED <<vars, processVars, mallocVars, monojobVars>>
       \/ /\ part = "serial" /\ S!Next
          /\ UNCHANGED <<vars, processVars, mallocVars, monojobVars>>
       \/ /\ part = "heap" /\ H!Next
          /\ UNCHANGED <<vars, processVars, interfaceVars, monojobVars>>
       \/ /\ part = "offset" /\ O!Next
          /\ UNCHANGED <<vars, processVars, interfaceVars, monojobVars>>
       \/ /\ part = "job" /\ J!Next
          /\ UNCHANGED <<vars, processVars, interfaceVars, mallocVars>>

CoreSpec ==
    /\ CoreInit
    /\ [][CoreNext]_<<part, vars, processVars, interfaceVars, mallocVars, monojobVars>>

-----------------------------------------------------------------------------
(* retry.c: under a main loop that polls once per tick and timeouts no     *)
(* shorter than the number of timers, no timer is overdue by more ticks    *)
(* than there are timers, although a poll serves one timer only, and the   *)
(* newest; and retries end in failure, as each expiry doubles the timeout. *)
TimersServed == part = "prompt" => R!NeverOverdue /\ R!FailureIsReached

(* interface.c: in the middle of any chain of closures an object has       *)
(* exactly the references of the interfaces plugged into it, of its        *)
(* creator and of the calls in progress; no call goes on to an object that *)
(* has been freed, and no object without references is left.  The chain    *)
(* ends, and then every connection is plugged at both ends and answers at  *)
(* both: no close leaves half of one behind, which would later close       *)
(* someone else's connection.                                              *)
InterfacesSound ==
    /\ I!RefsExact /\ I!NoUseAfterFree /\ I!FreedExactly
    /\ I!NoRunaway /\ I!LinksSymmetric /\ I!PluggedAnswers

(* malloc.c: no byte is both free and allocated, or allocated twice; the   *)
(* free list is as check_blocks wants it and the counters agree with it;   *)
(* every object, and the descriptor of every I/O buffer, is aligned as     *)
(* asked and inside memory of its own; an allocation fails, or discards    *)
(* cached data, only if nothing that large fits between the blocks in use; *)
(* and as long as I/O buffers are aligned without an offset, memory leaks  *)
(* only "at the very end of the heap" and "at the very start of the heap". *)
HeapSound ==
    /\ H!Disjoint /\ H!FreeListSound /\ H!AsAsked /\ H!NoRoom
    /\ part = "heap" => H!LeakAtEnds
=============================================================================
