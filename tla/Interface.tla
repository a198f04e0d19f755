----------------------------- MODULE Interface ------------------------------
(***************************************************************************)
(* Object interfaces (core/interface.c) and the operations on them that    *)
(* replace a connection (core/xfer.c, core/open.c).  Interfaces are        *)
(* plugged into each other; an operation on an interface is a call into    *)
(* the object at the other end, which may close, restart or drop anything  *)
(* before the call returns.                                                *)
(*                                                                         *)
(* "todo" is the call stack flattened: the primitive operations that       *)
(* remain to be executed, the next one first.                              *)
(***************************************************************************)
EXTENDS Integers, Sequences, FiniteSets, SequencesExt

CONSTANTS
    Objects, Intfs,
    Owner,      \* Owner[i]: the object that contains interface i
    Close,      \* Close[i]: its close operation (see Handler)
    MaxTodo     \* bound on the stack that no chain of closures may exceed

null_intf == "null_intf"

InterfaceAssumption ==
    /\ Owner \in [Intfs -> Objects]
    /\ Close \in [Intfs -> {"finish", "serial", "default"}]
    /\ MaxTodo \in Nat

VARIABLES
    dest,       \* intf->dest
    enabled,    \* desc is the original one, not null_intf_desc
    refs,       \* number of references to each object
    held,       \* those of an object's creator or of its own activity
    freed,      \* objects whose free() method was called
    todo

vars == <<dest, enabled, refs, held, freed, todo>>

Op(name, i) == [op |-> name, i |-> i, j |-> null_intf]
Op2(name, i, j) == [op |-> name, i |-> i, j |-> j]

IntfsOf(o) == SetToSeq({i \in Intfs : Owner[i] = o})
Ops(name, s) == [k \in DOMAIN s |-> Op(name, s[k])]

-----------------------------------------------------------------------------
(* intf_get and intf_put: the null interface has no reference counter.     *)
(* "r" is the new value of refs after further changes to the count of      *)
(* interface i's object.                                                   *)
Count(r, i, n) == IF i = null_intf THEN r ELSE [r EXCEPT ![Owner[i]] = @ + n]

Freed(r) == freed \cup {o \in Objects : r[o] <= 0}

-----------------------------------------------------------------------------
(* An object ends: intfs_shutdown of all its interfaces *)
Finish(o) == Ops("nullify", IntfsOf(o)) \o Ops("shutdown", IntfsOf(o))
             \o <<Op("release", IntfsOf(o)[1])>>

(* What the close operation of interface i does.  "finish": shut down all  *)
(* interfaces of the object at once (intfs_shutdown) and end its activity; *)
(* "serial": the same one by one; "default": no operation, intf_restart.   *)
(* A nullified interface has the null operation.  Every interface with a   *)
(* pass-through has a close operation of its own, so that closing is never *)
(* passed through.                                                         *)
Handler(i) ==
    IF i = null_intf \/ ~enabled[i] THEN <<>>
    ELSE CASE Close[i] = "finish" -> Finish(Owner[i])
           [] Close[i] = "serial" -> Ops("shutdown", IntfsOf(Owner[i]))
                                     \o <<Op("release", i)>>
           [] OTHER -> <<Op("restart", i)>>

-----------------------------------------------------------------------------
Init ==
    /\ dest = [i \in Intfs |-> null_intf]
    /\ enabled = [i \in Intfs |-> TRUE]
    /\ refs = [o \in Objects |-> 1] /\ held = [o \in Objects |-> 1]
    /\ freed = {} /\ todo = <<>>

(* What the code outside does with the objects it knows of.  Whoever calls *)
(* into an object has a reference to it for as long as the call lasts: the *)
(* timer, the process or the interface through which it got there.         *)
Call(o, ops) ==
    /\ todo = <<>> /\ o \notin freed
    /\ refs' = [refs EXCEPT ![o] = @ + 1]
    /\ todo' = ops \o <<Op("put", IntfsOf(o)[1])>>
    /\ UNCHANGED <<dest, enabled, held, freed>>

Free(i) == dest[i] = null_intf /\ enabled[i]

connect(i, j) ==
    /\ Free(i) /\ Free(j) /\ Owner[i] # Owner[j]
    /\ held[Owner[j]] > 0
    /\ Call(Owner[i], <<Op2("plug", i, j), Op2("plug", j, i)>>)

insert(i, upper, lower) ==
    /\ dest[i] # null_intf /\ Free(upper) /\ Free(lower) /\ upper # lower
    /\ Owner[upper] = Owner[lower] /\ held[Owner[upper]] > 0
    /\ Owner[upper] \notin {Owner[i], Owner[dest[i]]}
    /\ Call(Owner[i], <<Op2("get", dest[i], i), Op2("plug", i, upper),
                        Op2("plug", upper, i), Op2("plug", lower, dest[i]),
                        Op2("plug", dest[i], lower), Op("put", dest[i])>>)

shutdown(i) ==
    dest[i] # null_intf /\ Call(Owner[i], Finish(Owner[i]))

restart(i) == dest[i] # null_intf /\ Call(Owner[i], <<Op("restart", i)>>)

(* Any other operation on the destination (xfer_deliver, intf_poke...), in *)
(* answer to which the object there ends                                   *)
operate(i) ==
    /\ dest[i] # null_intf /\ enabled[dest[i]]
    /\ Call(Owner[i], <<Op("get", dest[i])>> \o Finish(Owner[dest[i]])
                      \o <<Op("put", dest[i])>>)

(* The opener drops the reference with which it created an object *)
release(o) ==
    /\ held[o] > 0 /\ Call(o, <<Op("release", IntfsOf(o)[1])>>)

(* xfer_vredirect with the default xfer_vreopen at the parent's end: the   *)
(* new child j is plugged in, or opening it fails and the parent is told.  *)
redirect(i, j) ==
    /\ dest[i] # null_intf /\ enabled[i] /\ enabled[dest[i]]
    /\ j # null_intf => Free(j) /\ held[Owner[j]] > 0
                        /\ Owner[j] \notin {Owner[i], Owner[dest[i]]}
    /\ LET d == dest[i]
           open == IF j # null_intf
                   THEN <<Op2("plug", j, d), Op2("plug", d, j)>>
                   ELSE <<Op("close", d)>>
       IN  Call(Owner[i], <<Op("get", d), Op("get", d), Op("restart", d)>>
                          \o open \o <<Op("put", d), Op("put", d)>>)

-----------------------------------------------------------------------------
Do(name) == todo # <<>> /\ Head(todo).op = name
Then(ops) == todo' = ops \o Tail(todo)

do_nullify ==
    /\ Do("nullify") /\ Then(<<>>)
    /\ enabled' = [enabled EXCEPT ![Head(todo).i] = FALSE]
    /\ UNCHANGED <<dest, refs, held, freed>>

do_reinit ==
    /\ Do("reinit") /\ Then(<<>>)
    /\ enabled' = [enabled EXCEPT ![Head(todo).i] = TRUE]
    /\ UNCHANGED <<dest, refs, held, freed>>

do_get ==
    /\ Do("get") /\ Then(<<>>)
    /\ refs' = Count(refs, Head(todo).i, 1)
    /\ UNCHANGED <<dest, enabled, held, freed>>

do_put ==
    /\ Do("put") /\ Then(<<>>)
    /\ refs' = Count(refs, Head(todo).i, -1) /\ freed' = Freed(refs')
    /\ UNCHANGED <<dest, enabled, held>>

do_release ==
    LET o == Owner[Head(todo).i] IN
    /\ Do("release") /\ Then(<<>>)
    /\ refs' = [refs EXCEPT ![o] = @ - held[o]] /\ freed' = Freed(refs')
    /\ held' = [held EXCEPT ![o] = 0]
    /\ UNCHANGED <<dest, enabled>>

intf_plug ==
    /\ Do("plug") /\ Then(<<>>)
    /\ LET i == Head(todo).i  j == Head(todo).j IN
       /\ refs' = Count(Count(refs, j, 1), dest[i], -1)
       /\ dest' = [dest EXCEPT ![i] = j]
    /\ freed' = Freed(refs') /\ UNCHANGED <<enabled, held>>

(* Mutant: the temporary interface is unplugged before it is closed *)
ShutdownUnplugged ==
    /\ Do("shutdown")
    /\ LET i == Head(todo).i IN
       /\ Then(<<Op("put", dest[i]), Op("close", dest[i])>>)
       /\ enabled' = [enabled EXCEPT ![i] = FALSE]
       /\ dest' = [dest EXCEPT ![i] = null_intf]
    /\ UNCHANGED <<refs, held, freed>>

(* intf_shutdown: the destination moves to a temporary interface, which is *)
(* closed and unplugged.                                                   *)
intf_shutdown ==
    /\ Do("shutdown")
    /\ LET i == Head(todo).i IN
       /\ Then(<<Op("close", dest[i]), Op("put", dest[i])>>)
       /\ enabled' = [enabled EXCEPT ![i] = FALSE]
       /\ dest' = [dest EXCEPT ![i] = null_intf]
    /\ UNCHANGED <<refs, held, freed>>

intf_restart ==
    /\ Do("restart")
    /\ Then(<<Op("shutdown", Head(todo).i), Op("reinit", Head(todo).i)>>)
    /\ UNCHANGED <<dest, enabled, refs, held, freed>>

(* intf_close: call the operation with a reference to its object *)
intf_close ==
    /\ Do("close")
    /\ LET d == Head(todo).i IN
       /\ refs' = Count(refs, d, 1)
       /\ Then(Handler(d) \o <<Op("put", d)>>)
    /\ UNCHANGED <<dest, enabled, held, freed>>

Step == \/ do_nullify \/ do_reinit \/ do_get \/ do_put \/ do_release
        \/ intf_plug \/ intf_shutdown \/ intf_restart \/ intf_close

Next ==
    \/ Step
    \/ \E i, j \in Intfs : connect(i, j)
    \/ \E i, upper, lower \in Intfs : insert(i, upper, lower)
    \/ \E i \in Intfs : shutdown(i) \/ restart(i) \/ operate(i)
    \/ \E o \in Objects : release(o)
    \/ \E i \in Intfs, j \in Intfs \cup {null_intf} : redirect(i, j)

Spec == Init /\ [][Next]_vars

-----------------------------------------------------------------------------
Pending(o) == Cardinality({k \in DOMAIN todo :
                todo[k].op = "put" /\ todo[k].i \in Intfs /\ Owner[todo[k].i] = o})
Gets(o) == Cardinality({k \in DOMAIN todo :
                todo[k].op = "get" /\ todo[k].i \in Intfs /\ Owner[todo[k].i] = o})
Plugged(o) == Cardinality({i \in Intfs : dest[i] # null_intf /\ Owner[dest[i]] = o})

(* The references to an object are exactly those of the interfaces plugged *)
(* into it, of its creator, and of the calls in progress, in the middle of *)
(* any chain of closures (intf_plug, intf_shutdown, intf_close).           *)
RefsExact ==
    \A o \in Objects :
      refs[o] = held[o] + Plugged(o) + Pending(o) - Gets(o)

(* No call in progress goes on to an object that has been freed, although  *)
(* every close may drop the last other reference to it.                    *)
NoUseAfterFree ==
    \A k \in DOMAIN todo : todo[k].i # null_intf => Owner[todo[k].i] \notin freed

(* Closures that call each other end: each one has detached its interface  *)
(* and blocked it first ("in order to avoid a potential infinite loop").   *)
NoRunaway == Len(todo) <= MaxTodo

(* Between calls every connection is plugged at both ends: no close leaves *)
(* half of one behind, which would later close someone else's connection.  *)
LinksSymmetric ==
    todo = <<>> => \A i \in Intfs : dest[i] # null_intf => dest[dest[i]] = i

(* An object without connections and without creator is freed, one that is *)
(* connected is not.                                                       *)
FreedExactly ==
    todo = <<>> => \A o \in Objects :
      o \in freed <=> held[o] = 0 /\ Plugged(o) = 0

(* An interface that has been plugged again after a restart answers: an    *)
(* interface that is in use is blocked only while its object is being shut *)
(* down (intf_restart, intf_reinit).                                       *)
PluggedAnswers ==
    todo = <<>> => \A i \in Intfs : dest[i] # null_intf => enabled[i]
=============================================================================
