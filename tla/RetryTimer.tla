----------------------------- MODULE RetryTimer -----------------------------
(***************************************************************************)
(* The retry timers of net/retry.c and include/ipxe/retry.h, on which      *)
(* every protocol of iPXE rests: the list of running timers, the clock     *)
(* that wraps, the smoothing and the back-off of the timeout, and the      *)
(* references that keep an object alive while its timer is running.        *)
(*                                                                         *)
(* A timer is running when it is on the list.  Each timer belongs to an    *)
(* object of its own, whose owner may drop its reference at any time.      *)
(***************************************************************************)
EXTENDS Integers, Sequences, FiniteSets, Lists

CONSTANTS
    Timer,           \* the timers
    TickSpace,       \* size of unsigned long, in which ticks are counted
    MIN_TIMEOUT,     \* smallest timeout of start_timer (7 in the code)
    MinTimeout,      \* timer->min, or its default
    MaxTimeout,      \* timer->max, or its default
    FixedTimeouts,   \* what start_timer_fixed is called with
    Prompt,          \* TRUE: the main loop polls at least once per tick
    MaxAge,          \* bound on the time a timer runs (explored instance)
    MaxCount,        \* bound on timer->count (explored instance)
    MaxSmoothed      \* bound on the timeout stop_timer leaves (same)

ASSUME RetryAssumption ==
    /\ {TickSpace, MIN_TIMEOUT, MinTimeout, MaxTimeout} \subseteq Nat
    /\ {MaxAge, MaxCount, MaxSmoothed} \subseteq Nat
    /\ Prompt \in BOOLEAN
    /\ FixedTimeouts \subseteq 0..(TickSpace - 1)
    /\ MIN_TIMEOUT <= MaxTimeout /\ MinTimeout <= MaxTimeout
    /\ 2 * MaxTimeout < TickSpace
    /\ MaxSmoothed < TickSpace

Nobody == "nobody"
ASSUME NobodyAssumption == Nobody \notin Timer

VARIABLES
    now,        \* currticks()
    timers,     \* the list of running timers, the newest first
    timer,      \* timeout, count and start of each timer; the start is
                \* kept only while the timer runs, as nothing else reads it
    refcnt,     \* reference count of each timer's object; -1: freed
    owned,      \* objects to which their owner holds a reference
    expiring,   \* the timer whose expiry callback is running, or Nobody
    fail,       \* the failure indicator given to that callback
    age,        \* ticks since the timer was started (history)
    polled      \* retry_poll has run since the last tick (history)

vars == <<now, timers, timer, refcnt, owned, expiring, fail, age, polled>>

Ticks == 0..(TickSpace - 1)
Running(t) == \E i \in DOMAIN timers : timers[i] = t

(* The caller holds a reference to the timer's object *)
Usable(t) == t \in owned \/ expiring = t

Init ==
    /\ now \in Ticks
    /\ timers = <<>>
    /\ timer = [t \in Timer |-> [timeout |-> 0, start |-> 0, count |-> 0]]
    /\ refcnt = [t \in Timer |-> 0]
    /\ owned = Timer
    /\ expiring = Nobody
    /\ fail = FALSE
    /\ age = [t \in Timer |-> 0]
    /\ polled = FALSE

-----------------------------------------------------------------------------
ref_get(t) == [refcnt EXCEPT ![t] = @ + 1]
ref_put(t) == [refcnt EXCEPT ![t] = @ - 1]

(* Mutant: a reference is taken at every start *)
StartCounted(t, timeout) ==
    /\ Usable(t) /\ timer[t].count < MaxCount
    /\ timers' = IF Running(t) THEN timers ELSE <<t>> \o timers
    /\ refcnt' = ref_get(t)
    /\ timer' = [timer EXCEPT ![t].start = now, ![t].timeout = timeout]
    /\ age' = [age EXCEPT ![t] = 0]
    /\ UNCHANGED <<now, owned, expiring, fail, polled>>

(* start_timer_fixed, which start_timer and start_timer_nodelay also call *)
StartFixed(t, timeout) ==
    /\ Usable(t) /\ timer[t].count < MaxCount
    /\ timers' = IF Running(t) THEN timers ELSE <<t>> \o timers
    /\ refcnt' = IF Running(t) THEN refcnt ELSE ref_get(t)
    /\ timer' = [timer EXCEPT ![t].start = now, ![t].timeout = timeout]
    /\ age' = [age EXCEPT ![t] = 0]
    /\ UNCHANGED <<now, owned, expiring, fail, polled>>

start_timer_fixed(t) == \E timeout \in FixedTimeouts : StartFixed(t, timeout)

(* The timeout is raised to the minimum *)
AtLeast(a, b) == IF a < b THEN b ELSE a

start_timer(t) ==
    StartFixed(t, AtLeast(timer[t].timeout, AtLeast(MinTimeout, MIN_TIMEOUT)))

(* The new timeout after a successful run: 7/8 of the old one and half of  *)
(* the time it took                                                        *)
Smoothed(timeout, runtime) ==
    (timeout - (timeout \div 8)) + (runtime \div 2)

stop_timer(t) ==
    LET runtime == (now - timer[t].start) % TickSpace
        old     == timer[t]
        new     == IF old.count > 0 THEN [old EXCEPT !.count = @ - 1]
                   ELSE [old EXCEPT !.timeout = Smoothed(@, runtime)]
    IN  /\ Usable(t) /\ new.timeout <= MaxSmoothed
        /\ \E i \in DOMAIN timers :
              timers[i] = t /\ timers' = list_del(timers, i)
        /\ timer' = [timer EXCEPT ![t] = [new EXCEPT !.start = 0]]
        /\ age' = [age EXCEPT ![t] = 0]
        /\ refcnt' = ref_put(t)
        /\ UNCHANGED <<now, owned, expiring, fail, polled>>

-----------------------------------------------------------------------------
(* Mutant: compares the time of expiry, which may have wrapped *)
ExpiredAtTime(t) == now >= (timer[t].start + timer[t].timeout) % TickSpace

(* The unsigned difference to the start time decides *)
Expired(t) == (now - timer[t].start) % TickSpace >= timer[t].timeout

BackedOff(t) == (2 * timer[t].timeout) % TickSpace

(* timer_expired, up to the call of the callback *)
timer_expired(i) ==
    LET t       == timers[i]
        over    == BackedOff(t) > MaxTimeout
    IN  /\ timers' = list_del(timers, i)
        /\ timer' = [timer EXCEPT ![t] =
                       [timeout |-> IF over THEN MaxTimeout ELSE BackedOff(t),
                        start |-> 0, count |-> @.count + 1]]
        /\ age' = [age EXCEPT ![t] = 0]
        /\ expiring' = t
        /\ fail' = over

(* Mutant: only the newest timer is looked at *)
PollNewest ==
    /\ expiring = Nobody
    /\ IF timers # <<>> /\ Expired(timers[1]) THEN timer_expired(1)
       ELSE UNCHANGED <<timers, timer, expiring, fail, age>>
    /\ polled' = Prompt
    /\ UNCHANGED <<now, refcnt, owned>>

(* retry_poll: at most one expiry, of the first timer that is due *)
retry_poll ==
    /\ expiring = Nobody
    /\ \/ \E i \in DOMAIN timers :
             /\ Expired(timers[i])
             /\ \A j \in 1..(i - 1) : ~Expired(timers[j])
             /\ timer_expired(i)
       \/ /\ \A i \in DOMAIN timers : ~Expired(timers[i])
          /\ UNCHANGED <<timers, timer, expiring, fail, age>>
    /\ polled' = Prompt
    /\ UNCHANGED <<now, refcnt, owned>>

(* The callback returns, and with it the reference of the timer *)
expired_return ==
    /\ expiring # Nobody
    /\ refcnt' = ref_put(expiring)
    /\ expiring' = Nobody
    /\ fail' = FALSE
    /\ UNCHANGED <<now, timers, timer, owned, age, polled>>

-----------------------------------------------------------------------------
(* The clock ticks *)
tick ==
    /\ Prompt => polled
    /\ \A t \in Timer : Running(t) => age[t] < MaxAge
    /\ now' = (now + 1) % TickSpace
    /\ age' = [t \in Timer |-> IF Running(t) THEN age[t] + 1 ELSE age[t]]
    /\ polled' = FALSE
    /\ UNCHANGED <<timers, timer, refcnt, owned, expiring, fail>>

(* The owner of an object lets it go, whether its timer is running or not *)
owner_put(t) ==
    /\ t \in owned
    /\ owned' = owned \ {t}
    /\ refcnt' = ref_put(t)
    /\ UNCHANGED <<now, timers, timer, expiring, fail, age, polled>>

Next ==
    \/ \E t \in Timer :
          start_timer(t) \/ start_timer_fixed(t) \/ stop_timer(t) \/ owner_put(t)
    \/ retry_poll
    \/ expired_return
    \/ tick

Spec == Init /\ [][Next]_vars

-----------------------------------------------------------------------------
(* Properties.                                                             *)

(* Every variable has its type. *)
TypeOK ==
    /\ now \in Ticks
    /\ timers \in Seq(Timer)
    /\ timer \in [Timer -> [timeout : Ticks, start : Ticks, count : Nat]]
    /\ refcnt \in [Timer -> Int]
    /\ owned \subseteq Timer
    /\ expiring \in Timer \cup {Nobody}
    /\ fail \in BOOLEAN
    /\ age \in [Timer -> Nat]
    /\ polled \in BOOLEAN

(* A timer is listed at most once, and each object is referenced by its    *)
(* owner, its running timer and its running callback, by each exactly      *)
(* once: it is never freed under one of them, never freed twice and never  *)
(* leaked, whatever the callback does with its own timer.                  *)
ReferencesExact ==
    /\ \A i, j \in DOMAIN timers : timers[i] = timers[j] => i = j
    /\ \A t \in Timer :
          LET one(b) == IF b THEN 1 ELSE 0
          IN  refcnt[t] + 1 =
                one(t \in owned) + one(Running(t)) + one(expiring = t)

(* No timer expires before its timeout has passed since it was last        *)
(* started, even if the clock has wrapped in between (retry_poll).         *)
NoEarlyExpiry ==
    [][\A t \in Timer : expiring # t /\ expiring' = t
          => age[t] >= timer[t].timeout]_vars

(* "The theoretical minimum that the algorithm in stop_timer() can adjust  *)
(* the timeout back down to is seven ticks": no step but a start with a    *)
(* fixed timeout takes a timeout below MIN_TIMEOUT.                        *)
FloorKept ==
    [][\A t \in Timer : timer[t].timeout >= MIN_TIMEOUT
          => timer[t].timeout' >= MIN_TIMEOUT \/ start_timer_fixed(t)]_vars

(* Retries do not go on for ever: every expiry doubles the timeout and no  *)
(* success undoes more than one of them, so that failure is reported as    *)
(* soon as the maximum is less than 2^count times the minimum.             *)
FailureIsReached ==
    \A t \in Timer : expiring = t /\ ~fail
       => AtLeast(MinTimeout, MIN_TIMEOUT) * 2 ^ timer[t].count <= MaxTimeout

(* If the main loop polls once per tick and timeouts are no shorter than   *)
(* the number of timers, a timer is never overdue by more ticks than there *)
(* are timers, although each poll serves one timer only, and the newest.   *)
NeverOverdue ==
    \A t \in Timer : Running(t)
       => age[t] <= timer[t].timeout + Cardinality(Timer)
=============================================================================
