------------------------------ MODULE CoreProofs ----------------------------
(***************************************************************************)
(* Theorems about parts of core/: the retry timers (any number of them),   *)
(* the references of processes and the foreground job.                     *)
(***************************************************************************)
EXTENDS Core, ListFacts, FiniteSetTheorems

-----------------------------------------------------------------------------
(* The retry timers *)

(* The reference that is there when b holds *)
One(b) == IF b THEN 1 ELSE 0

RefsOK ==
    /\ Distinct(timers)
    /\ \A t \in Timer : refcnt[t] + 1 =
          One(t \in owned) + One(In(timers, t)) + One(expiring = t)

(* The two forms say the same. *)
LEMMA RefsForm == RefsOK <=> ReferencesExact
  BY DEF RefsOK, ReferencesExact, Distinct, In, One, Running

RetryInv == TypeOK /\ RefsOK

(* The initial state satisfies the invariant. *)
LEMMA RetryInit == Init => RetryInv
  <1> SUFFICES ASSUME Init PROVE RetryInv
    OBVIOUS
  <1>1. 0 \in Ticks
    BY RetryAssumption DEF Ticks
  <1>2. TypeOK
    <2>1. [timeout |-> 0, start |-> 0, count |-> 0]
            \in [timeout : Ticks, start : Ticks, count : Nat]
      BY <1>1
    <2>2. timer \in [Timer -> [timeout : Ticks, start : Ticks, count : Nat]]
      BY <2>1 DEF Init
    <2>3. timers \in Seq(Timer)
      BY EmptySeq DEF Init
    <2>4. refcnt \in [Timer -> Int] /\ age \in [Timer -> Nat]
      BY DEF Init
    <2>5. QED BY Zenon, <2>2, <2>3, <2>4 DEF Init, TypeOK
  <1>3. DOMAIN timers = {}
    BY DEF Init
  <1>4. Distinct(timers) /\ \A t \in Timer : ~In(timers, t)
    BY <1>3 DEF Distinct, In
  <1>5. \A t \in Timer : expiring # t /\ t \in owned /\ refcnt[t] = 0
    BY NobodyAssumption DEF Init
  <1>6. RefsOK
    BY <1>4, <1>5 DEF RefsOK, One
  <1>7. QED BY <1>2, <1>6 DEF RetryInv

(* The timeouts with which timers are started are tick counts. *)
LEMMA StartTypes ==
    ASSUME RetryInv, NEW t \in Timer
    PROVE  /\ FixedTimeouts \subseteq Ticks
           /\ AtLeast(timer[t].timeout, AtLeast(MinTimeout, MIN_TIMEOUT)) \in Ticks
  <1>1. timer[t].timeout \in Ticks
    BY DEF RetryInv, TypeOK
  <1>2. QED BY <1>1, RetryAssumption DEF Ticks, AtLeast

(* Starting a timer takes a reference exactly if it was not running. *)
LEMMA StartKeeps ==
    ASSUME RetryInv, NEW t \in Timer, NEW timeout \in Ticks,
           StartFixed(t, timeout)
    PROVE  RetryInv'
  <1>1. timers \in Seq(Timer) /\ Distinct(timers) /\ (Running(t) <=> In(timers, t))
    BY DEF RetryInv, TypeOK, RefsOK, Running, In
  <1>2. /\ timers' \in Seq(Timer) /\ Distinct(timers')
        /\ \A u : In(timers', u) <=> In(timers, u) \/ u = t
    <2>1. CASE Running(t)
      <3>1. timers' = timers
        BY <2>1 DEF StartFixed
      <3>2. QED BY <1>1, <2>1, <3>1
    <2>2. CASE ~Running(t)
      <3>1. timers' = <<t>> \o timers
        BY <2>2 DEF StartFixed
      <3>2. QED BY <1>1, <2>2, <3>1, Enlisted
    <2>3. QED BY <2>1, <2>2
  <1>3. /\ refcnt' \in [Timer -> Int]
        /\ \A u \in Timer : refcnt'[u] =
              refcnt[u] + IF u = t /\ ~In(timers, t) THEN 1 ELSE 0
    BY <1>1 DEF RetryInv, TypeOK, StartFixed, ref_get
  <1>4. TypeOK'
    BY ZenonT(30), <1>2, <1>3 DEF RetryInv, TypeOK, StartFixed
  <1>5. RefsOK'
    <2>1. owned' = owned /\ expiring' = expiring
      BY DEF StartFixed
    <2>2. refcnt \in [Timer -> Int]
      BY DEF RetryInv, TypeOK
    <2>3. ASSUME NEW u \in Timer
          PROVE  refcnt'[u] + 1 =
                   One(u \in owned) + One(In(timers', u)) + One(expiring = u)
      <3>1. refcnt[u] \in Int /\ refcnt[u] + 1 =
              One(u \in owned) + One(In(timers, u)) + One(expiring = u)
        BY <2>2 DEF RetryInv, RefsOK
      <3>2. CASE u = t
        BY <1>2, <1>3, <3>1, <3>2 DEF One
      <3>3. CASE u # t
        BY <1>2, <1>3, <3>1, <3>3 DEF One
      <3>4. QED BY <3>2, <3>3
    <2>4. QED BY <1>2, <2>1, <2>3 DEF RefsOK
  <1>6. QED BY <1>4, <1>5 DEF RetryInv

(* Stopping a timer drops the reference its start took. *)
LEMMA StopKeeps ==
    ASSUME RetryInv, NEW t \in Timer, stop_timer(t)
    PROVE  RetryInv'
  <1>1. PICK i \in DOMAIN timers : timers[i] = t /\ timers' = list_del(timers, i)
    BY DEF stop_timer
  <1>2. timers \in Seq(Timer) /\ Distinct(timers) /\ In(timers, t)
    BY <1>1 DEF RetryInv, TypeOK, RefsOK, In
  <1>3. /\ timers' \in Seq(Timer) /\ Distinct(timers')
        /\ \A u : In(timers', u) <=> In(timers, u) /\ u # t
    BY <1>1, <1>2, Delisted
  <1>4. /\ refcnt' \in [Timer -> Int]
        /\ \A u \in Timer : refcnt'[u] = refcnt[u] - IF u = t THEN 1 ELSE 0
    <2>1. refcnt' = [refcnt EXCEPT ![t] = refcnt[t] - 1]
      BY DEF stop_timer, ref_put
    <2>2. refcnt \in [Timer -> Int]
      BY DEF RetryInv, TypeOK
    <2>3. QED BY <2>1, <2>2
  <1>5. timer' \in [Timer -> [timeout : Ticks, start : Ticks, count : Nat]]
    <2> DEFINE runtime == (now - timer[t].start) % TickSpace
               old     == timer[t]
               new     == IF old.count > 0 THEN [old EXCEPT !.count = @ - 1]
                          ELSE [old EXCEPT !.timeout = Smoothed(@, runtime)]
    <2>1. /\ old \in [timeout : Ticks, start : Ticks, count : Nat]
          /\ now \in Ticks /\ 0 \in Ticks
      <3>1. /\ timer \in [Timer -> [timeout : Ticks, start : Ticks, count : Nat]]
            /\ now \in Ticks
        BY DEF RetryInv, TypeOK
      <3>2. 0 \in Ticks
        BY RetryAssumption DEF Ticks
      <3>3. QED BY Zenon, <3>1, <3>2
    <2>2. timer' = [timer EXCEPT ![t] = [new EXCEPT !.start = 0]]
          /\ new.timeout <= MaxSmoothed
      BY DEF stop_timer
    <2>3. runtime \in Nat
      BY <2>1, RetryAssumption DEF Ticks
    <2> HIDE DEF runtime
    <2>4. Smoothed(old.timeout, runtime) \in Nat
      BY <2>1, <2>3 DEF Smoothed, Ticks
    <2>5. new \in [timeout : Ticks, start : Ticks, count : Nat]
      <3>1. CASE old.count > 0
        <4>1. new = [old EXCEPT !.count = old.count - 1] /\ old.count - 1 \in Nat
          BY <2>1, <3>1
        <4>2. QED BY <2>1, <4>1
      <3>2. CASE ~(old.count > 0)
        <4>1. new = [old EXCEPT !.timeout = Smoothed(old.timeout, runtime)]
          BY <3>2
        <4>2. Smoothed(old.timeout, runtime) \in Ticks
          BY <2>1, <2>2, <2>4, <4>1, RetryAssumption DEF Ticks
        <4>3. QED BY <2>1, <4>1, <4>2
      <3>3. QED BY <3>1, <3>2
    <2> HIDE DEF new, old
    <2>6. timer \in [Timer -> [timeout : Ticks, start : Ticks, count : Nat]]
      BY DEF RetryInv, TypeOK
    <2>7. QED BY <2>1, <2>2, <2>5, <2>6
  <1>6. TypeOK'
    BY Zenon, <1>3, <1>4, <1>5 DEF RetryInv, TypeOK, stop_timer
  <1>7. RefsOK'
    <2>1. owned' = owned /\ expiring' = expiring
      BY DEF stop_timer
    <2>2. refcnt \in [Timer -> Int]
      BY DEF RetryInv, TypeOK
    <2>3. ASSUME NEW u \in Timer
          PROVE  refcnt'[u] + 1 =
                   One(u \in owned) + One(In(timers', u)) + One(expiring = u)
      <3>1. refcnt[u] \in Int /\ refcnt[u] + 1 =
              One(u \in owned) + One(In(timers, u)) + One(expiring = u)
        BY <2>2 DEF RetryInv, RefsOK
      <3>2. CASE u = t
        <4>1. In(timers, u) /\ ~In(timers', u) /\ refcnt'[u] = refcnt[u] - 1
          BY <1>2, <1>3, <1>4, <3>2
        <4>2. QED BY <3>1, <4>1 DEF One
      <3>3. CASE u # t
        BY <1>3, <1>4, <3>1, <3>3 DEF One
      <3>4. QED BY <3>2, <3>3
    <2>4. QED BY <1>3, <2>1, <2>3 DEF RefsOK
  <1>8. QED BY <1>6, <1>7 DEF RetryInv

(* An expiry hands the reference of the running timer to the callback. *)
LEMMA ExpiryKeeps ==
    ASSUME RetryInv, retry_poll
    PROVE  RetryInv'
  <1>1. CASE UNCHANGED <<timers, timer, expiring, fail, age>>
    <2>1. TypeOK'
      BY <1>1, RetryAssumption DEF RetryInv, TypeOK, retry_poll
    <2>2. RefsOK'
      BY <1>1 DEF RetryInv, RefsOK, retry_poll
    <2>3. QED BY <2>1, <2>2 DEF RetryInv
  <1>2. ASSUME NEW i \in DOMAIN timers, timer_expired(i)
        PROVE  RetryInv'
    <2> DEFINE t == timers[i]
    <2>1. timers \in Seq(Timer) /\ Distinct(timers) /\ In(timers, t)
      BY DEF RetryInv, TypeOK, RefsOK, In
    <2>2. timers' = list_del(timers, i) /\ expiring' = t
      BY <1>2 DEF timer_expired
    <2>3. /\ timers' \in Seq(Timer) /\ Distinct(timers')
          /\ \A u : In(timers', u) <=> In(timers, u) /\ u # t
      BY <2>1, <2>2, Delisted
    <2>4. t \in Timer
      BY <2>1, ElementOfSeq, LenProperties
    <2>5. timer' \in [Timer -> [timeout : Ticks, start : Ticks, count : Nat]]
      <3> DEFINE n == IF BackedOff(t) > MaxTimeout THEN MaxTimeout
                      ELSE BackedOff(t)
      <3>1. timer' = [timer EXCEPT ![t] = [timeout |-> n, start |-> 0,
                                           count |-> timer[t].count + 1]]
        BY <1>2 DEF timer_expired
      <3>2. timer \in [Timer -> [timeout : Ticks, start : Ticks, count : Nat]]
        BY DEF RetryInv, TypeOK
      <3>3. 0 \in Ticks /\ MaxTimeout \in Ticks
        BY RetryAssumption DEF Ticks
      <3>4. timer[t].timeout \in Nat
        BY <2>4, <3>2 DEF Ticks
      <3>5. BackedOff(t) \in Ticks
        BY <3>4, RetryAssumption DEF BackedOff, Ticks
      <3>6. n \in Ticks
        BY <3>3, <3>5
      <3> HIDE DEF n, t
      <3>7. timer[t].count + 1 \in Nat
        BY <2>4, <3>2
      <3>8. QED BY <2>4, <3>1, <3>2, <3>3, <3>6, <3>7
    <2>6. TypeOK'
      <3>1. fail' \in BOOLEAN /\ age' \in [Timer -> Nat]
        BY <1>2, <2>4 DEF RetryInv, TypeOK, timer_expired
      <3>2. polled' \in BOOLEAN /\ UNCHANGED <<now, refcnt, owned>>
        BY RetryAssumption DEF retry_poll
      <3> HIDE DEF t
      <3>3. QED BY Zenon, <2>2, <2>3, <2>4, <2>5, <3>1, <3>2
                DEF RetryInv, TypeOK
    <2>7. RefsOK'
      <3>1. UNCHANGED <<refcnt, owned>> /\ expiring = Nobody
        BY DEF retry_poll
      <3>2. ASSUME NEW u \in Timer
            PROVE  refcnt[u] + 1 =
                     One(u \in owned) + One(In(timers', u)) + One(expiring' = u)
        <4>1. refcnt[u] \in Int /\ refcnt[u] + 1 =
                One(u \in owned) + One(In(timers, u)) + One(expiring = u)
          BY DEF RetryInv, RefsOK, TypeOK
        <4>2. expiring # u
          BY <3>1, NobodyAssumption
        <4> HIDE DEF t
        <4>3. CASE u = t
          <5>1. In(timers, u) /\ ~In(timers', u) /\ expiring' = u
            BY <2>1, <2>2, <2>3, <4>3
          <5>2. QED BY <4>1, <4>2, <5>1 DEF One
        <4>4. CASE u # t
          <5>1. (In(timers', u) <=> In(timers, u)) /\ expiring' # u
            BY <2>2, <2>3, <4>4
          <5>2. QED BY <4>1, <4>2, <5>1 DEF One
        <4>5. QED BY <4>3, <4>4
      <3>3. QED BY <2>3, <3>1, <3>2 DEF RefsOK
    <2>8. QED BY <2>6, <2>7 DEF RetryInv
  <1>3. QED BY <1>1, <1>2 DEF retry_poll

(* Every step keeps the invariant. *)
LEMMA RetryNext == RetryInv /\ [Next]_vars => RetryInv'
  <1> SUFFICES ASSUME RetryInv, [Next]_vars PROVE RetryInv'
    OBVIOUS
  <1>types. /\ refcnt \in [Timer -> Int] /\ owned \subseteq Timer
            /\ expiring \in Timer \cup {Nobody}
    BY DEF RetryInv, TypeOK
  <1>1. ASSUME NEW t \in Timer, start_timer(t) PROVE RetryInv'
    BY <1>1, StartTypes, StartKeeps DEF start_timer
  <1>2. ASSUME NEW t \in Timer, start_timer_fixed(t) PROVE RetryInv'
    <2>1. PICK timeout \in FixedTimeouts : StartFixed(t, timeout)
      BY <1>2 DEF start_timer_fixed
    <2>2. timeout \in Ticks
      BY StartTypes
    <2>3. QED BY <2>1, <2>2, StartKeeps
  <1>3. ASSUME NEW t \in Timer, stop_timer(t) PROVE RetryInv'
    BY <1>3, StopKeeps
  <1>4. ASSUME NEW t \in Timer, owner_put(t) PROVE RetryInv'
    <2>1. refcnt' = [refcnt EXCEPT ![t] = refcnt[t] - 1] /\ owned' = owned \ {t}
          /\ t \in owned /\ UNCHANGED <<timers, expiring>>
      BY <1>4 DEF owner_put, ref_put
    <2>2. TypeOK'
      BY <1>types, <1>4, <2>1 DEF RetryInv, TypeOK, owner_put
    <2>3. ASSUME NEW u \in Timer
          PROVE  refcnt'[u] + 1 =
                   One(u \in owned') + One(In(timers, u)) + One(expiring = u)
      <3>1. refcnt[u] \in Int /\ refcnt[u] + 1 =
              One(u \in owned) + One(In(timers, u)) + One(expiring = u)
        BY <1>types DEF RetryInv, RefsOK
      <3>2. CASE u = t
        <4>1. refcnt'[u] = refcnt[u] - 1 /\ u \in owned /\ u \notin owned'
          BY <1>types, <2>1, <3>2
        <4>2. QED BY <3>1, <4>1 DEF One
      <3>3. CASE u # t
        <4>1. refcnt'[u] = refcnt[u] /\ (u \in owned' <=> u \in owned)
          BY <1>types, <2>1, <3>3
        <4>2. QED BY <3>1, <4>1 DEF One
      <3>4. QED BY <3>2, <3>3
    <2>4. RefsOK'
      BY <2>1, <2>3 DEF RetryInv, RefsOK
    <2>5. QED BY <2>2, <2>4 DEF RetryInv
  <1>5. ASSUME retry_poll PROVE RetryInv'
    BY <1>5, ExpiryKeeps
  <1>6. ASSUME expired_return PROVE RetryInv'
    <2>1. /\ refcnt' = [refcnt EXCEPT ![expiring] = refcnt[expiring] - 1]
          /\ expiring \in Timer /\ expiring' = Nobody
          /\ UNCHANGED <<timers, owned>>
      BY <1>types, <1>6 DEF expired_return, ref_put
    <2>int. refcnt' \in [Timer -> Int]
      BY <1>types, <2>1
    <2>2. TypeOK'
      BY Zenon, <1>6, <2>1, <2>int DEF RetryInv, TypeOK, expired_return
    <2>3. ASSUME NEW u \in Timer
          PROVE  refcnt'[u] + 1 =
                   One(u \in owned) + One(In(timers, u)) + One(expiring' = u)
      <3>1. refcnt[u] \in Int /\ refcnt[u] + 1 =
              One(u \in owned) + One(In(timers, u)) + One(expiring = u)
        BY <1>types DEF RetryInv, RefsOK
      <3>2. expiring' # u
        BY <2>1, NobodyAssumption
      <3>3. CASE u = expiring
        <4>1. refcnt'[u] = refcnt[u] - 1
          BY <1>types, <2>1, <3>3
        <4>2. QED BY <3>1, <3>2, <3>3, <4>1 DEF One
      <3>4. CASE u # expiring
        <4>1. refcnt'[u] = refcnt[u]
          BY <1>types, <2>1, <3>4
        <4>2. QED BY <3>1, <3>2, <3>4, <4>1 DEF One
      <3>5. QED BY <3>3, <3>4
    <2>4. RefsOK'
      BY <2>1, <2>3 DEF RetryInv, RefsOK
    <2>5. QED BY <2>2, <2>4 DEF RetryInv
  <1>7. ASSUME tick PROVE RetryInv'
    <2>1. now' \in Ticks
      <3>1. now \in Nat /\ now' = (now + 1) % TickSpace
        BY <1>7 DEF tick, RetryInv, TypeOK, Ticks
      <3>2. TickSpace \in Nat /\ TickSpace > 0
        BY RetryAssumption
      <3>3. QED BY <3>1, <3>2 DEF Ticks
    <2>2. age' \in [Timer -> Nat]
      BY <1>7 DEF tick, RetryInv, TypeOK
    <2>3. TypeOK'
      BY Zenon, <1>7, <2>1, <2>2 DEF tick, RetryInv, TypeOK
    <2>4. RefsOK'
      BY <1>7 DEF tick, RetryInv, RefsOK
    <2>5. QED BY <2>3, <2>4 DEF RetryInv
  <1>8. ASSUME UNCHANGED vars PROVE RetryInv'
    BY <1>8 DEF vars, RetryInv, TypeOK, RefsOK
  <1>9. QED BY SMTT(30), <1>1, <1>2, <1>3, <1>4, <1>5, <1>6, <1>7, <1>8 DEF Next

(* Every variable always has its type. *)
THEOREM RetryTypeCorrect == Spec => []TypeOK
  <1>1. RetryInv => TypeOK
    BY DEF RetryInv
  <1>2. QED BY <1>1, RetryInit, RetryNext, PTL DEF Spec

(* For any number of timers, and whatever their callbacks do with them, an *)
(* object is referenced exactly by its owner, its running timer and its    *)
(* running callback: start_timer_fixed, stop_timer and timer_expired never *)
(* free it early, free it twice or leak it.                                *)
THEOREM ReferencesStayExact == Spec => []ReferencesExact
  <1>1. RetryInv => ReferencesExact
    BY RefsForm DEF RetryInv
  <1>2. QED BY <1>1, RetryInit, RetryNext, PTL DEF Spec

-----------------------------------------------------------------------------
(* The floor of the timeout.                                               *)

(* What smoothing, backing off and rounding up do to a timeout *)
NewTimeout(old, new) ==
    \/ new = old
    \/ new = AtLeast(old, AtLeast(MinTimeout, MIN_TIMEOUT))
    \/ new <= MaxSmoothed /\ \E r \in Nat : new = Smoothed(old, r)
    \/ new <= MaxTimeout /\ new = (2 * old) % TickSpace
    \/ new = MaxTimeout

(* Every step does one of these to each timer, or starts it with a fixed   *)
(* timeout.                                                                *)
LEMMA TimeoutStep ==
    ASSUME RetryInv, [Next]_vars, NEW t \in Timer
    PROVE  \/ NewTimeout(timer[t].timeout, timer'[t].timeout)
           \/ start_timer_fixed(t) /\ timer'[t].timeout \in FixedTimeouts
  <1> DEFINE Good == \/ NewTimeout(timer[t].timeout, timer'[t].timeout)
                     \/ /\ start_timer_fixed(t)
                        /\ timer'[t].timeout \in FixedTimeouts
  <1>0. /\ timer \in [Timer -> [timeout : Ticks, start : Ticks, count : Nat]]
        /\ now \in Int /\ timers \in Seq(Timer)
    BY DEF RetryInv, TypeOK, Ticks
  <1>1. ASSUME NEW u \in Timer, NEW n \in Ticks, StartFixed(u, n)
        PROVE  timer'[t].timeout = IF t = u THEN n ELSE timer[t].timeout
    BY <1>0, <1>1 DEF StartFixed
  <1>2. ASSUME NEW u \in Timer, start_timer(u) PROVE Good
    <2>1. timer'[t].timeout = timer[t].timeout
          \/ timer'[t].timeout =
               AtLeast(timer[t].timeout, AtLeast(MinTimeout, MIN_TIMEOUT))
      BY <1>1, <1>2, StartTypes DEF start_timer
    <2>2. QED BY <2>1 DEF NewTimeout
  <1>3. ASSUME NEW u \in Timer, start_timer_fixed(u) PROVE Good
    <2>1. PICK n \in FixedTimeouts : StartFixed(u, n)
      BY <1>3 DEF start_timer_fixed
    <2>2. timer'[t].timeout = IF t = u THEN n ELSE timer[t].timeout
      BY <1>1, <2>1, StartTypes
    <2>3. CASE t = u
      BY SMTT(30), <1>3, <2>2, <2>3
    <2>4. CASE t # u
      BY <2>2, <2>4 DEF NewTimeout
    <2>5. QED BY <2>3, <2>4
  <1>4. ASSUME NEW u \in Timer, stop_timer(u) PROVE Good
    <2> DEFINE runtime == (now - timer[u].start) % TickSpace
               old     == timer[u]
               new     == IF old.count > 0 THEN [old EXCEPT !.count = @ - 1]
                          ELSE [old EXCEPT !.timeout = Smoothed(@, runtime)]
    <2>1. /\ timer' = [timer EXCEPT ![u] = [new EXCEPT !.start = 0]]
          /\ new.timeout <= MaxSmoothed
      BY <1>4 DEF stop_timer
    <2>2. runtime \in Nat
      <3>1. now \in Int /\ timer[u].start \in Int
        BY <1>0 DEF Ticks
      <3>2. TickSpace \in Nat /\ TickSpace > 0
        BY RetryAssumption
      <3>3. QED BY <3>1, <3>2
    <2> HIDE DEF runtime
    <2>3. new.timeout = IF old.count > 0 THEN old.timeout
                        ELSE Smoothed(old.timeout, runtime)
      BY <1>0
    <2>4. DOMAIN new = {"timeout", "start", "count"}
      BY <1>0
    <2> HIDE DEF new
    <2>5. timer'[t].timeout = IF t = u THEN new.timeout ELSE timer[t].timeout
      BY SMTT(30), <1>0, <2>1, <2>4
    <2>6. QED BY <2>1, <2>2, <2>3, <2>5 DEF NewTimeout
  <1>5. ASSUME NEW u \in Timer, owner_put(u) PROVE Good
    BY <1>5 DEF owner_put, NewTimeout
  <1>6. ASSUME retry_poll PROVE Good
    <2>1. CASE UNCHANGED timer
      BY <2>1 DEF NewTimeout
    <2>2. ASSUME NEW i \in DOMAIN timers, timer_expired(i) PROVE Good
      <3> DEFINE u == timers[i]
                 n == IF BackedOff(u) > MaxTimeout THEN MaxTimeout
                      ELSE BackedOff(u)
      <3>1. timer' = [timer EXCEPT ![u] = [timeout |-> n, start |-> 0,
                                           count |-> timer[u].count + 1]]
        BY <2>2 DEF timer_expired
      <3>2. u \in Timer
        BY SMTT(30), <1>0, ElementOfSeq, LenProperties
      <3>3. \/ n = MaxTimeout
            \/ n <= MaxTimeout /\ n = (2 * timer[u].timeout) % TickSpace
        <4>1. timer[u].timeout \in Nat
          BY SMTT(30), <1>0, <3>2 DEF Ticks
        <4>2. MaxTimeout \in Nat /\ TickSpace \in Nat /\ TickSpace > 0
          BY SMTT(30), RetryAssumption
        <4>3. BackedOff(u) \in Nat
          BY <4>1, <4>2 DEF BackedOff
        <4>4. BackedOff(u) > MaxTimeout \/ BackedOff(u) <= MaxTimeout
          BY <4>2, <4>3
        <4>5. QED BY <4>4 DEF BackedOff
      <3> HIDE DEF n, u
      <3>4. timer'[t].timeout = IF t = u THEN n ELSE timer[t].timeout
        BY SMTT(30), <1>0, <3>1, <3>2
      <3>5. QED BY <3>3, <3>4 DEF NewTimeout
    <2>3. QED BY <1>6, <2>1, <2>2 DEF retry_poll
  <1>7. ASSUME expired_return PROVE Good
    BY SMTT(30), <1>7 DEF expired_return, NewTimeout
  <1>8. ASSUME tick PROVE Good
    BY <1>8 DEF tick, NewTimeout
  <1>9. ASSUME UNCHANGED vars PROVE Good
    BY <1>9 DEF vars, NewTimeout
  <1> HIDE DEF Good
  <1>10. Good
    BY SMTT(30), <1>2, <1>3, <1>4, <1>5, <1>6, <1>7, <1>8, <1>9 DEF Next
  <1>11. QED BY <1>10 DEF Good

(* No timeout is so long that doubling it would overflow *)
NoOverflow == \A t \in Timer : 2 * timer[t].timeout < TickSpace

(* The constants leave room for doubling, and the minimum is seven or less *)
RoomToDouble ==
    /\ MIN_TIMEOUT <= 7
    /\ 2 * MaxSmoothed < TickSpace
    /\ \A f \in FixedTimeouts : 2 * f < TickSpace

(* Smoothing with any runtime takes no timeout from seven or more to less. *)
LEMMA SmoothedFloor ==
    \A n \in Nat, r \in Nat : n >= 7 => Smoothed(n, r) >= 7
  BY DEF Smoothed

(* Nor from a smaller minimum to less. *)
LEMMA SmoothedSmall ==
    \A n \in Nat, r \in Nat : n < 8 => Smoothed(n, r) >= n
  BY DEF Smoothed

(* A changed timeout keeps its floor and its room for doubling. *)
LEMMA NewTimeoutOK ==
    ASSUME RoomToDouble, NEW old \in Nat, NEW new, NewTimeout(old, new),
           2 * old < TickSpace
    PROVE  /\ new \in Nat /\ 2 * new < TickSpace
           /\ old >= MIN_TIMEOUT => new >= MIN_TIMEOUT
  <1>0. /\ {TickSpace, MIN_TIMEOUT, MinTimeout, MaxTimeout, MaxSmoothed}
             \subseteq Nat
        /\ MIN_TIMEOUT <= MaxTimeout /\ MinTimeout <= MaxTimeout
        /\ 2 * MaxTimeout < TickSpace /\ TickSpace > 0
    BY RetryAssumption
  <1>1. CASE new = old
    BY SMTT(30), <1>1
  <1>2. CASE new = AtLeast(old, AtLeast(MinTimeout, MIN_TIMEOUT))
    BY <1>0, <1>2 DEF AtLeast
  <1>3. CASE new <= MaxSmoothed /\ \E r \in Nat : new = Smoothed(old, r)
    <2>1. PICK r \in Nat : new = Smoothed(old, r)
      BY <1>3
    <2>2. new \in Nat
      BY <2>1 DEF Smoothed
    <2>3. old >= MIN_TIMEOUT => new >= MIN_TIMEOUT
      <3>1. CASE old >= 7
        BY SMTT(30), <1>0, <2>1, <2>2, <3>1, SmoothedFloor DEF RoomToDouble
      <3>2. CASE old < 7
        BY SMTT(30), <1>0, <2>1, <2>2, <3>2, SmoothedSmall
      <3>3. QED BY <3>1, <3>2
    <2>4. QED BY <1>0, <1>3, <2>2, <2>3 DEF RoomToDouble
  <1>4. CASE new <= MaxTimeout /\ new = (2 * old) % TickSpace
    <2>1. new = 2 * old
      BY <1>0, <1>4
    <2>2. QED BY <1>0, <1>4, <2>1
  <1>5. CASE new = MaxTimeout
    BY <1>0, <1>5
  <1>6. QED BY <1>1, <1>2, <1>3, <1>4, <1>5 DEF NewTimeout

(* Every step keeps the room for doubling, and the floor unless it starts  *)
(* the timer with a fixed timeout.                                         *)
LEMMA FloorStep ==
    ASSUME RoomToDouble, RetryInv, NoOverflow, [Next]_vars
    PROVE  /\ NoOverflow'
           /\ \A t \in Timer : timer[t].timeout >= MIN_TIMEOUT
                => timer[t].timeout' >= MIN_TIMEOUT \/ start_timer_fixed(t)
  <1>1. ASSUME NEW t \in Timer
        PROVE  /\ 2 * timer'[t].timeout < TickSpace
               /\ timer[t].timeout >= MIN_TIMEOUT
                    => timer'[t].timeout >= MIN_TIMEOUT \/ start_timer_fixed(t)
    <2>1. timer[t].timeout \in Nat /\ 2 * timer[t].timeout < TickSpace
      BY DEF RetryInv, TypeOK, Ticks, NoOverflow
    <2>2. CASE NewTimeout(timer[t].timeout, timer'[t].timeout)
      BY <2>1, <2>2, NewTimeoutOK
    <2>3. CASE start_timer_fixed(t) /\ timer'[t].timeout \in FixedTimeouts
      BY <2>3 DEF RoomToDouble
    <2>4. QED BY <2>2, <2>3, TimeoutStep
  <1>2. QED BY <1>1 DEF NoOverflow

(* The comment on MIN_TIMEOUT: with a minimum of seven ticks or less, and  *)
(* timeouts that can be doubled without overflow, no smoothing and no      *)
(* back-off ever takes a timeout below the minimum.                        *)
THEOREM FloorStays == ASSUME RoomToDouble PROVE Spec => FloorKept
  <1>1. Init => NoOverflow
    BY RetryAssumption DEF Init, NoOverflow
  <1>2. RetryInv /\ NoOverflow /\ [Next]_vars => NoOverflow'
    BY FloorStep
  <1>3. RetryInv /\ NoOverflow /\ [Next]_vars =>
          [\A t \in Timer : timer[t].timeout >= MIN_TIMEOUT
             => timer[t].timeout' >= MIN_TIMEOUT \/ start_timer_fixed(t)]_vars
    BY FloorStep
  <1>4. QED
    BY <1>1, <1>2, <1>3, RetryInit, RetryNext, PTL DEF Spec, FloorKept

-----------------------------------------------------------------------------
(* The clock may wrap.                                                     *)

(* A running timer's age is the time since its start, up to some wraps *)
AgeOK(t) ==
    \E k \in Nat : timer[t].start + age[t] = now + k * TickSpace

AgesOK == \A t \in Timer : In(timers, t) => AgeOK(t)

(* A difference wraps at most once. *)
LEMMA WrappedDifference ==
    ASSUME NEW T \in Nat \ {0}, NEW a \in 0..(T - 1), NEW b \in 0..(T - 1)
    PROVE  (a - b) % T = IF a >= b THEN a - b ELSE a - b + T
  <1>1. CASE a >= b
    BY <1>1
  <1>2. CASE a < b
    <2> DEFINE q == (a - b) \div T
               r == (a - b) % T
    <2>1. a \in Int /\ b \in Int /\ T \in Int /\ T > 0
      OBVIOUS
    <2>2. q \in Int /\ r \in 0..(T - 1) /\ a - b = (T * q) + r
      BY <2>1
    <2>3. 0 - T < a - b /\ a - b < 0
      BY <1>2
    <2> HIDE DEF q, r
    <2>4. q = -1
      <3>1. q < 0
        BY <2>1, <2>2, <2>3
      <3>2. q > -2
        BY <2>1, <2>2, <2>3
      <3>3. QED BY <2>2, <3>1, <3>2
    <2>5. r = a - b + T
      BY SMTT(30), <2>1, <2>2, <2>4
    <2>6. QED BY <1>2, <2>5 DEF r
  <1>3. QED BY <1>1, <1>2

(* The unsigned difference to the start time is never more than the age. *)
LEMMA UsedIsPassed ==
    ASSUME RetryInv, NEW t \in Timer, AgeOK(t)
    PROVE  (now - timer[t].start) % TickSpace <= age[t]
  <1> DEFINE T == TickSpace
             used == (now - timer[t].start) % T
  <1>1. /\ now \in 0..(T - 1) /\ timer[t].start \in 0..(T - 1)
        /\ age[t] \in Nat
    BY SMTT(30) DEF RetryInv, TypeOK, Ticks
  <1>2. T \in Nat /\ T > 0
    BY RetryAssumption
  <1>3. PICK k \in Nat : timer[t].start + age[t] = now + k * T
    BY DEF AgeOK
  <1>4. used = IF now >= timer[t].start THEN now - timer[t].start
               ELSE now - timer[t].start + T
    <2>1. T \in Nat \ {0}
      BY <1>2
    <2> DEFINE start == timer[t].start
    <2>2. now \in 0..(T - 1) /\ start \in 0..(T - 1)
      BY <1>1
    <2> HIDE DEF T, start
    <2>3. (now - start) % T = IF now >= start THEN now - start
                              ELSE now - start + T
      BY <2>1, <2>2, WrappedDifference
    <2>4. QED BY <2>3 DEF T, start
  <1>5. k = 0 \/ k * T >= T
    BY <1>2
  <1>6. QED BY SMTT(30), <1>1, <1>2, <1>3, <1>4, <1>5

(* Every step keeps the ages of the running timers. *)
LEMMA AgesStep ==
    ASSUME RetryInv, AgesOK, [Next]_vars
    PROVE  AgesOK'
  <1>0. /\ timer \in [Timer -> [timeout : Ticks, start : Ticks, count : Nat]]
        /\ timers \in Seq(Timer) /\ Distinct(timers)
        /\ age \in [Timer -> Nat] /\ now \in Ticks
    BY DEF RetryInv, TypeOK, RefsOK
  <1>1. ASSUME NEW u \in Timer, AgeOK(u), now' = now, age'[u] = age[u],
               timer'[u].start = timer[u].start
        PROVE  AgeOK(u)'
    BY <1>1 DEF AgeOK
  <1>2. ASSUME NEW t \in Timer, NEW n \in Ticks, StartFixed(t, n)
        PROVE  AgesOK'
    <2>1. /\ now' = now /\ \A u \in Timer : u # t =>
                age'[u] = age[u] /\ timer'[u].start = timer[u].start
          /\ age'[t] = 0 /\ timer'[t].start = now
      BY <1>0, <1>2 DEF StartFixed
    <2>2. ASSUME NEW u \in Timer, u # t, In(timers', u) PROVE In(timers, u)
      <3>1. CASE Running(t)
        BY <1>2, <2>2, <3>1 DEF StartFixed
      <3>2. CASE ~Running(t)
        <4>1. timers' = <<t>> \o timers /\ ~In(timers, t)
          BY <1>2, <3>2 DEF StartFixed, Running, In
        <4>2. QED BY <1>0, <2>2, <4>1, Enlisted
      <3>3. QED BY <3>1, <3>2
    <2>3. AgeOK(t)'
      <3>1. now \in Nat /\ TickSpace \in Nat
        BY <1>0, RetryAssumption DEF Ticks
      <3>2. now + 0 = now + 0 * TickSpace
        BY <3>1
      <3>3. QED BY <2>1, <3>2 DEF AgeOK
    <2>4. QED BY <1>1, <2>1, <2>2, <2>3 DEF AgesOK
  <1>3. ASSUME NEW t \in Timer, NEW i \in DOMAIN timers, timers[i] = t,
               timers' = list_del(timers, i), now' = now,
               \A u \in Timer : u # t =>
                  age'[u] = age[u] /\ timer'[u] = timer[u]
        PROVE  AgesOK'
    <2>1. \A u : In(timers', u) => In(timers, u) /\ u # t
      BY ZenonT(30), <1>0, <1>3, Delisted
    <2>2. QED BY <1>1, <1>3, <2>1 DEF AgesOK
  <1>4. ASSUME NEW t \in Timer, stop_timer(t) PROVE AgesOK'
    <2>1. PICK i \in DOMAIN timers : timers[i] = t /\ timers' = list_del(timers, i)
      BY <1>4 DEF stop_timer
    <2>2. /\ now' = now
          /\ \A u \in Timer : u # t =>
                age'[u] = age[u] /\ timer'[u] = timer[u]
      BY <1>0, <1>4 DEF stop_timer
    <2>3. QED BY <1>3, <2>1, <2>2
  <1>5. ASSUME UNCHANGED <<now, timers, timer, age>> PROVE AgesOK'
    BY <1>5 DEF AgesOK, AgeOK
  <1>6. ASSUME retry_poll PROVE AgesOK'
    <2>1. CASE UNCHANGED <<timers, timer, expiring, fail, age>>
      BY SMTT(30), <1>5, <1>6, <2>1 DEF retry_poll
    <2>2. ASSUME NEW i \in DOMAIN timers, timer_expired(i) PROVE AgesOK'
      <3>1. timers[i] \in Timer
        BY ZenonT(30), <1>0, ElementOfSeq, LenProperties
      <3>2. /\ timers' = list_del(timers, i) /\ now' = now
            /\ \A u \in Timer : u # timers[i] =>
                  age'[u] = age[u] /\ timer'[u] = timer[u]
        BY SMTT(30), <1>0, <1>6, <2>2 DEF timer_expired, retry_poll
      <3>3. QED BY <1>3, <3>1, <3>2
    <2>3. QED BY <1>6, <2>1, <2>2 DEF retry_poll
  <1>7. ASSUME tick PROVE AgesOK'
    <2>1. /\ timers' = timers /\ timer' = timer
          /\ now' = (now + 1) % TickSpace
          /\ \A u \in Timer : In(timers, u) => age'[u] = age[u] + 1
      BY <1>7 DEF tick, Running, In
    <2>2. now \in 0..(TickSpace - 1) /\ TickSpace \in Nat /\ TickSpace > 0
      BY <1>0, RetryAssumption DEF Ticks
    <2>3. \/ now' = now + 1
          \/ now' = 0 /\ now + 1 = TickSpace
      <3>1. CASE now + 1 < TickSpace
        BY SMTT(30), <2>1, <2>2, <3>1
      <3>2. CASE now + 1 = TickSpace
        BY SMTT(30), <2>1, <2>2, <3>2
      <3>3. QED BY <2>2, <3>1, <3>2
    <2>4. ASSUME NEW u \in Timer, In(timers, u) PROVE AgeOK(u)'
      <3>1. PICK k \in Nat : timer[u].start + age[u] = now + k * TickSpace
        BY <2>4 DEF AgesOK, AgeOK
      <3>2. timer[u].start \in Int /\ age[u] \in Int
        BY <1>0 DEF Ticks
      <3>3. CASE now' = now + 1
        <4>1. timer[u].start + (age[u] + 1) = (now + 1) + k * TickSpace
          BY SMTT(30), <2>2, <3>1, <3>2
        <4>2. QED BY SMTT(30), <2>1, <2>4, <3>3, <4>1 DEF AgeOK
      <3>4. CASE now' = 0 /\ now + 1 = TickSpace
        <4>1. timer[u].start + (age[u] + 1) = 0 + (k + 1) * TickSpace
          BY <2>2, <3>1, <3>2, <3>4
        <4>2. k + 1 \in Nat
          OBVIOUS
        <4>3. QED BY SMTT(30), <2>1, <2>4, <3>4, <4>1, <4>2 DEF AgeOK
      <3>5. QED BY SMTT(30), <2>3, <3>3, <3>4
    <2>5. QED BY <2>1, <2>4 DEF AgesOK
  <1>8. ASSUME NEW t \in Timer, start_timer(t) PROVE AgesOK'
    BY SMTT(30), <1>2, <1>8, StartTypes DEF start_timer
  <1>9. ASSUME NEW t \in Timer, start_timer_fixed(t) PROVE AgesOK'
    BY <1>2, <1>9, StartTypes DEF start_timer_fixed
  <1>10. ASSUME NEW t \in Timer, owner_put(t) PROVE AgesOK'
    BY <1>5, <1>10 DEF owner_put
  <1>11. ASSUME expired_return PROVE AgesOK'
    BY SMTT(30), <1>5, <1>11 DEF expired_return
  <1>12. ASSUME UNCHANGED vars PROVE AgesOK'
    BY SMTT(30), <1>5, <1>12 DEF vars
  <1>13. QED
    BY SMTT(30), <1>4, <1>6, <1>7, <1>8, <1>9, <1>10, <1>11, <1>12 DEF Next

(* A callback is entered only for a timer that is due. *)
LEMMA ExpiryIsDue ==
    ASSUME RetryInv, AgesOK, [Next]_vars,
           NEW t \in Timer, expiring # t, expiring' = t
    PROVE  age[t] >= timer[t].timeout
  <1>1. Nobody # t
    BY NobodyAssumption
  <1>2. retry_poll
    BY Zenon, <1>1 DEF Next, vars, start_timer, start_timer_fixed, StartFixed,
                stop_timer, owner_put, expired_return, tick
  <1>3. PICK i \in DOMAIN timers : Expired(timers[i]) /\ timer_expired(i)
    BY <1>2 DEF retry_poll
  <1>4. timers[i] = t
    BY <1>3 DEF timer_expired
  <1>5. AgeOK(t)
    BY <1>4 DEF AgesOK, In
  <1>6. (now - timer[t].start) % TickSpace <= age[t]
    BY <1>5, UsedIsPassed
  <1>7. (now - timer[t].start) % TickSpace >= timer[t].timeout
    BY <1>3, <1>4 DEF Expired
  <1>8. age[t] \in Int /\ timer[t].timeout \in Int
    BY DEF RetryInv, TypeOK, Ticks
  <1>9. (now - timer[t].start) % TickSpace \in Int
    <2>1. now \in Int /\ timer[t].start \in Int
      BY DEF RetryInv, TypeOK, Ticks
    <2>2. TickSpace \in Nat /\ TickSpace > 0
      BY RetryAssumption
    <2>3. QED BY <2>1, <2>2
  <1>10. QED BY SMTT(30), <1>6, <1>7, <1>8, <1>9

(* No timer expires before its timeout has passed, however often the clock *)
(* has wrapped: the unsigned subtraction of retry_poll is right.           *)
THEOREM NeverEarly == Spec => NoEarlyExpiry
  <1>1. Init => AgesOK
    BY DEF Init, AgesOK, In
  <1>2. RetryInv /\ AgesOK /\ [Next]_vars => AgesOK'
    BY AgesStep
  <1>3. RetryInv /\ AgesOK /\ [Next]_vars =>
          [\A t \in Timer : expiring # t /\ expiring' = t
             => age[t] >= timer[t].timeout]_vars
    BY ExpiryIsDue
  <1>4. QED
    BY <1>1, <1>2, <1>3, RetryInit, RetryNext, PTL DEF Spec, NoEarlyExpiry

-----------------------------------------------------------------------------
(* Processes and their references *)

(* The operators of module Process, in terms of those above. *)
LEMMA ProcessTerms ==
    /\ \A S : P!Cardinality(S) = Cardinality(S)
    /\ \A s, i : P!list_del(s, i) = list_del(s, i)
    /\ \A s : P!IsInjective(s) <=> Distinct(s)
    /\ \A p : p \in P!Queued <=> In(run_queue, p)
    /\ \A p : p \in P!Range(executing) <=> In(executing, p)
  <1>1. \A S : P!Cardinality(S) = Cardinality(S)
    BY Zenon DEF P!Cardinality, Cardinality
  <1>2. \A s, i : P!list_del(s, i) = list_del(s, i)
    BY Zenon DEF P!list_del, list_del
  <1>3. \A s : P!IsInjective(s) <=> Distinct(s)
    BY Zenon DEF P!IsInjective, Distinct
  <1>4. \A p : p \in P!Queued <=> In(run_queue, p)
    BY DEF P!Queued, In
  <1>5. \A p : p \in P!Range(executing) <=> In(executing, p)
    BY DEF P!Range, In
  <1>6. QED BY Zenon, <1>1, <1>2, <1>3, <1>4, <1>5

(* How often p occurs in s *)
LEMMA OccursType ==
    ASSUME NEW S, NEW s \in Seq(S), NEW p
    PROVE  /\ IsFiniteSet({i \in DOMAIN s : s[i] = p})
           /\ P!Occurs(p, s) = Cardinality({i \in DOMAIN s : s[i] = p})
           /\ P!Occurs(p, s) \in Nat
           /\ P!Occurs(p, s) = 0 <=> ~In(s, p)
  <1> DEFINE T == {i \in DOMAIN s : s[i] = p}
  <1>1. Len(s) \in Nat /\ DOMAIN s = 1..Len(s)
    BY LenProperties
  <1>2. IsFiniteSet(1..Len(s))
    BY <1>1, FS_Interval
  <1>3. T \in SUBSET (1..Len(s))
    BY <1>1
  <1>4. IsFiniteSet(T)
    BY Zenon, <1>2, <1>3, FS_Subset
  <1>5. P!Occurs(p, s) = Cardinality(T)
    BY ProcessTerms DEF P!Occurs
  <1>6. Cardinality(T) \in Nat /\ (Cardinality(T) = 0 <=> T = {})
    BY <1>4, FS_CardinalityType, FS_EmptySet
  <1>7. T = {} <=> ~In(s, p)
    BY DEF In
  <1>8. QED BY <1>4, <1>5, <1>6, <1>7

(* A process is queued once at most. *)
LEMMA OccursOnce ==
    ASSUME NEW S, NEW s \in Seq(S), NEW p, Distinct(s)
    PROVE  P!Occurs(p, s) = IF In(s, p) THEN 1 ELSE 0
  <1> DEFINE T == {i \in DOMAIN s : s[i] = p}
  <1>1. CASE ~In(s, p)
    BY Zenon, <1>1, OccursType
  <1>2. CASE In(s, p)
    <2>1. PICK k \in DOMAIN s : s[k] = p
      BY <1>2 DEF In
    <2>2. T = {k}
      BY <2>1 DEF Distinct
    <2>3. Cardinality(T) = 1
      BY Zenon, <2>2, FS_Singleton
    <2>4. P!Occurs(p, s) = Cardinality(T)
      BY Zenon, OccursType
    <2>5. QED BY <1>2, <2>3, <2>4
  <1>3. QED BY <1>1, <1>2

(* Pushing x onto the stack s adds one occurrence, of x. *)
LEMMA OccursPush ==
    ASSUME NEW S, NEW s \in Seq(S), NEW x \in S, NEW p
    PROVE  P!Occurs(p, <<x>> \o s)
             = P!Occurs(p, s) + IF x = p THEN 1 ELSE 0
  <1> DEFINE t == <<x>> \o s
             A == {i \in DOMAIN s : s[i] = p}
             B == {i \in DOMAIN t : t[i] = p}
             up == [i \in A |-> i + 1]
             C == {i + 1 : i \in A}
  <1>1. /\ t \in Seq(S) /\ Len(t) = Len(s) + 1 /\ Len(s) \in Nat
        /\ DOMAIN s = 1..Len(s) /\ DOMAIN t = 1..Len(t)
        /\ t[1] = x /\ \A i \in 1..Len(s) : t[i + 1] = s[i]
    <2>1. <<x>> \in Seq(S) /\ Len(<<x>>) = 1 /\ <<x>>[1] = x
      OBVIOUS
    <2>2. QED BY <2>1, ConcatProperties, LenProperties
  <1> HIDE DEF t
  <1>2. /\ IsFiniteSet(A) /\ P!Occurs(p, s) = Cardinality(A)
        /\ P!Occurs(p, t) = Cardinality(B)
    <2>1. t \in Seq(S)
      BY <1>1
    <2>2. QED BY Zenon, <2>1, OccursType
  <1>3. ExistsBijection(A, C)
    <2>1. up \in [A -> C]
      OBVIOUS
    <2>2. \A i, j \in A : up[i] = up[j] => i = j
      BY <1>1
    <2>3. \A c \in C : \E i \in A : up[i] = c
      OBVIOUS
    <2>4. up \in Bijection(A, C)
      BY <2>1, <2>2, <2>3 DEF Bijection, Injection, Surjection, IsInjective
    <2>5. QED BY <2>4 DEF ExistsBijection
  <1>4. IsFiniteSet(C) /\ Cardinality(C) = Cardinality(A)
    BY Zenon, <1>2, <1>3, FS_Bijection
  <1>5. C = {i \in 2..Len(t) : t[i] = p}
    <2>1. ASSUME NEW i \in 2..Len(t), t[i] = p PROVE i \in C
      <3>1. i - 1 \in 1..Len(s) /\ (i - 1) + 1 = i
        BY <1>1
      <3>2. i - 1 \in A
        BY SMTT(30), <1>1, <2>1, <3>1
      <3>3. QED BY SMTT(30), <3>1, <3>2
    <2>2. ASSUME NEW i \in A PROVE i + 1 \in 2..Len(t) /\ t[i + 1] = p
      BY SMTT(30), <1>1
    <2>3. QED BY SMTT(30), <2>1, <2>2
  <1>6. B = IF x = p THEN C \cup {1} ELSE C
    BY <1>1, <1>5
  <1>7. 1 \notin C
    BY <1>5
  <1> HIDE DEF A, B, C
  <1>8. Cardinality(B) = Cardinality(C) + IF x = p THEN 1 ELSE 0
    <2>1. CASE x = p
      <3>1. Cardinality(C \cup {1}) = Cardinality(C) + 1
        BY Zenon, <1>4, <1>7, FS_AddElement
      <3>2. QED BY <1>6, <2>1, <3>1
    <2>2. CASE x # p
      <3>1. Cardinality(C) \in Nat
        BY Zenon, <1>4, FS_CardinalityType
      <3>2. QED BY <1>6, <2>2, <3>1
    <2>3. QED BY <2>1, <2>2
  <1>9. QED BY <1>2, <1>4, <1>8 DEF t

(* Popping takes it away again. *)
LEMMA OccursPop ==
    ASSUME NEW S, NEW s \in Seq(S), s # <<>>, NEW p
    PROVE  /\ Head(s) \in S /\ Tail(s) \in Seq(S)
           /\ P!Occurs(p, s) = P!Occurs(p, Tail(s))
                               + IF Head(s) = p THEN 1 ELSE 0
  <1> DEFINE h == Head(s)
             r == Tail(s)
  <1>1. h \in S /\ r \in Seq(S) /\ s = <<h>> \o r
    BY HeadTailProperties
  <1> HIDE DEF h, r
  <1>2. P!Occurs(p, <<h>> \o r) = P!Occurs(p, r) + IF h = p THEN 1 ELSE 0
    BY Zenon, <1>1, OccursPush
  <1>3. QED BY Zenon, <1>1, <1>2 DEF h, r

(* All the references to the object of p *)
References(p) == owners[p] + P!Occurs(p, run_queue) + P!Occurs(p, executing)


(* The inductive invariant counts all references together. *)
ProcessInv ==
    /\ P!TypeOK
    /\ \A p \in Procs : /\ count[p] = References(p) - 1
                        /\ p \in freed <=> References(p) = 0

LEMMA ReferencesForm ==
    ASSUME P!TypeOK
    PROVE  /\ \A p \in Procs : References(p) \in Nat
           /\ ProcessInv => P!ProcessReferences
  <1>1. /\ run_queue \in Seq(Procs) /\ executing \in Seq(Procs)
        /\ owners \in [Procs -> 0..MaxOwners]
    BY DEF P!TypeOK
  <1>2. ASSUME NEW p \in Procs
        PROVE  /\ References(p) \in Nat
               /\ References(p) = 0 <=> /\ owners[p] = 0 /\ ~In(run_queue, p)
                                        /\ ~In(executing, p)
    <2>1. /\ P!Occurs(p, run_queue) \in Nat
          /\ P!Occurs(p, run_queue) = 0 <=> ~In(run_queue, p)
      BY Zenon, <1>1, OccursType
    <2>2. /\ P!Occurs(p, executing) \in Nat
          /\ P!Occurs(p, executing) = 0 <=> ~In(executing, p)
      BY Zenon, <1>1, OccursType
    <2>3. owners[p] \in Nat
      BY <1>1
    <2>4. QED BY <2>1, <2>2, <2>3 DEF References
  <1>4. ASSUME ProcessInv PROVE P!CountExact
    <2>1. ASSUME NEW p \in Procs
          PROVE  count[p] = owners[p] + P!Occurs(p, run_queue)
                            + P!Occurs(p, executing) - 1
      <3>1. count[p] = References(p) - 1
        BY Zenon, <1>4 DEF ProcessInv
      <3>2. P!Occurs(p, run_queue) \in Nat /\ P!Occurs(p, executing) \in Nat
        BY Zenon, <1>1, OccursType
      <3>3. owners[p] \in Nat
        BY <1>1
      <3>4. QED BY <3>1, <3>2, <3>3 DEF References
    <2>2. QED BY <2>1 DEF P!CountExact
  <1>5. ASSUME ProcessInv PROVE P!FreedExactly
    <2>1. ASSUME NEW p \in Procs
          PROVE  p \in freed <=> /\ owners[p] = 0 /\ p \notin P!Queued
                                 /\ p \notin P!Range(executing)
      BY Zenon, <1>2, <1>5, ProcessTerms DEF ProcessInv
    <2>2. QED BY Zenon, <2>1 DEF P!FreedExactly
  <1>6. QED BY Zenon, <1>2, <1>4, <1>5 DEF P!ProcessReferences

(* A reference is taken, while there is another. *)
LEMMA TakeReference ==
    ASSUME ProcessInv, P!TypeOK', NEW p \in Procs, P!ref_get(p),
           References(p) > 0,
           \A q \in Procs : References(q)' = References(q) + IF p = q THEN 1 ELSE 0
    PROVE  ProcessInv'
  <1>1. \A q \in Procs : References(q) \in Nat
    BY Zenon, ReferencesForm DEF ProcessInv
  <1>2. count \in [Procs -> Int]
    BY DEF ProcessInv, P!TypeOK
  <1>3. \A q \in Procs : count'[q] = References(q)' - 1
    BY <1>1, <1>2 DEF P!ref_get, ProcessInv
  <1>4. \A q \in Procs : q \in freed' <=> References(q)' = 0
    BY <1>1 DEF P!ref_get, ProcessInv
  <1>5. QED BY Zenon, <1>3, <1>4 DEF ProcessInv

(* A reference is dropped. *)
LEMMA DropReference ==
    ASSUME ProcessInv, P!TypeOK', NEW p \in Procs, P!ref_put(p),
           References(p) > 0,
           \A q \in Procs : References(q)' = References(q) - IF p = q THEN 1 ELSE 0
    PROVE  ProcessInv'
  <1>1. \A q \in Procs : References(q) \in Nat
    BY Zenon, ReferencesForm DEF ProcessInv
  <1>2. count \in [Procs -> Int]
    BY DEF ProcessInv, P!TypeOK
  <1>3. \A q \in Procs : count'[q] = References(q)' - 1
    BY <1>1, <1>2 DEF P!ref_put, ProcessInv
  <1>4. \A q \in Procs : q \in freed' <=> References(q)' = 0
    BY <1>1, <1>2 DEF P!ref_put, ProcessInv
  <1>5. QED BY Zenon, <1>3, <1>4 DEF ProcessInv

(* A process that some running code refers to, or that is queued, has a    *)
(* reference.                                                              *)
LEMMA Referenced ==
    ASSUME P!TypeOK, NEW p \in Procs,
           p \in P!Reachable \/ In(run_queue, p) \/ In(executing, p)
    PROVE  References(p) > 0
  <1>1. /\ P!Occurs(p, run_queue) \in Nat
        /\ P!Occurs(p, run_queue) = 0 <=> ~In(run_queue, p)
    BY Zenon, OccursType DEF P!TypeOK
  <1>2. /\ P!Occurs(p, executing) \in Nat
        /\ P!Occurs(p, executing) = 0 <=> ~In(executing, p)
    BY Zenon, OccursType DEF P!TypeOK
  <1>3. owners[p] \in Nat
    BY DEF P!TypeOK
  <1>4. owners[p] > 0 \/ In(run_queue, p) \/ In(executing, p)
    BY Zenon, ProcessTerms DEF P!Reachable
  <1>5. QED BY <1>1, <1>2, <1>3, <1>4 DEF References

(* ref_get and ref_put keep the types of what they change. *)
LEMMA CountTypes ==
    ASSUME count \in [Procs -> Int], freed \subseteq Procs, NEW p \in Procs,
           P!ref_get(p) \/ P!ref_put(p)
    PROVE  count' \in [Procs -> Int] /\ freed' \subseteq Procs
  BY DEF P!ref_get, P!ref_put

LEMMA ReferenceTypes ==
    ASSUME run_queue \in Seq(Procs), executing \in Seq(Procs),
           owners \in [Procs -> 0..MaxOwners], NEW q \in Procs
    PROVE  /\ P!Occurs(q, run_queue) \in Nat /\ P!Occurs(q, executing) \in Nat
           /\ owners[q] \in Nat
  <1>1. owners[q] \in Nat
    OBVIOUS
  <1>2. QED BY Zenon, <1>1, OccursType

(* The types after a step, from those of what it wrote. *)
LEMMA TypeForm ==
    ASSUME run_queue' \in Seq(Procs), Distinct(run_queue'),
           executing' \in Seq(Procs), owners' \in [Procs -> 0..MaxOwners],
           count' \in [Procs -> Int], freed' \subseteq Procs
    PROVE  P!TypeOK'
  <1>1. P!IsInjective(run_queue')
    BY Zenon, ProcessTerms
  <1>2. QED BY Zenon, <1>1 DEF P!TypeOK

LEMMA ProcessInit == ASSUME P!ProcessAssumption PROVE P!Init => ProcessInv
  <1> SUFFICES ASSUME P!Init PROVE ProcessInv
    OBVIOUS
  <1>1. run_queue = <<>> /\ executing = <<>> /\ <<>> \in Seq(Procs)
    BY DEF P!Init
  <1>2. P!IsInjective(run_queue)
    BY <1>1 DEF P!IsInjective
  <1>3. P!TypeOK
    BY <1>1, <1>2 DEF P!Init, P!TypeOK, P!ProcessAssumption
  <1>4. ASSUME NEW p \in Procs PROVE References(p) = 1
    <2>1. ~In(<<>>, p)
      BY DEF In
    <2>2. P!Occurs(p, <<>>) = 0
      BY Zenon, <1>1, <2>1, OccursType
    <2>3. QED BY <1>1, <2>2 DEF References, P!Init
  <1>5. QED BY <1>3, <1>4 DEF ProcessInv, P!Init

(* What each operation does to the references of every process. *)
LEMMA ProcessNext ==
    ASSUME P!ProcessAssumption
    PROVE  ProcessInv /\ [P!Next]_P!vars => ProcessInv'
  <1> SUFFICES ASSUME ProcessInv, [P!Next]_P!vars PROVE ProcessInv'
    OBVIOUS
  <1>1. /\ run_queue \in Seq(Procs) /\ executing \in Seq(Procs)
        /\ Distinct(run_queue) /\ owners \in [Procs -> 0..MaxOwners]
        /\ count \in [Procs -> Int] /\ freed \subseteq Procs /\ P!TypeOK
    BY Zenon, ProcessTerms DEF ProcessInv, P!TypeOK
  <1>2. \A s \in Seq(Procs) : \A p : P!Occurs(p, s) \in Nat
    BY Zenon, OccursType
  <1>3. ASSUME P!step PROVE ProcessInv'
    <2> DEFINE p == Head(run_queue)
    <2>1. /\ p \in Procs /\ In(run_queue, p)
          /\ Tail(run_queue) \in Seq(Procs) /\ Distinct(Tail(run_queue))
          /\ \A u : In(Tail(run_queue), u) <=> In(run_queue, u) /\ u # p
      BY Zenon, <1>1, <1>3, Advanced DEF P!step
    <2>2. /\ executing' = <<p>> \o executing /\ owners' = owners
          /\ p \in Reschedule =>
               run_queue' = Append(Tail(run_queue), p) /\ P!ref_get(p)
          /\ p \notin Reschedule =>
               run_queue' = Tail(run_queue) /\ count' = count /\ freed' = freed
      BY Zenon, <1>3 DEF P!step
    <2> HIDE DEF p
    <2>3. /\ executing' \in Seq(Procs)
          /\ \A q : P!Occurs(q, executing')
                    = P!Occurs(q, executing) + IF p = q THEN 1 ELSE 0
      <3>1. <<p>> \o executing \in Seq(Procs)
        BY <1>1, <2>1
      <3>2. \A q : P!Occurs(q, <<p>> \o executing)
                   = P!Occurs(q, executing) + IF p = q THEN 1 ELSE 0
        BY Zenon, <1>1, <2>1, OccursPush
      <3>3. QED BY Zenon, <2>2, <3>1, <3>2
    <2>4. References(p) > 0
      BY Zenon, <1>1, <2>1, Referenced
    <2>5. CASE p \in Reschedule
      <3>1. /\ run_queue' \in Seq(Procs) /\ Distinct(run_queue')
            /\ \A u : In(run_queue', u) <=> In(run_queue, u)
        <4> DEFINE r == Tail(run_queue)
        <4>1. r \in Seq(Procs) /\ Distinct(r) /\ ~In(r, p)
          BY Zenon, <2>1
        <4> HIDE DEF r
        <4>2. /\ Append(r, p) \in Seq(Procs) /\ Distinct(Append(r, p))
              /\ \A u : In(Append(r, p), u) <=> In(r, u) \/ u = p
          BY Zenon, <2>1, <4>1, Appended
        <4>3. QED BY Zenon, <2>1, <2>2, <2>5, <4>2 DEF r
      <3>2. \A q : P!Occurs(q, run_queue') = P!Occurs(q, run_queue)
        BY Zenon, <1>1, <3>1, OccursOnce
      <3>3. P!TypeOK'
        <4>1. P!ref_get(p) /\ owners' = owners
          BY Zenon, <2>2, <2>5
        <4>2. QED BY Zenon, <1>1, <2>1, <2>3, <3>1, <4>1, CountTypes, TypeForm
      <3>4. \A q \in Procs :
              References(q)' = References(q) + IF p = q THEN 1 ELSE 0
        <4>1. ASSUME NEW q \in Procs
              PROVE  References(q)' = References(q) + IF p = q THEN 1 ELSE 0
          <5>1. /\ P!Occurs(q, run_queue) \in Nat /\ P!Occurs(q, executing) \in Nat
                /\ P!Occurs(q, run_queue') \in Nat /\ owners[q] \in Nat
            BY <1>1, <1>2, <3>1
          <5>2. /\ P!Occurs(q, executing')
                   = P!Occurs(q, executing) + IF p = q THEN 1 ELSE 0
                /\ P!Occurs(q, run_queue') = P!Occurs(q, run_queue)
            BY Zenon, <2>3, <3>2
          <5>3. owners' = owners
            BY Zenon, <2>2
          <5>4. QED BY <5>1, <5>2, <5>3 DEF References
        <4>2. QED BY Zenon, <4>1
      <3>5. QED BY Zenon, <2>1, <2>2, <2>4, <2>5, <3>3, <3>4, TakeReference
    <2>6. CASE p \notin Reschedule
      <3>1. \A q : P!Occurs(q, run_queue)
                   = P!Occurs(q, run_queue') + IF p = q THEN 1 ELSE 0
        BY Zenon, <1>1, <1>3, <2>2, <2>6, OccursPop DEF P!step, p
      <3>2. P!TypeOK'
        BY Zenon, <1>1, <2>1, <2>2, <2>3, <2>6, TypeForm
      <3>3. \A q \in Procs : References(q)' = References(q)
        <4>1. ASSUME NEW q \in Procs
              PROVE  References(q)' = References(q)
          <5>1. /\ P!Occurs(q, run_queue) \in Nat /\ P!Occurs(q, executing) \in Nat
                /\ P!Occurs(q, run_queue') \in Nat /\ owners[q] \in Nat
            <6>1. run_queue' \in Seq(Procs)
              BY Zenon, <2>1, <2>2, <2>6
            <6>2. owners[q] \in Nat
              BY <1>1
            <6>3. QED BY Zenon, <1>1, <1>2, <6>1, <6>2
          <5>2. /\ P!Occurs(q, executing')
                   = P!Occurs(q, executing) + IF p = q THEN 1 ELSE 0
                /\ P!Occurs(q, run_queue)
                   = P!Occurs(q, run_queue') + IF p = q THEN 1 ELSE 0
            BY Zenon, <2>3, <3>1
          <5>3. owners' = owners
            BY Zenon, <2>2
          <5>4. QED BY <5>1, <5>2, <5>3 DEF References
        <4>2. QED BY Zenon, <4>1
      <3>4. QED BY Zenon, <2>2, <2>6, <3>2, <3>3 DEF ProcessInv
    <2>7. QED BY <2>5, <2>6
  <1>4. ASSUME P!step_end PROVE ProcessInv'
    <2> DEFINE p == Head(executing)
    <2>1. /\ p \in Procs /\ executing' \in Seq(Procs)
          /\ \A q : P!Occurs(q, executing)
                    = P!Occurs(q, executing') + IF p = q THEN 1 ELSE 0
      BY Zenon, <1>1, <1>4, OccursPop DEF P!step_end
    <2>2. run_queue' = run_queue /\ owners' = owners /\ P!ref_put(p)
      BY Zenon, <1>4 DEF P!step_end
    <2> HIDE DEF p
    <2>3. P!TypeOK'
      BY Zenon, <1>1, <2>1, <2>2, CountTypes, TypeForm
    <2>4. \A q \in Procs :
            References(q)' = References(q) - IF p = q THEN 1 ELSE 0
      <3>1. ASSUME NEW q \in Procs
            PROVE  References(q)' = References(q) - IF p = q THEN 1 ELSE 0
        <4>1. /\ P!Occurs(q, run_queue) \in Nat /\ P!Occurs(q, executing) \in Nat
              /\ owners[q] \in Nat /\ P!Occurs(q, executing') \in Nat
          BY Zenon, <1>1, <1>2, <2>1, <2>2, ReferenceTypes
        <4>2. P!Occurs(q, executing) = P!Occurs(q, executing') + IF p = q THEN 1 ELSE 0
          BY Zenon, <2>1
        <4>3. owners' = owners /\ run_queue' = run_queue
          BY Zenon, <2>2
        <4>4. QED BY <4>1, <4>2, <4>3 DEF References
      <3>2. QED BY Zenon, <3>1
    <2>5. References(p) > 0
      BY <1>1, <1>2, <2>1 DEF References
    <2>6. QED BY Zenon, <2>1, <2>2, <2>3, <2>4, <2>5, DropReference
  <1>5. ASSUME NEW p \in Procs, P!process_add(p) PROVE ProcessInv'
    <2>1. /\ P!ref_get(p) /\ run_queue' = Append(run_queue, p)
          /\ owners' = owners /\ executing' = executing
          /\ p \in P!Reachable /\ ~In(run_queue, p)
      BY Zenon, <1>5, ProcessTerms DEF P!process_add
    <2>2. /\ run_queue' \in Seq(Procs) /\ Distinct(run_queue')
          /\ \A u : In(run_queue', u) <=> In(run_queue, u) \/ u = p
      BY Zenon, <1>1, <1>5, <2>1, Appended
    <2>3. \A q : P!Occurs(q, run_queue')
                 = P!Occurs(q, run_queue) + IF p = q THEN 1 ELSE 0
      <3>1. /\ \A q : P!Occurs(q, run_queue) = IF In(run_queue, q) THEN 1 ELSE 0
            /\ \A q : P!Occurs(q, run_queue') = IF In(run_queue', q) THEN 1 ELSE 0
        BY Zenon, <1>1, <2>2, OccursOnce
      <3>2. QED BY <2>1, <2>2, <3>1
    <2>4. P!TypeOK'
      BY Zenon, <1>1, <2>1, <2>2, CountTypes, TypeForm
    <2>5. \A q \in Procs :
            References(q)' = References(q) + IF p = q THEN 1 ELSE 0
      <3>1. ASSUME NEW q \in Procs
            PROVE  References(q)' = References(q) + IF p = q THEN 1 ELSE 0
        <4>1. /\ P!Occurs(q, run_queue) \in Nat /\ P!Occurs(q, executing) \in Nat
              /\ owners[q] \in Nat /\ P!Occurs(q, run_queue') \in Nat
          BY Zenon, <1>1, <1>2, <2>1, <2>2, <2>3, ReferenceTypes
        <4>2. P!Occurs(q, run_queue') = P!Occurs(q, run_queue) + IF p = q THEN 1 ELSE 0
          BY Zenon, <2>3
        <4>3. owners' = owners /\ executing' = executing
          BY Zenon, <2>1
        <4>4. QED BY <4>1, <4>2, <4>3 DEF References
      <3>2. QED BY Zenon, <3>1
    <2>6. References(p) > 0
      BY Zenon, <1>1, <1>5, <2>1, Referenced
    <2>7. QED BY Zenon, <1>5, <2>1, <2>4, <2>5, <2>6, TakeReference
  <1>6. ASSUME NEW p \in Procs, P!process_del(p) PROVE ProcessInv'
    <2>1. PICK i \in DOMAIN run_queue :
            run_queue[i] = p /\ run_queue' = list_del(run_queue, i)
      BY Zenon, <1>6, ProcessTerms DEF P!process_del
    <2>2. /\ P!ref_put(p) /\ owners' = owners /\ executing' = executing
          /\ p \in P!Reachable
      BY Zenon, <1>6 DEF P!process_del
    <2>3. /\ run_queue' \in Seq(Procs) /\ Distinct(run_queue')
          /\ \A u : In(run_queue', u) <=> In(run_queue, u) /\ u # p
      BY Zenon, <1>1, <2>1, Delisted
    <2>4. In(run_queue, p)
      BY Zenon, <2>1 DEF In
    <2>5. \A q : P!Occurs(q, run_queue')
                 = P!Occurs(q, run_queue) - IF p = q THEN 1 ELSE 0
      <3>1. /\ \A q : P!Occurs(q, run_queue) = IF In(run_queue, q) THEN 1 ELSE 0
            /\ \A q : P!Occurs(q, run_queue') = IF In(run_queue', q) THEN 1 ELSE 0
        BY Zenon, <1>1, <2>3, OccursOnce
      <3>2. QED BY <2>3, <2>4, <3>1
    <2>6. P!TypeOK'
      BY Zenon, <1>1, <2>2, <2>3, CountTypes, TypeForm
    <2>7. \A q \in Procs :
            References(q)' = References(q) - IF p = q THEN 1 ELSE 0
      <3>1. ASSUME NEW q \in Procs
            PROVE  References(q)' = References(q) - IF p = q THEN 1 ELSE 0
        <4>1. /\ P!Occurs(q, run_queue) \in Nat /\ P!Occurs(q, executing) \in Nat
              /\ P!Occurs(q, run_queue') \in Nat /\ owners[q] \in Nat
          BY <1>1, <1>2, <2>3
        <4>2. P!Occurs(q, run_queue') = P!Occurs(q, run_queue) - IF p = q THEN 1 ELSE 0
          BY Zenon, <2>5
        <4>3. owners' = owners /\ executing' = executing
          BY Zenon, <2>2
        <4>4. QED BY <4>1, <4>2, <4>3 DEF References
      <3>2. QED BY Zenon, <3>1
    <2>8. References(p) > 0
      BY Zenon, <1>1, <1>6, <2>2, Referenced
    <2>9. QED BY Zenon, <1>6, <2>2, <2>6, <2>7, <2>8, DropReference
  <1>7. ASSUME NEW p \in Procs, P!Take(p) PROVE ProcessInv'
    <2>1. /\ owners' = [owners EXCEPT ![p] = @ + 1] /\ owners[p] < MaxOwners
          /\ P!ref_get(p) /\ run_queue' = run_queue /\ executing' = executing
          /\ p \in P!Reachable
      BY Zenon, <1>7 DEF P!Take
    <2>2. owners' \in [Procs -> 0..MaxOwners]
      BY <1>1, <2>1 DEF P!ProcessAssumption
    <2>3. P!TypeOK'
      BY Zenon, <1>1, <2>1, <2>2, CountTypes, TypeForm
    <2>4. \A q \in Procs :
            References(q)' = References(q) + IF p = q THEN 1 ELSE 0
      <3>1. ASSUME NEW q \in Procs
            PROVE  References(q)' = References(q) + IF p = q THEN 1 ELSE 0
        <4>1. /\ P!Occurs(q, run_queue) \in Nat /\ P!Occurs(q, executing) \in Nat
              /\ owners[q] \in Nat /\ P!Occurs(q, run_queue') \in Nat
          BY Zenon, <1>1, <1>2, <2>1, ReferenceTypes
        <4>2. owners'[q] = owners[q] + IF p = q THEN 1 ELSE 0
          BY <1>1, <2>1
        <4>3. run_queue' = run_queue /\ executing' = executing
          BY Zenon, <2>1
        <4>4. QED BY <4>1, <4>2, <4>3 DEF References
      <3>2. QED BY Zenon, <3>1
    <2>5. References(p) > 0
      BY Zenon, <1>1, <1>7, <2>1, Referenced
    <2>6. QED BY Zenon, <1>7, <2>1, <2>3, <2>4, <2>5, TakeReference
  <1>8. ASSUME NEW p \in Procs, P!Drop(p) PROVE ProcessInv'
    <2>1. /\ owners' = [owners EXCEPT ![p] = @ - 1] /\ owners[p] > 0
          /\ P!ref_put(p) /\ run_queue' = run_queue /\ executing' = executing
      BY Zenon, <1>8 DEF P!Drop
    <2>2. owners' \in [Procs -> 0..MaxOwners]
      BY <1>1, <2>1 DEF P!ProcessAssumption
    <2>3. P!TypeOK'
      BY Zenon, <1>1, <2>1, <2>2, CountTypes, TypeForm
    <2>4. \A q \in Procs :
            References(q)' = References(q) - IF p = q THEN 1 ELSE 0
      <3>1. ASSUME NEW q \in Procs
            PROVE  References(q)' = References(q) - IF p = q THEN 1 ELSE 0
        <4>1. /\ P!Occurs(q, run_queue) \in Nat /\ P!Occurs(q, executing) \in Nat
              /\ owners[q] \in Nat /\ P!Occurs(q, run_queue') \in Nat
          BY Zenon, <1>1, <1>2, <2>1, ReferenceTypes
        <4>2. owners'[q] = owners[q] - IF p = q THEN 1 ELSE 0
          BY <1>1, <2>1
        <4>3. run_queue' = run_queue /\ executing' = executing
          BY Zenon, <2>1
        <4>4. QED BY <4>1, <4>2, <4>3 DEF References
      <3>2. QED BY Zenon, <3>1
    <2>5. References(p) > 0
      BY <1>1, <1>2, <2>1 DEF References
    <2>6. QED BY Zenon, <1>8, <2>1, <2>3, <2>4, <2>5, DropReference
  <1>9. CASE UNCHANGED P!vars
    BY <1>9 DEF P!vars, ProcessInv, References, P!TypeOK
  <1>10. QED
    BY Zenon, <1>3, <1>4, <1>5, <1>6, <1>7, <1>8, <1>9 DEF P!Next

(* process_add, process_del, step and whoever holds a reference: the count *)
(* of an object is the number of its references less one, and it is freed  *)
(* exactly when the last one goes, for any processes and any nesting of    *)
(* step().                                                                 *)
THEOREM ReferencesCounted ==
    ASSUME P!ProcessAssumption PROVE P!Spec => []ProcessReferences
  <1>1. P!Init => ProcessInv
    BY Zenon, ProcessInit
  <1>2. ProcessInv /\ [P!Next]_P!vars => ProcessInv'
    BY Zenon, ProcessNext
  <1>3. ProcessInv => ProcessReferences
    BY Zenon, ReferencesForm DEF ProcessInv, ProcessReferences
  <1>4. QED BY <1>1, <1>2, <1>3, PTL DEF P!Spec

-----------------------------------------------------------------------------
(* The foreground job *)

(* The length of the downloader's buffer is the end of its last block *)
Longest ==
    /\ buffer.has = {} => buffer.len = 0
    /\ buffer.has # {} => buffer.len \in buffer.has
    /\ \A b \in buffer.has : b <= buffer.len

(* A job that is over has left its length to the image, for good: nothing  *)
(* is delivered to it any more; and only one that is over and whole gives  *)
(* monojob_wait a success to return.                                       *)
JobInv ==
    /\ jobs \in Nat /\ buffer.len \in Nat
    /\ buffer.has \subseteq 1..Blocks /\ Longest
    /\ pc = "start" => ~job.plugged
    /\ ~job.plugged /\ jobs > 0 => image = buffer.len
    /\ monojob_rc = "ok" => ~job.plugged /\ buffer.has = 1..Blocks

LEMMA JobInit == J!Init => JobInv
  BY DEF J!Init, J!Empty, JobInv, Longest

LEMMA JobNext ==
    ASSUME J!MonojobAssumption, JobInv, [J!Next]_J!vars PROVE JobInv'
  <1>1. CASE J!create_downloader
    BY SMTT(30), <1>1 DEF J!create_downloader, J!Empty, JobInv, Longest
  <1>2. CASE J!downloader_deliver
    <2>1. PICK b \in 1..Blocks \ buffer.has :
            buffer' = [pos |-> b, len |-> J!Max({buffer.len, b}),
                       has |-> buffer.has \cup {b}]
      BY Zenon, <1>2 DEF J!downloader_deliver
    <2>2. b \in Int /\ buffer.len \in Int
      BY DEF JobInv
    <2>3. J!Max({buffer.len, b}) = IF b > buffer.len THEN b ELSE buffer.len
      BY <2>2 DEF J!Max
    <2>4. /\ buffer'.len = (IF b > buffer.len THEN b ELSE buffer.len)
          /\ buffer'.has = buffer.has \cup {b}
      BY <2>1, <2>3
    <2>a. Longest
      BY Zenon DEF JobInv
    <2>5. Longest'
      <3> DEFINE l == buffer.len
                 o == buffer.has
                 m == buffer'.len
                 w == buffer'.has
      <3>1. /\ l \in Int /\ b \in Int /\ w = o \cup {b}
            /\ m = (IF b > l THEN b ELSE l)
        BY Zenon, <2>2, <2>4
      <3>2. \A x \in o : x \in Int
        BY DEF JobInv
      <3>3. \A x \in o : x <= l
        BY Zenon, <2>a DEF Longest
      <3>4. o = {} \/ l \in o
        BY Zenon, <2>a DEF Longest
      <3>5. o = {} => l = 0
        BY Zenon, <2>a DEF Longest
      <3>6. b >= 1
        OBVIOUS
      <3> HIDE DEF l, o, m, w
      <3>7. w # {} /\ m \in w /\ \A x \in w : x <= m
        BY SMTT(30), <3>1, <3>2, <3>3, <3>4, <3>5, <3>6
      <3> QED
        BY Zenon, <3>7 DEF Longest, m, w
    <2>6. QED
      BY <1>2, <2>2, <2>4, <2>5 DEF J!downloader_deliver, JobInv
  <1>3. CASE J!transfer_closes
    BY SMTT(30), <1>3 DEF J!transfer_closes, J!JobEnds, J!downloader_finished, JobInv, Longest
  <1>4. CASE J!other_step \/ J!no_tick
    BY <1>4 DEF J!other_step, J!no_tick, JobInv, Longest
  <1>5. CASE J!key
    BY SMTT(30), <1>5 DEF J!key, JobInv, Longest
  <1>6. CASE J!tick
    BY SMTT(30), <1>6 DEF J!tick, J!Late, JobInv, Longest
  <1>7. CASE J!monojob_close
    BY <1>7 DEF J!monojob_close, J!downloader_finished, JobInv, Longest
  <1>8. CASE UNCHANGED J!vars
    BY <1>8 DEF J!vars, JobInv, Longest
  <1>9. QED
    BY Zenon, <1>1, <1>2, <1>3, <1>4, <1>5, <1>6, <1>7, <1>8 DEF J!Next

(* monojob_wait, downloader_finished: whenever a wait is over the job is   *)
(* over, the image is as long as what was received, and it is whole if the *)
(* wait succeeded: for files of any length, any timeout and any number of  *)
(* jobs one after the other.                                               *)
THEOREM JobsLeaveNothing ==
    ASSUME J!MonojobAssumption PROVE J!Spec => []NothingLeft
  <1>1. J!Init => JobInv
    BY Zenon, JobInit
  <1>2. JobInv /\ [J!Next]_J!vars => JobInv'
    BY Zenon, JobNext
  <1>3. ASSUME JobInv PROVE NothingLeft
    <2>1. ASSUME buffer.has # {} PROVE J!Max(buffer.has) = buffer.len
      BY <1>3, <2>1 DEF JobInv, Longest, J!Max
    <2>2. QED
      BY <1>3, <2>1 DEF JobInv, Longest, NothingLeft, J!NothingLeft, J!Waited
  <1>4. QED BY <1>1, <1>2, <1>3, PTL DEF J!Spec
=============================================================================
