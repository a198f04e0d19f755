---------------------------- MODULE DeviceProofs ----------------------------
(***************************************************************************)
(* Proofs about the network device and its descriptor rings, for rings of  *)
(* every size and any number of packets: the queue of the device and the   *)
(* transmit ring agree, the card owns only what is handed to it, and       *)
(* packets keep their order in both directions.                            *)
(***************************************************************************)
EXTENDS Link, ListFacts

-----------------------------------------------------------------------------
(* Arithmetic of counters that wrap *)

(* What % is, for a dividend of either sign *)
LEMMA ModDiv ==
  ASSUME NEW N \in Nat, N > 0, NEW a \in Int
  PROVE  /\ a \div N \in Int /\ a % N \in 0..(N - 1)
         /\ a = (N * (a \div N)) + (a % N)
  OBVIOUS

LEMMA ModUnique ==
  ASSUME NEW N \in Nat, N > 0, NEW q \in Int, NEW r \in 0..(N - 1)
  PROVE  ((N * q) + r) % N = r
  OBVIOUS

LEMMA ModSmall ==
  ASSUME NEW N \in Nat, N > 0, NEW a \in 0..(N - 1)
  PROVE  a % N = a
  OBVIOUS

(* A multiple of N does not change the remainder *)
LEMMA ModShift ==
  ASSUME NEW N \in Nat, N > 0, NEW W \in Int, W % N = 0, NEW a \in Int
  PROVE  (a + W) % N = a % N
<1> DEFINE q == (a \div N) + (W \div N)
<1>1. q \in Int /\ W = N * (W \div N) /\ W \div N \in Int
  BY ModDiv
<1>2. a + W = (N * q) + (a % N) /\ a % N \in 0..(N - 1)
  BY <1>1, ModDiv
<1> QED
  BY Zenon, <1>1, <1>2, ModUnique

LEMMA ModOver ==
  ASSUME NEW N \in Nat, N > 0, NEW W \in Nat, W % N = 0, NEW a \in Int
  PROVE  (a + W) % N = a % N
<1>1. W \in Int
  OBVIOUS
<1> QED
  BY <1>1, ModShift, Zenon

LEMMA ModSelf ==
  ASSUME NEW N \in Nat, N > 0
  PROVE  N % N = 0
<1>1. ((N * 1) + 0) % N = 0
  BY ModUnique
<1> QED
  BY <1>1

(* Two numbers less than N apart have different remainders *)
LEMMA ModApart ==
  ASSUME NEW N \in Nat, N > 0, NEW a \in Int, NEW b \in Int,
         a < b, b < a + N
  PROVE  a % N # b % N
<1> SUFFICES ASSUME a % N = b % N PROVE FALSE
  OBVIOUS
<1> DEFINE x == a \div N
           y == b \div N
<1>1. /\ x \in Int /\ y \in Int
      /\ a = (N * x) + (a % N) /\ b = (N * y) + (b % N)
      /\ a % N \in Int
  BY ModDiv
<1>2. N * x < N * y /\ N * y < (N * x) + N
  BY <1>1
<1> HIDE DEF x, y
<1>3. x < y
  BY <1>1, <1>2
<1>4. y < x + 1
  BY <1>1, <1>2
<1> QED
  BY <1>1, <1>3, <1>4

-----------------------------------------------------------------------------
Slot(c, j, N) == (c + j) % N

(* A ring of N descriptors under counters that wrap at W, as the driver    *)
(* and the card see it: n descriptors are in use from c on, the last n - k *)
(* of them belong to the card, and O is the set of those                   *)
Ring(p, c, a, O, n, k, N, W) ==
    /\ p \in 0..(W - 1) /\ c \in 0..(W - 1)
    /\ n \in 0..N /\ k \in 0..n
    /\ p = (c + n) % W
    /\ a = Slot(c, k, N)
    /\ O = {Slot(c, j, N) : j \in k..(n - 1)}

LEMMA Wrapped ==
  ASSUME NEW W \in Nat, W > 0, NEW c \in 0..(W - 1), NEW n \in 0..W
  PROVE  /\ c + n < W => (c + n) % W = c + n
         /\ c + n >= W => (c + n) % W = (c + n) - W
<1> DEFINE x == c + n
<1>1. W > 0 /\ x \in 0..((2 * W) - 1)
  OBVIOUS
<1> HIDE DEF x
<1>2. CASE x < W
  BY <1>1, <1>2, ModSmall
<1>3. CASE x >= W
  <2>1. ((x - W) + W) % W = (x - W) % W
    BY <1>1, <1>3, ModSelf, ModOver
  <2>2. (x - W) % W = x - W
    BY <1>1, <1>3, ModSmall
  <2> QED
    BY <2>1, <2>2, <1>3
<1> QED
  BY <1>1, <1>2, <1>3 DEF x

LEMMA SlotIn ==
  ASSUME NEW N \in Nat, N > 0, NEW c \in Int, NEW j \in Int
  PROVE  Slot(c, j, N) \in 0..(N - 1)
  BY ModDiv DEF Slot

(* Advancing a counter moves every slot by one *)
LEMMA SlotNext ==
  ASSUME NEW N \in Nat, N > 0, NEW W \in Nat, W > N, W % N = 0,
         NEW c \in 0..(W - 1), NEW j \in Int
  PROVE  Slot((c + 1) % W, j, N) = Slot(c, j + 1, N)
<1>1. CASE c + 1 < W
  <2>1. (c + 1) % W = c + 1
    BY <1>1, Wrapped
  <2>2. (c + 1) + j = c + (j + 1)
    OBVIOUS
  <2> QED
    BY <2>1, <2>2 DEF Slot
<1>2. CASE c + 1 = W
  <2>1. (c + 1) % W = 0
    BY <1>2, Wrapped
  <2>2. (j + W) % N = j % N
    BY Zenon, ModOver
  <2>3. c + (j + 1) = j + W /\ 0 + j = j
    BY <1>2
  <2> QED
    BY <2>1, <2>2, <2>3 DEF Slot
<1> QED
  BY <1>1, <1>2

(* The slot of a counter that is n ahead *)
LEMMA SlotAhead ==
  ASSUME NEW N \in Nat, N > 0, NEW W \in Nat, W > N, W % N = 0,
         NEW c \in 0..(W - 1), NEW n \in 0..N
  PROVE  /\ (c + n) % W \in 0..(W - 1)
         /\ ((c + n) % W) % N = Slot(c, n, N)
         /\ (((c + n) % W) - c) % W = n
<1>1. CASE c + n < W
  <2>1. (c + n) % W = c + n
    BY <1>1, Wrapped
  <2>2. ((c + n) - c) % W = n
    BY ModSmall
  <2> QED
    BY <1>1, <2>1, <2>2 DEF Slot
<1>2. CASE c + n >= W
  <2> DEFINE p == (c + n) - W
  <2>1. (c + n) % W = p /\ p \in 0..(W - 1)
    BY <1>2, Wrapped
  <2>3. p + W = c + n /\ p - c = n - W /\ (n - W) + W = n
    OBVIOUS
  <2> HIDE DEF p
  <2>6. p \in Int /\ W \in Int
    BY <2>1
  <2>2. (p + W) % N = p % N
    BY <2>6, ModOver, Zenon
  <2>4. ((n - W) + W) % W = (n - W) % W
    BY ModSelf, ModOver
  <2>5. n % W = n
    BY ModSmall
  <2> QED
    BY <2>1, <2>2, <2>3, <2>4, <2>5 DEF Slot
<1> QED
  BY <1>1, <1>2

LEMMA SlotsApart ==
  ASSUME NEW N \in Nat, N > 0, NEW c \in Int,
         NEW i \in 0..(N - 1), NEW j \in 0..(N - 1),
         Slot(c, i, N) = Slot(c, j, N)
  PROVE  i = j
<1>1. ~(i < j)
  <2> SUFFICES ASSUME i < j PROVE FALSE
    OBVIOUS
  <2> QED
    BY ModApart, c + i \in Int, c + j \in Int, c + i < c + j, c + j < (c + i) + N DEF Slot
<1>2. ~(j < i)
  <2> SUFFICES ASSUME j < i PROVE FALSE
    OBVIOUS
  <2> QED
    BY ModApart, c + i \in Int, c + j \in Int, c + j < c + i, c + i < (c + j) + N DEF Slot
<1> QED
  BY <1>1, <1>2

RingConst(N, W) == N \in Nat /\ N > 0 /\ W \in Nat /\ W > N /\ W % N = 0

LEMMA RingUsed ==
  ASSUME NEW N, NEW W, RingConst(N, W), NEW p, NEW c, NEW a, NEW O, NEW n, NEW k,
         Ring(p, c, a, O, n, k, N, W)
  PROVE  /\ (p - c) % W = n
         /\ p % N = Slot(c, n, N) /\ c % N = Slot(c, 0, N)
         /\ p = c <=> n = 0
         /\ O \subseteq 0..(N - 1)
<1>0. /\ p \in 0..(W - 1) /\ c \in 0..(W - 1) /\ n \in 0..N /\ k \in 0..n
      /\ p = (c + n) % W
      /\ O = {Slot(c, j, N) : j \in k..(n - 1)}
      /\ N \in Nat /\ N > 0 /\ W \in Nat /\ W > N /\ W % N = 0
  BY DEF Ring, RingConst
<1>1. (p - c) % W = n /\ p % N = Slot(c, n, N)
  <2>1. ((c + n) % W) % N = Slot(c, n, N) /\ (((c + n) % W) - c) % W = n
    BY <1>0, SlotAhead
  <2> QED
    BY <2>1, <1>0
<1>2. c % N = Slot(c, 0, N)
  BY <1>0 DEF Slot
<1>3. p = c <=> n = 0
  BY <1>0, Wrapped
<1>4. O \subseteq 0..(N - 1)
  <2>1. \A j \in k..(n - 1) : Slot(c, j, N) \in 0..(N - 1)
    <3>1. c \in Int /\ \A j \in k..(n - 1) : j \in Int
      BY <1>0
    <3> QED
      BY <1>0, <3>1, SlotIn, Zenon
  <2> QED
    BY <2>1, <1>0
<1> QED
  BY <1>1, <1>2, <1>3, <1>4

LEMMA RingReset ==
  ASSUME NEW N, NEW W, RingConst(N, W)
  PROVE  Ring(0, 0, 0, {}, 0, 0, N, W)
<1>1. 0 % W = 0 /\ 0 % N = 0
  BY ModSmall DEF RingConst
<1>2. 0..(0 - 1) = {}
  OBVIOUS
<1> QED
  BY <1>1, <1>2 DEF Ring, RingConst, Slot

(* The driver fills the next m descriptors *)
LEMMA RingFill ==
  ASSUME NEW N, NEW W, RingConst(N, W), NEW p, NEW c, NEW a, NEW O, NEW n, NEW k,
         Ring(p, c, a, O, n, k, N, W), NEW m \in 0..(N - n)
  PROVE  /\ Ring((p + m) % W, c, a, O \cup {Slot(p, j, N) : j \in 0..(m - 1)}, n + m, k, N, W)
         /\ \A j \in 0..(m - 1) : Slot(p, j, N) = Slot(c, n + j, N)
<1>0. /\ p \in 0..(W - 1) /\ c \in 0..(W - 1) /\ n \in 0..N /\ k \in 0..n
      /\ p = (c + n) % W /\ a = Slot(c, k, N)
      /\ O = {Slot(c, j, N) : j \in k..(n - 1)}
  BY DEF Ring
<1>01. N \in Nat /\ N > 0 /\ W \in Nat /\ W > N /\ W % N = 0
  BY DEF RingConst
<1>3. /\ (p + m) % W = (c + (n + m)) % W
      /\ \A j \in 0..(m - 1) : Slot(p, j, N) = Slot(c, n + j, N)
  <2>1. CASE c + n < W
    <3>1. p = c + n
      BY <1>0, <1>01, <2>1, Wrapped
    <3>2. (p + m) % W = (c + (n + m)) % W
      BY <1>0, <1>01, <3>1
    <3>3. \A j \in 0..(m - 1) : Slot(p, j, N) = Slot(c, n + j, N)
      BY <1>0, <1>01, <3>1 DEF Slot
    <3> QED
      BY <3>2, <3>3
  <2>2. CASE c + n >= W
    <3>1. p = (c + n) - W
      BY <1>0, <1>01, <2>2, Wrapped
    <3>2. (p + m) % W = (c + (n + m)) % W
      <4>1. ((p + m) + W) % W = (p + m) % W
        BY <1>0, <1>01, ModSelf, ModOver
      <4>2. (p + m) + W = c + (n + m)
        BY <1>0, <1>01, <3>1
      <4> QED
        BY <4>1, <4>2
    <3>3. ASSUME NEW j \in 0..(m - 1) PROVE Slot(p, j, N) = Slot(c, n + j, N)
      <4> DEFINE x == p + j
      <4>3. x \in Int
        BY <1>0, <1>01
      <4> HIDE DEF x
      <4>1. (x + W) % N = x % N
        BY Zenon, <4>3, <1>01, ModOver
      <4>2. (p + j) + W = c + (n + j)
        BY <1>0, <1>01, <3>1
      <4> QED
        BY <4>1, <4>2 DEF Slot, x
    <3> QED
      BY <3>2, <3>3
  <2> QED
    BY <1>0, <1>01, <2>1, <2>2
<1>4. (c + (n + m)) % W \in 0..(W - 1)
  BY <1>0, <1>01, ModDiv
<1>5. O \cup {Slot(p, j, N) : j \in 0..(m - 1)} = {Slot(c, j, N) : j \in k..((n + m) - 1)}
  <2>1. ASSUME NEW x \in O \cup {Slot(p, j, N) : j \in 0..(m - 1)}
        PROVE  x \in {Slot(c, j, N) : j \in k..((n + m) - 1)}
    <3>1. CASE x \in O
      BY <1>0, <1>01, <3>1
    <3>2. CASE x \in {Slot(p, j, N) : j \in 0..(m - 1)}
      <4>1. PICK j \in 0..(m - 1) : x = Slot(c, n + j, N)
        BY <1>3, <3>2
      <4> QED
        BY <4>1, <1>0, <1>01
    <3> QED
      BY <2>1, <3>1, <3>2
  <2>2. ASSUME NEW x \in {Slot(c, j, N) : j \in k..((n + m) - 1)}
        PROVE  x \in O \cup {Slot(p, j, N) : j \in 0..(m - 1)}
    <3>1. PICK j \in k..((n + m) - 1) : x = Slot(c, j, N)
      BY <2>2
    <3>2. CASE j < n
      BY <1>0, <1>01, <3>1, <3>2
    <3>3. CASE j >= n
      <4>1. (j - n) \in 0..(m - 1) /\ n + (j - n) = j
        BY <1>0, <1>01, <3>3
      <4>2. Slot(p, j - n, N) = x
        BY <4>1, <1>3, <3>1
      <4> QED
        BY <4>1, <4>2
    <3> QED
      BY <1>0, <1>01, <3>1, <3>2, <3>3
  <2> QED
    BY <2>1, <2>2
<1>6. n + m \in 0..N /\ k \in 0..(n + m)
  BY <1>0, <1>01
<1> QED
  BY <1>0, <1>01, <1>3, <1>4, <1>5, <1>6 DEF Ring

(* The driver takes back the oldest descriptor, which the card is done with *)
LEMMA RingTake ==
  ASSUME NEW N, NEW W, RingConst(N, W), NEW p, NEW c, NEW a, NEW O, NEW n, NEW k,
         Ring(p, c, a, O, n, k, N, W), p # c, c % N \notin O
  PROVE  /\ n >= 1 /\ k >= 1
         /\ Ring(p, (c + 1) % W, a, O, n - 1, k - 1, N, W)
         /\ \A j \in Int : Slot((c + 1) % W, j, N) = Slot(c, j + 1, N)
<1>0. /\ p \in 0..(W - 1) /\ c \in 0..(W - 1) /\ n \in 0..N /\ k \in 0..n
      /\ p = (c + n) % W /\ a = Slot(c, k, N)
      /\ O = {Slot(c, j, N) : j \in k..(n - 1)}
  BY DEF Ring
<1>01. N \in Nat /\ N > 0 /\ W \in Nat /\ W > N /\ W % N = 0
  BY DEF RingConst
<1>1. n >= 1 /\ c % N = Slot(c, 0, N)
  <2>1. (p = c <=> n = 0) /\ c % N = Slot(c, 0, N)
    BY RingUsed
  <2> QED
    BY <1>0, <1>01, <2>1
<1>2. k >= 1
  BY <1>0, <1>01, <1>1
<1>3. \A j \in Int : Slot((c + 1) % W, j, N) = Slot(c, j + 1, N)
  BY <1>0, <1>01, SlotNext
<1> DEFINE d == (c + 1) % W
<1>4. d \in 0..(W - 1) /\ (d + (n - 1)) % W = p
  <2>1. CASE c + 1 < W
    BY <2>1, <1>0, <1>01, Wrapped
  <2>2. CASE c + 1 = W
    <3>1. d = 0 /\ p = n - 1
      BY <2>2, <1>0, <1>01, <1>1, Wrapped
    <3> QED
      BY <3>1, <1>0, <1>01, <1>1, <1>01, ModSmall
  <2> QED
    BY <2>1, <2>2, <1>0, <1>01
<1> HIDE DEF d
<1>5. a = Slot(d, k - 1, N)
  BY <1>0, <1>01, <1>3 DEF d
<1>6. O = {Slot(d, j, N) : j \in (k - 1)..((n - 1) - 1)}
  <2>1. ASSUME NEW j \in k..(n - 1)
        PROVE  /\ j - 1 \in (k - 1)..((n - 1) - 1)
               /\ Slot(c, j, N) = Slot(d, j - 1, N)
    BY <1>0, <1>01, <1>3 DEF d
  <2>2. ASSUME NEW j \in (k - 1)..((n - 1) - 1)
        PROVE  /\ j + 1 \in k..(n - 1)
               /\ Slot(d, j, N) = Slot(c, j + 1, N)
    BY <1>0, <1>01, <1>3 DEF d
  <2> HIDE DEF Slot
  <2> QED
    BY <1>0, <1>01, <2>1, <2>2
<1>7. n - 1 \in 0..N /\ k - 1 \in 0..(n - 1)
  BY <1>0, <1>01, <1>1, <1>2
<1> QED
  BY Zenon, <1>0, <1>01, <1>1, <1>2, <1>3, <1>4, <1>5, <1>6, <1>7 DEF Ring, d

(* The card is done with the next descriptor it owns *)
LEMMA RingDone ==
  ASSUME NEW N, NEW W, RingConst(N, W), NEW p, NEW c, NEW a, NEW O, NEW n, NEW k,
         Ring(p, c, a, O, n, k, N, W), a \in O
  PROVE  /\ k < n /\ a = Slot(c, k, N)
         /\ Ring(p, c, (a + 1) % N, O \ {a}, n, k + 1, N, W)
<1>0. /\ p \in 0..(W - 1) /\ c \in 0..(W - 1) /\ n \in 0..N /\ k \in 0..n
      /\ p = (c + n) % W /\ a = Slot(c, k, N)
      /\ O = {Slot(c, j, N) : j \in k..(n - 1)}
  BY DEF Ring
<1>01. N \in Nat /\ N > 0 /\ W \in Nat /\ W > N /\ W % N = 0
  BY DEF RingConst
<1>1. k < n
  BY <1>0, <1>01
<1>2. (a + 1) % N = Slot(c, k + 1, N)
  <2> DEFINE x == c + k
             q == x \div N
             y == N * q
  <2>0. x \in Int /\ a = x % N
    BY <1>0 DEF Slot
  <2> HIDE DEF x
  <2>1. q \in Int /\ x = (N * q) + a /\ a \in 0..(N - 1)
    BY <2>0, <1>01, ModDiv
  <2> HIDE DEF q
  <2>2. y \in Int
    BY <1>01, <2>1
  <2>3. y % N = 0
    <3>1. ((N * q) + 0) % N = 0 /\ (N * q) + 0 = N * q
      BY <2>1, <1>01, ModUnique
    <3> QED
      BY <3>1
  <2> HIDE DEF y
  <2>4. x = y + a /\ c + (k + 1) = (a + 1) + y
    BY <1>0, <2>1, <2>2 DEF x, y
  <2>5. ((a + 1) + y) % N = (a + 1) % N
    <3>1. a + 1 \in Int
      BY <2>1
    <3> QED
      BY <3>1, <2>2, <2>3, <1>01, ModShift, Zenon
  <2> QED
    BY <2>4, <2>5 DEF Slot
<1>3. O \ {a} = {Slot(c, j, N) : j \in (k + 1)..(n - 1)}
  <2>1. ASSUME NEW j \in (k + 1)..(n - 1) PROVE Slot(c, j, N) # a /\ j \in k..(n - 1)
    BY <1>0, <1>01, SlotsApart
  <2>2. ASSUME NEW j \in k..(n - 1), Slot(c, j, N) # a PROVE j \in (k + 1)..(n - 1)
    BY <1>0, <1>01, <2>2
  <2> QED
    BY <1>0, <1>01, <2>1, <2>2
<1>4. k + 1 \in 0..n
  BY <1>0, <1>01, <1>1
<1> QED
  BY <1>0, <1>01, <1>1, <1>2, <1>3, <1>4 DEF Ring

-----------------------------------------------------------------------------
(* The inductive invariant *)

Rising(q) == \A i, j \in DOMAIN q : i < j => q[i] < q[j]

Owned(r, N) == {i \in 0..(N - 1) : r.desc[i].own}
RingOf(r, n, k, N) == Ring(r.prod, r.cons, r.card, Owned(r, N), n, k, N, Wrap)

Device == [open : BOOLEAN, frozen : BOOLEAN, tx_queue : Seq(Nat),
           tx_deferred : Seq(Nat), rx_queue : Seq(Nat)]
TxDesc == [own : BOOLEAN, pkt : Nat]
RxDesc == [own : BOOLEAN, pkt : Nat, iobuf : BOOLEAN]
TxRings == [prod : Nat, cons : Nat, card : Nat, desc : [0..(NumTx - 1) -> TxDesc]]
RxRings == [prod : Nat, cons : Nat, card : Nat, desc : [0..(NumRx - 1) -> RxDesc]]
Fates == {"none", "held", "done", "error"}
TxState == [netdev : Device, tx : TxRings, fate : [1..MaxTx -> Fates]]

(* The packets q are in the ring r in order; those the card has not yet    *)
(* sent, from the k-th on, come after the packet w on the wire             *)
TxRing(r, q, k, w) ==
    /\ RingOf(r, Len(q), k, NumTx)
    /\ \A j \in 1..Len(q) : r.desc[Slot(r.cons, j - 1, NumTx)].pkt = q[j]
    /\ \A j \in (k + 1)..Len(q) : w < q[j]

(* The packets in the ring and then the deferred ones d are in the order   *)
(* in which they were sent, and the deferred ones come after w             *)
TxOrder(q, d, s, w) ==
    /\ Rising(q) /\ Rising(d)
    /\ \A i \in DOMAIN q : q[i] \in 1..s
    /\ \A i \in DOMAIN d : d[i] \in 1..s /\ w < d[i]
    /\ \A i \in DOMAIN q, j \in DOMAIN d : q[i] < d[j]

(* Exactly the packets of the two queues are held *)
TxHeld(f, q, d) ==
    \A p \in 1..MaxTx : f[p] = "held" <=> In(q, p) \/ In(d, p)

TxInv(T, s, w) ==
    /\ T \in TxState /\ s \in 0..MaxTx /\ w \in 0..s
    /\ \E k \in 0..NumTx : TxRing(T.tx, T.netdev.tx_queue, k, w)
    /\ TxOrder(T.netdev.tx_queue, T.netdev.tx_deferred, s, w)
    /\ TxHeld(T.fate, T.netdev.tx_queue, T.netdev.tx_deferred)
    /\ T.netdev.tx_deferred # <<>> => Len(T.netdev.tx_queue) = NumTx
    /\ ~T.netdev.open => T.netdev.tx_queue = <<>>

(* The n descriptors of the ring r that are in use have buffers; the first *)
(* k hold packets in the order of their arrival, all of them after those   *)
(* of the receive queue and the last one handed on                         *)
RxBuffers(r, n) ==
    \A i \in 0..(NumRx - 1) :
        r.desc[i].iobuf <=> \E j \in 0..(n - 1) : i = Slot(r.cons, j, NumRx)

RxPackets(r, k, q, g, l) ==
    /\ \A j \in 0..(k - 1) :
         /\ r.desc[Slot(r.cons, j, NumRx)].pkt \in (l + 1)..g
         /\ \A i \in DOMAIN q : q[i] < r.desc[Slot(r.cons, j, NumRx)].pkt
    /\ \A i, j \in 0..(k - 1) : i < j =>
         r.desc[Slot(r.cons, i, NumRx)].pkt < r.desc[Slot(r.cons, j, NumRx)].pkt

RxRing(r, n, k, q, g, l) ==
    RingOf(r, n, k, NumRx) /\ RxBuffers(r, n) /\ RxPackets(r, k, q, g, l)

RxInv(r, q, g, l) ==
    /\ r \in RxRings /\ q \in Seq(Nat) /\ g \in Nat /\ l \in 0..g
    /\ \E n, k \in 0..NumRx : RxRing(r, n, k, q, g, l)
    /\ Rising(q)
    /\ \A i \in DOMAIN q : q[i] \in (l + 1)..g

DeviceInv ==
    /\ TxInv(D!TxNow, sent, wire)
    /\ RxInv(rx, netdev.rx_queue, got, passed)

-----------------------------------------------------------------------------
(* Rising sequences *)

LEMMA RisingDistinct ==
  ASSUME NEW q \in Seq(Nat), Rising(q)
  PROVE  Distinct(q)
<1>1. Len(q) \in Nat /\ DOMAIN q = 1..Len(q) /\ \A i \in 1..Len(q) : q[i] \in Nat
  BY LenProperties, ElementOfSeq
<1> QED
  BY <1>1 DEF Rising, Distinct

LEMMA RisingAppend ==
  ASSUME NEW q \in Seq(Nat), NEW x \in Nat, Rising(q),
         \A i \in DOMAIN q : q[i] < x
  PROVE  Rising(Append(q, x))
<1> DEFINE t == Append(q, x)
<1>1. Len(q) \in Nat /\ DOMAIN q = 1..Len(q)
  BY LenProperties
<1>2. /\ DOMAIN t = 1..(Len(q) + 1)
      /\ t[Len(q) + 1] = x /\ \A i \in 1..Len(q) : t[i] = q[i]
  BY <1>1, AppendProperties
<1> HIDE DEF t
<1>3. ASSUME NEW i \in 1..(Len(q) + 1), NEW j \in 1..(Len(q) + 1), i < j
      PROVE  t[i] < t[j]
  <2>1. i \in 1..Len(q) /\ t[i] = q[i]
    BY <1>1, <1>2, <1>3
  <2>2. CASE j = Len(q) + 1
    BY <1>1, <1>2, <2>1, <2>2
  <2>3. CASE j \in 1..Len(q)
    BY Zenon, <1>1, <1>2, <1>3, <2>1, <2>3 DEF Rising
  <2> QED
    BY <1>1, <2>2, <2>3
<1> QED
  BY <1>2, <1>3 DEF Rising, t

LEMMA RisingTail ==
  ASSUME NEW q \in Seq(Nat), q # <<>>, Rising(q)
  PROVE  /\ Rising(Tail(q)) /\ Tail(q) \in Seq(Nat)
         /\ Head(q) = q[1] /\ 1 \in DOMAIN q
         /\ Len(q) \in Nat /\ Len(Tail(q)) = Len(q) - 1
         /\ \A i \in DOMAIN Tail(q) :
              i + 1 \in DOMAIN q /\ Tail(q)[i] = q[i + 1] /\ Head(q) < Tail(q)[i]
<1> DEFINE t == Tail(q)
<1>1. Len(q) \in Nat /\ DOMAIN q = 1..Len(q) /\ 1 \in DOMAIN q
  BY LenProperties, EmptySeq
<1>2. /\ t \in Seq(Nat) /\ Len(t) = Len(q) - 1 /\ DOMAIN t = 1..Len(t)
      /\ \A i \in 1..Len(t) : t[i] = q[i + 1]
  <2>1. /\ t \in Seq(Nat) /\ Len(t) = Len(q) - 1
        /\ \A i \in 1..Len(t) : t[i] = q[i + 1]
    BY HeadTailProperties
  <2>2. DOMAIN t = 1..Len(t)
    BY <2>1, LenProperties
  <2> QED
    BY <2>1, <2>2
<1>3. Head(q) = q[1]
  BY <1>1
<1> HIDE DEF t
<1>4. \A i \in DOMAIN t : i + 1 \in DOMAIN q /\ t[i] = q[i + 1] /\ 1 < i + 1 /\ i \in Int
  <2> SUFFICES ASSUME NEW i \in DOMAIN t
               PROVE  i + 1 \in DOMAIN q /\ t[i] = q[i + 1] /\ 1 < i + 1 /\ i \in Int
    OBVIOUS
  <2>1. i \in 1..Len(t)
    BY <1>2
  <2>2. i \in Int /\ 1 < i + 1 /\ i + 1 \in 1..Len(q)
    BY <1>1, <1>2, <2>1
  <2> QED
    BY <1>1, <1>2, <2>1, <2>2
<1>5. \A i \in DOMAIN t : q[1] < t[i]
  BY <1>1, <1>4 DEF Rising
<1>6. Rising(t)
  <2> SUFFICES ASSUME NEW i \in DOMAIN t, NEW j \in DOMAIN t, i < j PROVE t[i] < t[j]
    BY DEF Rising
  <2>1. i + 1 < j + 1
    BY <1>4
  <2> QED
    BY <1>4, <2>1 DEF Rising
<1> QED
  BY <1>1, <1>2, <1>3, <1>4, <1>5, <1>6 DEF t

LEMMA InAppended ==
  ASSUME NEW q \in Seq(Nat), NEW x \in Nat
  PROVE  /\ Append(q, x) \in Seq(Nat) /\ Append(q, x) # <<>>
         /\ Len(q) \in Nat /\ Len(Append(q, x)) = Len(q) + 1
         /\ DOMAIN q = 1..Len(q) /\ DOMAIN Append(q, x) = 1..(Len(q) + 1)
         /\ \A i \in 1..Len(q) : Append(q, x)[i] = q[i]
         /\ Append(q, x)[Len(q) + 1] = x
         /\ \A u : In(Append(q, x), u) <=> In(q, u) \/ u = x
<1> DEFINE t == Append(q, x)
<1>1. /\ Len(q) \in Nat /\ DOMAIN q = 1..Len(q)
      /\ t \in Seq(Nat) /\ t # <<>> /\ Len(t) = Len(q) + 1
      /\ DOMAIN t = 1..(Len(q) + 1)
      /\ t[Len(q) + 1] = x /\ \A i \in 1..Len(q) : t[i] = q[i]
  <2>1. Len(q) \in Nat /\ DOMAIN q = 1..Len(q)
    BY LenProperties
  <2>2. /\ t \in Seq(Nat) /\ t # <<>> /\ Len(t) = Len(q) + 1
        /\ t[Len(q) + 1] = x /\ \A i \in 1..Len(q) : t[i] = q[i]
    BY AppendProperties
  <2>3. DOMAIN t = 1..Len(t)
    BY <2>2, LenProperties
  <2> QED
    BY <2>1, <2>2, <2>3
<1> HIDE DEF t
<1>2. \A i : i \in DOMAIN t <=> i \in DOMAIN q \/ i = Len(q) + 1
  BY <1>1
<1>3. \A u : In(t, u) <=> In(q, u) \/ u = x
  BY <1>1, <1>2, Zenon DEF In
<1> QED
  BY <1>1, <1>3 DEF t

(* Taking off the packet that was just put at the end *)
LEMMA LastUnlisted ==
  ASSUME NEW q \in Seq(Nat), NEW x \in Nat, ~In(q, x)
  PROVE  D!Unlisted(Append(q, x), x) = q
<1> DEFINE t == Append(q, x)
           e == CHOOSE i \in DOMAIN t : t[i] = x
<1>1. /\ Len(q) \in Nat /\ DOMAIN q = 1..Len(q)
      /\ t \in Seq(Nat) /\ Len(t) = Len(q) + 1
      /\ DOMAIN t = 1..(Len(q) + 1)
      /\ t[Len(q) + 1] = x /\ \A i \in 1..Len(q) : t[i] = q[i]
  BY InAppended
<1> HIDE DEF t
<1>2. e = Len(q) + 1
  <2>1. \A i \in 1..Len(q) : q[i] # x
    BY <1>1, Zenon DEF In
  <2>2. Len(q) + 1 \in DOMAIN t
    BY <1>1
  <2>3. e \in DOMAIN t /\ t[e] = x
    BY <2>2, <1>1, Zenon
  <2> HIDE DEF e
  <2> QED
    BY SMTT(30), <1>1, <2>1, <2>3
<1> HIDE DEF e
<1>3. /\ list_del(t, e) \in Seq(Nat)
      /\ DOMAIN list_del(t, e) = 1..Len(q)
      /\ \A j \in 1..Len(q) : list_del(t, e)[j] = q[j]
  <2>1. e \in DOMAIN t
    BY <1>1, <1>2
  <2>2. /\ list_del(t, e) \in Seq(Nat)
        /\ DOMAIN list_del(t, e) = 1..(Len(t) - 1)
        /\ \A j \in 1..(Len(t) - 1) :
             list_del(t, e)[j] = IF j < e THEN t[j] ELSE t[j + 1]
    BY Zenon, <1>1, <2>1, Removed
  <2> QED
    BY <1>1, <1>2, <2>2
<1>4. Len(list_del(t, e)) = Len(q)
  BY <1>1, <1>3, LenProperties
<1>5. list_del(t, e) = q
  BY Zenon, <1>3, <1>4, SeqEqual
<1> QED
  BY <1>5, Zenon DEF D!Unlisted, D!list_del, list_del, t, e

-----------------------------------------------------------------------------
(* What netdev_tx does with a packet p: from T it makes R *)

TxFailed(T, R, p) ==
    /\ R.tx = T.tx
    /\ R.netdev.tx_queue = T.netdev.tx_queue /\ R.netdev.tx_deferred = <<>>
    /\ \A x \in 1..MaxTx : R.fate[x] =
         IF x = p \/ In(T.netdev.tx_deferred, x) THEN "error" ELSE T.fate[x]

TxWaits(T, R, p) ==
    /\ Len(T.netdev.tx_queue) >= NumTx /\ T.netdev.open
    /\ R.tx = T.tx /\ R.fate = T.fate
    /\ R.netdev.tx_queue = T.netdev.tx_queue
    /\ R.netdev.tx_deferred = Append(T.netdev.tx_deferred, p)

TxPushed(T, R, p) ==
    /\ Len(T.netdev.tx_queue) < NumTx /\ T.netdev.open
    /\ R.tx.prod = (T.tx.prod + 1) % Wrap
    /\ R.tx.cons = T.tx.cons /\ R.tx.card = T.tx.card
    /\ R.tx.desc = [T.tx.desc EXCEPT ![T.tx.prod % NumTx] = [own |-> TRUE, pkt |-> p]]
    /\ R.fate = T.fate
    /\ R.netdev.tx_queue = Append(T.netdev.tx_queue, p)
    /\ R.netdev.tx_deferred = T.netdev.tx_deferred

LEMMA DeviceConst ==
  ASSUME D!NetDeviceAssumption
  PROVE  /\ RingConst(NumTx, Wrap) /\ RingConst(NumRx, Wrap)
         /\ NumTx \in Nat /\ NumTx > 0 /\ NumRx \in Nat /\ NumRx > 0
         /\ Wrap \in Nat /\ Wrap > NumTx /\ Wrap > NumRx
         /\ MaxTx \in Nat /\ MaxRx \in Nat
  BY DEF D!NetDeviceAssumption, RingConst

LEMMA InRange ==
  ASSUME NEW q, NEW x
  PROVE  x \in D!Range(q) <=> In(q, x)
  BY Zenon DEF D!Range, In

LEMMA NetTx ==
  ASSUME D!NetDeviceAssumption, NEW T \in TxState, NEW p \in 1..MaxTx,
         NEW mapped \in BOOLEAN, NEW R, R = D!netdev_tx(T, p, mapped),
         ~In(T.netdev.tx_queue, p), D!Used(T.tx) = Len(T.netdev.tx_queue)
  PROVE  /\ R \in TxState
         /\ R.netdev.open = T.netdev.open
         /\ R.netdev.rx_queue = T.netdev.rx_queue
         /\ TxFailed(T, R, p) \/ TxWaits(T, R, p) \/ TxPushed(T, R, p)
<1> DEFINE q == T.netdev.tx_queue
           d == T.netdev.tx_deferred
           Q == [T EXCEPT !.netdev.tx_queue = Append(@, p)]
<1>0. p \in Nat /\ q \in Seq(Nat) /\ d \in Seq(Nat)
  BY DEF TxState, Device
<1>1. Append(q, p) \in Seq(Nat) /\ Append(d, p) \in Seq(Nat)
  BY <1>0, InAppended
<1>2. D!Unlisted(Append(q, p), p) = q
  BY <1>0, LastUnlisted
<1>3. /\ Q \in TxState /\ Q.tx = T.tx /\ Q.fate = T.fate
      /\ Q.netdev.open = T.netdev.open /\ Q.netdev.rx_queue = T.netdev.rx_queue
      /\ Q.netdev.tx_queue = Append(q, p) /\ Q.netdev.tx_deferred = d
  BY Zenon, <1>0, <1>1 DEF TxState, Device
<1> HIDE DEF Q
<1>4. ASSUME NEW E, E = D!netdev_tx_complete_err(Q, p)
      PROVE  /\ E \in TxState /\ TxFailed(T, E, p)
             /\ E.netdev.open = T.netdev.open /\ E.netdev.rx_queue = T.netdev.rx_queue
  <2> DEFINE S == {p} \cup D!Range(d)
             f == [x \in 1..MaxTx |-> IF x \in S THEN "error" ELSE Q.fate[x]]
             G == [Q EXCEPT !.fate = f]
  <2>1. /\ Q.fate \in [1..MaxTx -> Fates] /\ DOMAIN Q.fate = 1..MaxTx
        /\ f \in [1..MaxTx -> Fates]
    BY Zenon, <1>3 DEF TxState, Fates
  <2>2. \A x \in 1..MaxTx : f[x] = IF x = p \/ In(d, x) THEN "error" ELSE T.fate[x]
    BY <1>3, InRange, Zenon
  <2>3. D!Discard(Q, {p} \cup D!Range(Q.netdev.tx_deferred), "error") = G
    BY <1>3, <2>1 DEF D!Discard
  <2> HIDE DEF f
  <2>4. /\ G \in TxState /\ G.netdev = Q.netdev /\ G.tx = Q.tx /\ G.fate = f
    BY <1>3, <2>1 DEF TxState
  <2> HIDE DEF G
  <2>5. E = [G EXCEPT !.netdev.tx_queue = D!Unlisted(@, p), !.netdev.tx_deferred = <<>>]
    BY Zenon, <1>4, <2>3 DEF D!netdev_tx_complete_err
  <2>6. D!Unlisted(G.netdev.tx_queue, p) = q
    BY Zenon, <1>2, <1>3, <2>4
  <2>7. /\ E \in TxState /\ E.tx = G.tx /\ E.fate = G.fate
        /\ E.netdev.open = G.netdev.open /\ E.netdev.rx_queue = G.netdev.rx_queue
        /\ E.netdev.tx_queue = q /\ E.netdev.tx_deferred = <<>>
    <3> DEFINE N == [G.netdev EXCEPT !.tx_queue = D!Unlisted(@, p), !.tx_deferred = <<>>]
    <3>1. /\ N \in Device /\ N.open = G.netdev.open /\ N.rx_queue = G.netdev.rx_queue
          /\ N.tx_queue = q /\ N.tx_deferred = <<>>
      <4>1. G.netdev \in Device /\ <<>> \in Seq(Nat)
        BY <2>4 DEF TxState
      <4>2. N = [G.netdev EXCEPT !.tx_queue = q, !.tx_deferred = <<>>]
        BY <2>6
      <4> HIDE DEF N
      <4> QED
        BY Zenon, <1>0, <4>1, <4>2 DEF Device
    <3>2. E = [G EXCEPT !.netdev = N]
      BY Zenon, <2>4, <2>5 DEF TxState
    <3> HIDE DEF N
    <3>3. E \in TxState /\ E.tx = G.tx /\ E.fate = G.fate /\ E.netdev = N
      BY <2>4, <3>1, <3>2 DEF TxState
    <3> QED
      BY <3>1, <3>3
  <2> QED
    BY <1>3, <2>2, <2>4, <2>7 DEF TxFailed
<1>5. CASE ~T.netdev.open
  BY <1>4, <1>5 DEF D!netdev_tx, Q
<1>6. CASE T.netdev.open
  <2>1. R = D!realtek_transmit(Q, p, mapped)
    BY <1>6 DEF D!netdev_tx, Q
  <2>2. D!Used(Q.tx) = Len(q)
    BY <1>3
  <2>3. CASE Len(q) >= NumTx
    <3>1. R = D!netdev_tx_defer(Q, p)
      BY <2>1, <2>2, <2>3 DEF D!realtek_transmit
    <3>2. R = [Q EXCEPT !.netdev.tx_queue = D!Unlisted(@, p),
                        !.netdev.tx_deferred = Append(@, p)]
      BY <3>1 DEF D!netdev_tx_defer
    <3>3. D!Unlisted(Q.netdev.tx_queue, p) = q
      BY <1>2, <1>3
    <3>4. /\ R \in TxState /\ R.tx = Q.tx /\ R.fate = Q.fate
          /\ R.netdev.open = Q.netdev.open /\ R.netdev.rx_queue = Q.netdev.rx_queue
          /\ R.netdev.tx_queue = q /\ R.netdev.tx_deferred = Append(d, p)
      <4> DEFINE N == [Q.netdev EXCEPT !.tx_queue = D!Unlisted(@, p),
                                      !.tx_deferred = Append(@, p)]
      <4>1. /\ N \in Device /\ N.open = Q.netdev.open /\ N.rx_queue = Q.netdev.rx_queue
            /\ N.tx_queue = q /\ N.tx_deferred = Append(d, p)
        BY Zenon, <1>0, <1>1, <1>3, <3>3 DEF TxState, Device
      <4>2. R = [Q EXCEPT !.netdev = N]
        BY Zenon, <1>3, <3>2 DEF TxState
      <4> HIDE DEF N
      <4>3. R \in TxState /\ R.tx = Q.tx /\ R.fate = Q.fate /\ R.netdev = N
        BY <1>3, <4>1, <4>2 DEF TxState
      <4> QED
        BY <4>1, <4>3
    <3> QED
      BY Zenon, <1>3, <1>6, <2>3, <3>4 DEF TxWaits
  <2>4. CASE Len(q) < NumTx /\ ~mapped
    <3>1. R = D!netdev_tx_complete_err(Q, p)
      BY <1>0, <2>1, <2>2, <2>4, DeviceConst, LenProperties DEF D!realtek_transmit
    <3> QED
      BY <1>4, <3>1
  <2>5. CASE Len(q) < NumTx /\ mapped
    <3> DEFINE i == T.tx.prod % NumTx
               e == [own |-> TRUE, pkt |-> p]
    <3>1. R = [Q EXCEPT !.tx.prod = D!Inc(@), !.tx.desc[i] = e]
      BY <1>0, <1>3, <2>1, <2>2, <2>5, DeviceConst, LenProperties DEF D!realtek_transmit
    <3>2. T.tx.prod \in Nat /\ i \in 0..(NumTx - 1)
      BY DeviceConst, ModDiv DEF TxState, TxRings
    <3>3. (T.tx.prod + 1) % Wrap \in Nat /\ D!Inc(T.tx.prod) = (T.tx.prod + 1) % Wrap
      BY <3>2, DeviceConst, ModDiv DEF D!Inc
    <3>4. e \in TxDesc
      BY <1>0 DEF TxDesc
    <3> HIDE DEF i, e
    <3>5. /\ R \in TxState /\ R.fate = Q.fate /\ R.netdev = Q.netdev
          /\ R.tx.prod = D!Inc(Q.tx.prod) /\ R.tx.cons = Q.tx.cons
          /\ R.tx.card = Q.tx.card /\ R.tx.desc = [Q.tx.desc EXCEPT ![i] = e]
      <4> DEFINE r == [Q.tx EXCEPT !.prod = D!Inc(@), !.desc[i] = e]
      <4>1. /\ r \in TxRings /\ r.prod = D!Inc(Q.tx.prod) /\ r.cons = Q.tx.cons
            /\ r.card = Q.tx.card /\ r.desc = [Q.tx.desc EXCEPT ![i] = e]
        BY Zenon, <1>3, <3>2, <3>3, <3>4 DEF TxState, TxRings
      <4>2. R = [Q EXCEPT !.tx = r]
        BY Zenon, <1>3, <3>1 DEF TxState
      <4> HIDE DEF r
      <4>3. R \in TxState /\ R.fate = Q.fate /\ R.netdev = Q.netdev /\ R.tx = r
        BY <1>3, <4>1, <4>2 DEF TxState
      <4> QED
        BY <4>1, <4>3
    <3> QED
      BY ZenonT(40), <1>3, <1>6, <2>5, <3>3, <3>5 DEF TxPushed, i, e
  <2> QED
    BY <1>0, <2>3, <2>4, <2>5, DeviceConst, LenProperties
<1> QED
  BY <1>5, <1>6 DEF TxState, Device

-----------------------------------------------------------------------------
(* netdev_tx keeps the invariant, given a packet p that comes after those  *)
(* of the queue, and either after the deferred ones (a new packet) or      *)
(* before them, with room in the ring (the first deferred packet, when a   *)
(* completion has made room)                                               *)

TxReady(T, p, s, w) ==
    /\ T \in TxState /\ s \in 0..MaxTx /\ w \in 0..s /\ p \in 1..s /\ w < p
    /\ \E k \in 0..NumTx : TxRing(T.tx, T.netdev.tx_queue, k, w)
    /\ TxOrder(T.netdev.tx_queue, T.netdev.tx_deferred, s, w)
    /\ \A i \in DOMAIN T.netdev.tx_queue : T.netdev.tx_queue[i] < p
    /\ \A x \in 1..MaxTx : T.fate[x] = "held" <=>
         In(T.netdev.tx_queue, x) \/ In(T.netdev.tx_deferred, x) \/ x = p
    /\ ~T.netdev.open => T.netdev.tx_queue = <<>>
    /\ \/ /\ \A i \in DOMAIN T.netdev.tx_deferred : T.netdev.tx_deferred[i] < p
          /\ T.netdev.tx_deferred # <<>> => Len(T.netdev.tx_queue) = NumTx
       \/ /\ \A i \in DOMAIN T.netdev.tx_deferred : p < T.netdev.tx_deferred[i]
          /\ Len(T.netdev.tx_queue) + 1 = NumTx

(* The packets of the queue fill the ring as far as it is used *)
LEMMA RingLength ==
  ASSUME D!NetDeviceAssumption, NEW r, NEW q, NEW k, NEW w, TxRing(r, q, k, w)
  PROVE  D!Used(r) = Len(q)
<1>1. (r.prod - r.cons) % Wrap = Len(q)
  BY DeviceConst, RingUsed DEF TxRing, RingOf
<1> QED
  BY <1>1 DEF D!Used

(* Filling the next descriptor of the ring *)
LEMMA PushRing ==
  ASSUME D!NetDeviceAssumption, NEW r \in TxRings, NEW q \in Seq(Nat), NEW k, NEW w \in Nat,
         TxRing(r, q, k, w), Len(q) < NumTx, NEW p \in Nat, w < p,
         NEW t \in TxRings, t.prod = (r.prod + 1) % Wrap, t.cons = r.cons, t.card = r.card,
         t.desc = [r.desc EXCEPT ![r.prod % NumTx] = [own |-> TRUE, pkt |-> p]]
  PROVE  TxRing(t, Append(q, p), k, w)
<1> DEFINE n == Len(q)
           c == r.cons
           O == Owned(r, NumTx)
           i == r.prod % NumTx
           a == Append(q, p)
<1>1. /\ NumTx \in Nat /\ NumTx > 0 /\ Wrap \in Nat /\ Wrap > NumTx
      /\ RingConst(NumTx, Wrap)
  BY DeviceConst
<1>2. /\ a \in Seq(Nat) /\ n \in Nat /\ Len(a) = n + 1
      /\ \A j \in 1..n : a[j] = q[j]
      /\ a[n + 1] = p
  BY InAppended
<1>3. Ring(r.prod, c, r.card, O, n, k, NumTx, Wrap)
  BY DEF TxRing, RingOf
<1>4. i = Slot(c, n, NumTx) /\ c \in Int /\ k \in 0..n /\ r.prod \in Nat
  <2>1. i = Slot(c, n, NumTx)
    BY <1>1, <1>3, RingUsed
  <2> QED
    BY <1>1, <1>3, <2>1 DEF Ring
<1>5. i \in 0..(NumTx - 1)
  <2>1. r.prod \in Int
    BY <1>4
  <2> QED
    BY Zenon, <1>1, <2>1, ModDiv
<1>51. /\ t.desc[i] = [own |-> TRUE, pkt |-> p]
       /\ \A x \in 0..(NumTx - 1) : x # i => t.desc[x] = r.desc[x]
  BY Zenon, <1>5 DEF TxRings
<1>52. \A x \in 0..(NumTx - 1) : t.desc[x].own <=> r.desc[x].own \/ x = i
  BY <1>51
<1>6. Owned(t, NumTx) = O \cup {i}
  BY <1>5, <1>52 DEF Owned
<1>61. n < NumTx
  OBVIOUS
<1> HIDE DEF a, O, i, c, n
<1>7. Ring((r.prod + 1) % Wrap, c, r.card, O \cup {i}, n + 1, k, NumTx, Wrap)
  <2>1. 1 \in 0..(NumTx - n)
    BY <1>1, <1>2, <1>61
  <2>2. Ring((r.prod + 1) % Wrap, c, r.card,
             O \cup {Slot(r.prod, j, NumTx) : j \in 0..(1 - 1)}, n + 1, k, NumTx, Wrap)
    BY <1>1, <1>3, <2>1, RingFill
  <2>3. {Slot(r.prod, j, NumTx) : j \in 0..(1 - 1)} = {i}
    <3>1. 0..(1 - 1) = {0} /\ r.prod + 0 = r.prod
      BY <1>4
    <3> QED
      BY <3>1, Zenon DEF Slot, i
  <2> QED
    BY Zenon, <2>2, <2>3
<1>8. ASSUME NEW j \in 1..(n + 1)
      PROVE  t.desc[Slot(c, j - 1, NumTx)].pkt = a[j]
  <2>1. CASE j = n + 1
    <3>1. j - 1 = n
      BY <1>2, <2>1
    <3> QED
      BY <1>2, <1>4, <1>51, <2>1, <3>1
  <2>2. CASE j \in 1..n
    <3>1. j - 1 \in 0..(NumTx - 1) /\ n \in 0..(NumTx - 1) /\ j - 1 # n /\ j - 1 \in Int
      BY <1>1, <1>2, <1>61, <2>2
    <3>2. Slot(c, j - 1, NumTx) # i
      BY Zenon, <1>1, <1>4, <3>1, SlotsApart
    <3>3. Slot(c, j - 1, NumTx) \in 0..(NumTx - 1)
      BY Zenon, <1>1, <1>4, <3>1, SlotIn
    <3>4. r.desc[Slot(c, j - 1, NumTx)].pkt = q[j]
      BY <2>2 DEF TxRing, c, n
    <3> QED
      BY <1>2, <1>51, <2>2, <3>2, <3>3, <3>4
  <2> QED
    BY <1>2, <2>1, <2>2
<1>9. ASSUME NEW j \in (k + 1)..(n + 1) PROVE w < a[j]
  <2>1. CASE j = n + 1
    BY <1>2, <2>1
  <2>2. CASE j \in (k + 1)..n
    <3>1. w < q[j]
      BY <2>2 DEF TxRing, n
    <3>2. j \in 1..n
      BY <1>2, <1>4, <2>2
    <3> QED
      BY <1>2, <3>1, <3>2
  <2> QED
    BY <1>2, <1>4, <2>1, <2>2
<1> QED
  BY Zenon, <1>2, <1>6, <1>7, <1>8, <1>9 DEF TxRing, RingOf, a, c, n

LEMMA NetTxKeeps ==
  ASSUME D!NetDeviceAssumption, NEW T, NEW p, NEW s, NEW w, TxReady(T, p, s, w),
         NEW mapped \in BOOLEAN, NEW R, R = D!netdev_tx(T, p, mapped)
  PROVE  TxInv(R, s, w) /\ R.netdev.rx_queue = T.netdev.rx_queue
<1> DEFINE q == T.netdev.tx_queue
           d == T.netdev.tx_deferred
<1>1. /\ T \in TxState /\ q \in Seq(Nat) /\ d \in Seq(Nat) /\ MaxTx \in Nat
      /\ s \in 0..MaxTx /\ w \in 0..s /\ p \in 1..s /\ w < p
      /\ p \in 1..MaxTx /\ p \in Nat /\ w \in Nat /\ T.tx \in TxRings
      /\ Len(q) \in Nat /\ DOMAIN q = 1..Len(q) /\ Len(d) \in Nat /\ DOMAIN d = 1..Len(d)
  <2>1. T \in TxState /\ s \in 0..MaxTx /\ w \in 0..s /\ p \in 1..s /\ w < p
    BY Zenon DEF TxReady
  <2>2. q \in Seq(Nat) /\ d \in Seq(Nat) /\ T.tx \in TxRings
    BY <2>1 DEF TxState, Device
  <2>3. MaxTx \in Nat
    BY DeviceConst
  <2>4. p \in 1..MaxTx /\ p \in Nat /\ w \in Nat
    BY <2>1, <2>3
  <2>5. Len(q) \in Nat /\ DOMAIN q = 1..Len(q) /\ Len(d) \in Nat /\ DOMAIN d = 1..Len(d)
    BY <2>2, LenProperties
  <2> QED
    BY <2>1, <2>2, <2>3, <2>4, <2>5
<1>10. \/ /\ \A i \in DOMAIN d : d[i] < p
          /\ d # <<>> => Len(q) = NumTx
       \/ (\A i \in DOMAIN d : p < d[i]) /\ Len(q) + 1 = NumTx
  BY Zenon DEF TxReady
<1>11. \A x \in 1..MaxTx : T.fate[x] = "held" <=> In(q, x) \/ In(d, x) \/ x = p
  BY Zenon DEF TxReady
<1>2. PICK k \in 0..NumTx : TxRing(T.tx, q, k, w)
  BY DEF TxReady
<1>3. D!Used(T.tx) = Len(q)
  BY <1>2, RingLength
<1>4. /\ Rising(q) /\ Rising(d)
      /\ \A i \in DOMAIN q : q[i] \in 1..s /\ q[i] < p
      /\ \A i \in DOMAIN d : d[i] \in 1..s /\ w < d[i]
      /\ \A i \in DOMAIN q, j \in DOMAIN d : q[i] < d[j]
  BY DEF TxReady, TxOrder
<1>5. ~In(q, p)
  BY <1>1, <1>4 DEF In
<1>6. /\ R \in TxState /\ R.netdev.open = T.netdev.open
      /\ R.netdev.rx_queue = T.netdev.rx_queue
      /\ TxFailed(T, R, p) \/ TxWaits(T, R, p) \/ TxPushed(T, R, p)
  BY <1>1, <1>3, <1>5, NetTx
<1>7. CASE TxFailed(T, R, p)
  <2>1. R.tx = T.tx /\ R.netdev.tx_queue = q /\ R.netdev.tx_deferred = <<>>
    BY <1>7 DEF TxFailed
  <2>2. TxOrder(q, <<>>, s, w)
    BY <1>4 DEF TxOrder, Rising
  <2>3. TxHeld(R.fate, q, <<>>)
    <3>1. ASSUME NEW x \in 1..MaxTx
          PROVE  R.fate[x] = "held" <=> In(q, x) \/ In(<<>>, x)
      <4>1. ~In(<<>>, x)
        BY DEF In
      <4>2. In(q, x) => ~In(d, x) /\ x # p
        <5> SUFFICES ASSUME NEW i \in DOMAIN q, q[i] = x
                     PROVE  ~In(d, x) /\ x # p
          BY Zenon DEF In
        <5>1. \A j \in DOMAIN d : q[i] < d[j] /\ d[j] \in Int /\ q[i] \in Int
          BY <1>4
        <5>2. \A j \in DOMAIN d : d[j] # x
          BY <5>1
        <5>3. x # p
          BY <1>1, <1>4
        <5> QED
          BY <5>2, <5>3 DEF In
      <4>3. R.fate[x] = IF x = p \/ In(d, x) THEN "error" ELSE T.fate[x]
        BY <1>7 DEF TxFailed
      <4>4. T.fate[x] = "held" <=> In(q, x) \/ In(d, x) \/ x = p
        BY <1>11
      <4> QED
        BY <4>1, <4>2, <4>3, <4>4
    <3> QED
      BY <3>1, Zenon DEF TxHeld
  <2>4. ~R.netdev.open => q = <<>>
    BY <1>6 DEF TxReady
  <2> QED
    BY <1>1, <1>2, <1>6, <2>1, <2>2, <2>3, <2>4, Zenon DEF TxInv
<1>8. CASE TxWaits(T, R, p)
  <2> DEFINE e == Append(d, p)
  <2>1. R.tx = T.tx /\ R.fate = T.fate /\ R.netdev.tx_queue = q /\ R.netdev.tx_deferred = e
        /\ T.netdev.open
    BY <1>8 DEF TxWaits
  <2>2. Len(q) >= NumTx /\ NumTx \in Nat
    BY <1>8, DeviceConst DEF TxWaits
  <2>3. \A i \in DOMAIN d : d[i] < p
    <3>1. Len(q) \in Nat
      BY Zenon, <1>1
    <3>2. Len(q) + 1 # NumTx
      BY <2>2, <3>1
    <3> QED
      BY Zenon, <1>10, <3>2
  <2>4. Len(q) = NumTx
    BY <1>1, <1>2, <2>2, DeviceConst DEF TxRing, RingOf, Ring
  <2>5. /\ e \in Seq(Nat) /\ DOMAIN e = 1..(Len(d) + 1)
        /\ \A i \in 1..Len(d) : e[i] = d[i]
        /\ e[Len(d) + 1] = p
        /\ \A u : In(e, u) <=> In(d, u) \/ u = p
    BY <1>1, InAppended
  <2>6. Rising(e)
    BY Zenon, <1>1, <1>4, <2>3, RisingAppend
  <2> HIDE DEF e
  <2>7. TxOrder(q, e, s, w)
    <3>1. ASSUME NEW j \in DOMAIN e
          PROVE  e[j] \in 1..s /\ w < e[j] /\ \A i \in DOMAIN q : q[i] < e[j]
      <4>1. CASE j = Len(d) + 1
        BY Zenon, <1>1, <1>4, <2>5, <4>1
      <4>2. CASE j \in 1..Len(d)
        BY Zenon, <1>1, <1>4, <2>5, <4>2
      <4>3. j = Len(d) + 1 \/ j \in 1..Len(d)
        BY <1>1, <2>5
      <4> QED
        BY <4>1, <4>2, <4>3, Zenon
    <3> QED
      BY <1>4, <2>6, <3>1 DEF TxOrder
  <2>8. TxHeld(R.fate, q, e)
    <3>1. ASSUME NEW x \in 1..MaxTx
          PROVE  R.fate[x] = "held" <=> In(q, x) \/ In(e, x)
      <4>1. T.fate[x] = "held" <=> In(q, x) \/ In(d, x) \/ x = p
        BY <1>11, Zenon
      <4>2. In(e, x) <=> In(d, x) \/ x = p
        BY <2>5, Zenon
      <4> QED
        BY <2>1, <4>1, <4>2, Zenon
    <3> QED
      BY <3>1, Zenon DEF TxHeld
  <2> QED
    BY <1>1, <1>2, <1>6, <2>1, <2>4, <2>7, <2>8, Zenon DEF TxInv
<1>9. CASE TxPushed(T, R, p)
  <2> DEFINE e == Append(q, p)
  <2>1. /\ R.tx.prod = (T.tx.prod + 1) % Wrap
        /\ R.tx.cons = T.tx.cons /\ R.tx.card = T.tx.card
        /\ R.tx.desc = [T.tx.desc EXCEPT ![T.tx.prod % NumTx] = [own |-> TRUE, pkt |-> p]]
        /\ R.fate = T.fate /\ R.netdev.tx_queue = e /\ R.netdev.tx_deferred = d
        /\ T.netdev.open /\ Len(q) < NumTx
    BY <1>9, Zenon DEF TxPushed
  <2>2. R.tx \in TxRings
    BY <1>6 DEF TxState
  <2>3. TxRing(R.tx, e, k, w)
    BY Zenon, <1>1, <1>2, <2>1, <2>2, PushRing
  <2>4. (d # <<>> => Len(q) + 1 = NumTx) /\ \A i \in DOMAIN d : p < d[i]
    <3>1. CASE d = <<>>
      BY <3>1
    <3>2. CASE d # <<>>
      <4>1. Len(q) \in Nat /\ Len(q) < NumTx
        BY Zenon, <1>1, <2>1
      <4>2. Len(q) # NumTx
        BY <4>1
      <4> QED
        BY Zenon, <1>10, <3>2, <4>2
    <3> QED
      BY <3>1, <3>2
  <2>5. /\ e \in Seq(Nat) /\ DOMAIN e = 1..(Len(q) + 1) /\ Len(e) = Len(q) + 1
        /\ \A i \in 1..Len(q) : e[i] = q[i]
        /\ e[Len(q) + 1] = p
        /\ \A u : In(e, u) <=> In(q, u) \/ u = p
    BY <1>1, InAppended
  <2>6. Rising(e)
    BY Zenon, <1>1, <1>4, RisingAppend
  <2> HIDE DEF e
  <2>7. TxOrder(e, d, s, w)
    <3>1. ASSUME NEW i \in DOMAIN e
          PROVE  e[i] \in 1..s /\ \A j \in DOMAIN d : e[i] < d[j]
      <4>1. CASE i = Len(q) + 1
        BY Zenon, <1>1, <2>4, <2>5, <4>1
      <4>2. CASE i \in 1..Len(q)
        BY Zenon, <1>1, <1>4, <2>5, <4>2
      <4>3. i = Len(q) + 1 \/ i \in 1..Len(q)
        <5>1. i \in 1..(Len(q) + 1) /\ Len(q) \in Nat
          BY Zenon, <1>1, <2>5
        <5> QED
          BY <5>1
      <4> QED
        BY <4>1, <4>2, <4>3, Zenon
    <3> QED
      BY Zenon, <1>4, <2>6, <3>1 DEF TxOrder
  <2>8. TxHeld(R.fate, e, d)
    <3>1. ASSUME NEW x \in 1..MaxTx
          PROVE  R.fate[x] = "held" <=> In(e, x) \/ In(d, x)
      <4>1. T.fate[x] = "held" <=> In(q, x) \/ In(d, x) \/ x = p
        BY <1>11, Zenon
      <4>2. In(e, x) <=> In(q, x) \/ x = p
        BY <2>5, Zenon
      <4> QED
        BY <2>1, <4>1, <4>2, Zenon
    <3> QED
      BY <3>1, Zenon DEF TxHeld
  <2>9. R.netdev.open
    BY Zenon, <1>6, <2>1
  <2>10. d # <<>> => Len(e) = NumTx
    BY Zenon, <2>4, <2>5
  <2> QED
    BY <1>1, <1>6, <2>1, <2>3, <2>7, <2>8, <2>9, <2>10, Zenon DEF TxInv
<1> QED
  BY <1>6, <1>7, <1>8, <1>9

(* Taking back the oldest descriptor of the ring *)
LEMMA TakeRing ==
  ASSUME D!NetDeviceAssumption, NEW r \in TxRings, NEW q \in Seq(Nat), NEW k, NEW w,
         TxRing(r, q, k, w), r.prod # r.cons, ~r.desc[r.cons % NumTx].own,
         NEW t, t.prod = r.prod, t.cons = (r.cons + 1) % Wrap, t.card = r.card,
         t.desc = r.desc
  PROVE  /\ q # <<>> /\ k - 1 \in 0..NumTx
         /\ TxRing(t, Tail(q), k - 1, w)
<1> DEFINE n == Len(q)
           c == r.cons
           O == Owned(r, NumTx)
           u == Tail(q)
<1>1. /\ NumTx \in Nat /\ NumTx > 0 /\ Wrap \in Nat /\ Wrap > NumTx
      /\ RingConst(NumTx, Wrap)
  BY DeviceConst
<1>2. Ring(r.prod, c, r.card, O, n, k, NumTx, Wrap)
  BY DEF TxRing, RingOf
<1>3. c % NumTx \notin O
  BY DEF Owned
<1>4. /\ n >= 1 /\ k >= 1
      /\ Ring(r.prod, (c + 1) % Wrap, r.card, O, n - 1, k - 1, NumTx, Wrap)
      /\ \A j \in Int : Slot((c + 1) % Wrap, j, NumTx) = Slot(c, j + 1, NumTx)
  BY Zenon, <1>1, <1>2, <1>3, RingTake
<1>5. n \in 0..NumTx /\ k \in 0..n
  BY <1>2 DEF Ring
<1>6. q # <<>> /\ k - 1 \in 0..NumTx
  BY <1>1, <1>4, <1>5
<1>7. /\ u \in Seq(Nat) /\ Len(u) = n - 1
      /\ \A j \in 1..Len(u) : u[j] = q[j + 1]
  BY <1>6, HeadTailProperties
<1>8. Owned(t, NumTx) = O
  BY DEF Owned
<1>9. ASSUME NEW j \in 1..(n - 1)
      PROVE  t.desc[Slot(t.cons, j - 1, NumTx)].pkt = u[j]
  <2>1. j + 1 \in 1..n /\ j - 1 \in Int /\ (j - 1) + 1 = (j + 1) - 1
    BY <1>5
  <2>2. Slot(t.cons, j - 1, NumTx) = Slot(c, (j + 1) - 1, NumTx)
    BY <1>4, <2>1
  <2>3. r.desc[Slot(c, (j + 1) - 1, NumTx)].pkt = q[j + 1]
    BY SMTT(30), <2>1 DEF TxRing
  <2> QED
    BY <1>7, <2>2, <2>3
<1>10. ASSUME NEW j \in ((k - 1) + 1)..(n - 1) PROVE w < u[j]
  <2>1. j + 1 \in (k + 1)..n /\ j \in 1..(n - 1)
    BY <1>4, <1>5
  <2>2. w < q[j + 1]
    BY <2>1 DEF TxRing
  <2> QED
    BY <1>7, <2>1, <2>2
<1> HIDE DEF u, O, n, c
<1>11. TxRing(t, u, k - 1, w)
  BY <1>4, <1>7, <1>8, <1>9, <1>10 DEF TxRing, RingOf, c
<1> QED
  BY <1>6, <1>11 DEF u

(* The card sends the packet of the next descriptor it owns *)
LEMMA DoneRing ==
  ASSUME D!NetDeviceAssumption, NEW r \in TxRings, NEW q \in Seq(Nat), NEW k, NEW w,
         TxRing(r, q, k, w), Rising(q), r.desc[r.card].own,
         NEW t, t.prod = r.prod, t.cons = r.cons, t.card = (r.card + 1) % NumTx,
         t.desc = [r.desc EXCEPT ![r.card].own = FALSE]
  PROVE  /\ k + 1 \in 1..Len(q) /\ k + 1 \in 0..NumTx
         /\ r.desc[r.card].pkt = q[k + 1] /\ w < q[k + 1]
         /\ TxRing(t, q, k + 1, q[k + 1])
<1> DEFINE n == Len(q)
           c == r.cons
           a == r.card
           O == Owned(r, NumTx)
<1>1. /\ NumTx \in Nat /\ NumTx > 0 /\ Wrap \in Nat /\ Wrap > NumTx
      /\ RingConst(NumTx, Wrap)
  BY DeviceConst
<1>2. Ring(r.prod, c, a, O, n, k, NumTx, Wrap)
  BY DEF TxRing, RingOf
<1>3. a \in 0..(NumTx - 1) /\ a \in O
  <2>1. a \in 0..(NumTx - 1)
    <3>1. c \in Int /\ k \in Int /\ a = Slot(c, k, NumTx)
      BY <1>1, <1>2 DEF Ring
    <3> QED
      BY <1>1, <3>1, SlotIn
  <2> QED
    BY <2>1 DEF Owned
<1>4. /\ k < n /\ a = Slot(c, k, NumTx)
      /\ Ring(r.prod, c, (a + 1) % NumTx, O \ {a}, n, k + 1, NumTx, Wrap)
  BY Zenon, <1>1, <1>2, <1>3, RingDone
<1>5. n \in 0..NumTx /\ k \in 0..n
  BY <1>2 DEF Ring
<1>6. /\ t.desc[a].own = FALSE
      /\ \A x \in 0..(NumTx - 1) : t.desc[x].pkt = r.desc[x].pkt
      /\ \A x \in 0..(NumTx - 1) : x # a => t.desc[x].own = r.desc[x].own
  <2>1. r.desc[a] \in TxDesc
    BY Zenon, <1>3 DEF TxRings
  <2>2. /\ t.desc[a] = [r.desc[a] EXCEPT !.own = FALSE]
        /\ \A x \in 0..(NumTx - 1) : x # a => t.desc[x] = r.desc[x]
    BY Zenon, <1>3 DEF TxRings
  <2>3. t.desc[a].own = FALSE /\ t.desc[a].pkt = r.desc[a].pkt
    BY <2>1, <2>2 DEF TxDesc
  <2> QED
    BY <2>2, <2>3, Zenon
<1>7. Owned(t, NumTx) = O \ {a}
  BY <1>3, <1>6 DEF Owned
<1>8. k + 1 \in 1..n /\ k + 1 \in 0..NumTx /\ (k + 1) - 1 = k /\ k + 1 \in (k + 1)..n
  <2>1. k < n
    BY <1>4
  <2> HIDE DEF n
  <2> QED
    BY <1>1, <1>5, <2>1
<1>9. r.desc[a].pkt = q[k + 1]
  <2>1. r.desc[Slot(c, (k + 1) - 1, NumTx)].pkt = q[k + 1]
    BY <1>8 DEF TxRing
  <2> QED
    BY <1>4, <1>8, <2>1
<1>10. w < q[k + 1]
  BY <1>8 DEF TxRing
<1>11. ASSUME NEW j \in 1..n
       PROVE  t.desc[Slot(c, j - 1, NumTx)].pkt = q[j]
  <2>1. Slot(c, j - 1, NumTx) \in 0..(NumTx - 1)
    <3>1. c \in Int /\ j - 1 \in Int
      BY <1>1, <1>2, <1>5 DEF Ring
    <3> QED
      BY <1>1, <3>1, SlotIn
  <2>2. r.desc[Slot(c, j - 1, NumTx)].pkt = q[j]
    BY DEF TxRing
  <2> QED
    BY <1>6, <2>1, <2>2
<1>12. ASSUME NEW j \in ((k + 1) + 1)..n PROVE q[k + 1] < q[j]
  <2>1. j \in 1..n /\ k + 1 < j /\ DOMAIN q = 1..n
    BY <1>5, LenProperties
  <2> QED
    BY <1>8, <2>1 DEF Rising
<1>13. TxRing(t, q, k + 1, q[k + 1])
  BY <1>4, <1>7, <1>11, <1>12 DEF TxRing, RingOf
<1> QED
  BY <1>8, <1>9, <1>10, <1>13

-----------------------------------------------------------------------------
(* The actions keep the transmit part of the invariant *)

LEMMA TxParts ==
  ASSUME NEW T, NEW s, NEW w, TxInv(T, s, w)
  PROVE  /\ T \in TxState /\ T.netdev \in Device /\ T.tx \in TxRings
         /\ T.fate \in [1..MaxTx -> Fates]
         /\ s \in 0..MaxTx /\ w \in 0..s
         /\ T.netdev.tx_queue \in Seq(Nat) /\ T.netdev.tx_deferred \in Seq(Nat)
         /\ Len(T.netdev.tx_queue) \in Nat
         /\ DOMAIN T.netdev.tx_queue = 1..Len(T.netdev.tx_queue)
         /\ Len(T.netdev.tx_deferred) \in Nat
         /\ DOMAIN T.netdev.tx_deferred = 1..Len(T.netdev.tx_deferred)
         /\ TxOrder(T.netdev.tx_queue, T.netdev.tx_deferred, s, w)
         /\ TxHeld(T.fate, T.netdev.tx_queue, T.netdev.tx_deferred)
         /\ T.netdev.tx_deferred # <<>> => Len(T.netdev.tx_queue) = NumTx
         /\ ~T.netdev.open => T.netdev.tx_queue = <<>>
<1>1. /\ T \in TxState /\ s \in 0..MaxTx /\ w \in 0..s
      /\ TxOrder(T.netdev.tx_queue, T.netdev.tx_deferred, s, w)
      /\ TxHeld(T.fate, T.netdev.tx_queue, T.netdev.tx_deferred)
      /\ T.netdev.tx_deferred # <<>> => Len(T.netdev.tx_queue) = NumTx
      /\ ~T.netdev.open => T.netdev.tx_queue = <<>>
  BY Zenon DEF TxInv
<1>2. /\ T.netdev \in Device /\ T.tx \in TxRings /\ T.fate \in [1..MaxTx -> Fates]
  BY Zenon, <1>1 DEF TxState
<1>3. T.netdev.tx_queue \in Seq(Nat) /\ T.netdev.tx_deferred \in Seq(Nat)
  BY <1>2 DEF Device
<1> QED
  BY Zenon, <1>1, <1>2, <1>3, LenProperties

LEMMA TxBecomes ==
  ASSUME NEW T \in TxState, D!TxBecome(T)
  PROVE  D!TxNow' = T
<1>1. T = [netdev |-> T.netdev, tx |-> T.tx, fate |-> T.fate]
  BY DEF TxState
<1> QED
  BY <1>1, Zenon DEF D!TxBecome, D!TxNow

LEMMA TxNowFields ==
  /\ D!TxNow.netdev = netdev /\ D!TxNow.tx = tx /\ D!TxNow.fate = fate
  /\ D!TxNow'.netdev = netdev' /\ D!TxNow'.tx = tx' /\ D!TxNow'.fate = fate'
  BY DEF D!TxNow

(* What does not touch transmission *)
LEMMA TxFrame ==
  ASSUME TxInv(D!TxNow, sent, wire),
         netdev' \in Device, netdev'.open = netdev.open,
         netdev'.tx_queue = netdev.tx_queue, netdev'.tx_deferred = netdev.tx_deferred,
         tx' = tx, fate' = fate, sent' = sent, wire' = wire
  PROVE  TxInv(D!TxNow, sent, wire)'
<1>1. D!TxNow' \in TxState
  <2>1. tx \in TxRings /\ fate \in [1..MaxTx -> Fates]
    BY TxParts, TxNowFields
  <2> QED
    BY <2>1 DEF TxState, D!TxNow
<1> QED
  BY <1>1, TxNowFields, Zenon DEF TxInv

LEMMA SendKeeps ==
  ASSUME D!NetDeviceAssumption, TxInv(D!TxNow, sent, wire), D!Send
  PROVE  /\ TxInv(D!TxNow, sent, wire)' /\ netdev'.rx_queue = netdev.rx_queue
         /\ wire' = wire /\ rx' = rx /\ got' = got /\ passed' = passed
<1> DEFINE p == sent + 1
           T == [D!TxNow EXCEPT !.fate[p] = "held"]
           q == netdev.tx_queue
           d == netdev.tx_deferred
<1>1. PICK mapped \in BOOLEAN : D!TxBecome(D!netdev_tx(T, p, mapped))
  BY DEF D!Send
<1>2. /\ sent < MaxTx /\ sent' = p /\ wire' = wire /\ rx' = rx
      /\ got' = got /\ passed' = passed
  BY DEF D!Send
<1>3. /\ D!TxNow \in TxState /\ fate \in [1..MaxTx -> Fates]
      /\ sent \in 0..MaxTx /\ wire \in 0..sent /\ q \in Seq(Nat) /\ d \in Seq(Nat)
      /\ TxOrder(q, d, sent, wire) /\ TxHeld(fate, q, d)
      /\ d # <<>> => Len(q) = NumTx
      /\ ~netdev.open => q = <<>>
  BY TxParts, TxNowFields
<1>4. MaxTx \in Nat /\ p \in 0..MaxTx /\ p \in 1..MaxTx /\ wire \in 0..p /\ p \in 1..p
      /\ wire < p /\ p \in Nat
  BY <1>2, <1>3, DeviceConst
<1>5. /\ T \in TxState /\ T.netdev = netdev /\ T.tx = tx
      /\ T.fate = [fate EXCEPT ![p] = "held"]
  BY Zenon, <1>3, <1>4 DEF TxState, D!TxNow, Fates
<1> HIDE DEF T
<1>6. /\ \A i \in DOMAIN q : q[i] \in 1..sent /\ q[i] \in 1..p /\ q[i] < p
      /\ \A i \in DOMAIN d : d[i] \in 1..sent /\ d[i] \in 1..p /\ d[i] < p
  BY SMTT(30), <1>3 DEF TxOrder
<1>7. TxOrder(q, d, p, wire)
  BY <1>3, <1>6 DEF TxOrder
<1>8. ASSUME NEW x \in 1..MaxTx
      PROVE  T.fate[x] = "held" <=> In(q, x) \/ In(d, x) \/ x = p
  <2>1. CASE x = p
    BY <1>3, <1>4, <1>5, <2>1
  <2>2. CASE x # p
    BY <1>3, <1>5, <2>2 DEF TxHeld
  <2> QED
    BY <2>1, <2>2
<1>9. \E k \in 0..NumTx : TxRing(tx, q, k, wire)
  BY TxNowFields, Zenon DEF TxInv
<1>10. TxReady(T, p, p, wire)
  BY <1>3, <1>4, <1>5, <1>6, <1>7, <1>8, <1>9, Zenon DEF TxReady
<1> DEFINE R == D!netdev_tx(T, p, mapped)
<1>11. TxInv(R, p, wire) /\ R.netdev.rx_queue = T.netdev.rx_queue
  BY <1>10, NetTxKeeps
<1> HIDE DEF R
<1>12. D!TxNow' = R /\ netdev' = R.netdev
  BY <1>1, <1>11, TxBecomes, TxParts, TxNowFields DEF R
<1> QED
  BY <1>2, <1>5, <1>11, <1>12

(* Freeing packets changes their fates and nothing else *)
LEMMA Discarded ==
  ASSUME NEW T \in TxState, NEW S, NEW f \in Fates, NEW G, G = D!Discard(T, S, f)
  PROVE  /\ G \in TxState /\ G.netdev = T.netdev /\ G.tx = T.tx
         /\ \A x \in 1..MaxTx : G.fate[x] = IF x \in S THEN f ELSE T.fate[x]
<1> DEFINE h == [x \in 1..MaxTx |-> IF x \in S THEN f ELSE T.fate[x]]
<1>1. T.fate \in [1..MaxTx -> Fates] /\ DOMAIN T.fate = 1..MaxTx
  BY DEF TxState
<1>2. h \in [1..MaxTx -> Fates]
  BY Zenon, <1>1
<1>3. G = [T EXCEPT !.fate = h]
  BY <1>1 DEF D!Discard
<1>4. \A x \in 1..MaxTx : h[x] = IF x \in S THEN f ELSE T.fate[x]
  OBVIOUS
<1> HIDE DEF h
<1> QED
  BY <1>2, <1>3, <1>4 DEF TxState

(* What is left when the first deferred packet is gone *)
LEMMA FirstDeferred ==
  ASSUME NEW T, NEW s, NEW w, TxInv(T, s, w), T.netdev.tx_deferred # <<>>
  PROVE  LET q == T.netdev.tx_queue
             d == T.netdev.tx_deferred
         IN  /\ Tail(d) \in Seq(Nat) /\ Head(d) \in 1..s /\ w < Head(d)
             /\ TxOrder(q, Tail(d), s, w)
             /\ \A i \in DOMAIN q : q[i] < Head(d)
             /\ \A i \in DOMAIN Tail(d) : Head(d) < Tail(d)[i]
             /\ \A u : In(Tail(d), u) <=> In(d, u) /\ u # Head(d)
             /\ In(d, Head(d)) /\ ~In(q, Head(d))
<1> DEFINE q == T.netdev.tx_queue
           d == T.netdev.tx_deferred
           t == Tail(d)
           h == Head(d)
<1>1. /\ q \in Seq(Nat) /\ d \in Seq(Nat) /\ d # <<>> /\ s \in Nat /\ w \in Nat
      /\ Rising(q) /\ Rising(d)
      /\ \A i \in DOMAIN q : q[i] \in 1..s
      /\ \A i \in DOMAIN d : d[i] \in 1..s /\ w < d[i]
      /\ \A i \in DOMAIN q, j \in DOMAIN d : q[i] < d[j]
  BY TxParts DEF TxOrder
<1> HIDE DEF q, d
<1>2. /\ Rising(t) /\ t \in Seq(Nat) /\ h = d[1] /\ 1 \in DOMAIN d
      /\ \A i \in DOMAIN t : i + 1 \in DOMAIN d /\ t[i] = d[i + 1] /\ h < t[i]
  BY <1>1, RisingTail, Zenon
<1>3. \A u : In(t, u) <=> In(d, u) /\ u # h
  BY <1>1, RisingDistinct, Advanced, Zenon
<1>4. In(d, h)
  BY <1>2, Zenon DEF In
<1> HIDE DEF t, h
<1>5. h \in 1..s /\ w < h /\ \A i \in DOMAIN q : q[i] < h
  BY <1>1, <1>2
<1>6. ~In(q, h)
  <2>1. \A i \in DOMAIN q : q[i] # h
    BY <1>1, <1>5
  <2> QED
    BY <2>1 DEF In
<1>7. \A i \in DOMAIN t : t[i] \in 1..s /\ w < t[i] /\ \A j \in DOMAIN q : q[j] < t[i]
  BY <1>1, <1>2
<1>8. TxOrder(q, t, s, w)
  BY <1>1, <1>2, <1>7 DEF TxOrder
<1> QED
  BY <1>2, <1>3, <1>4, <1>5, <1>6, <1>8, Zenon DEF q, d, t, h

LEMMA DiscardKeeps ==
  ASSUME D!NetDeviceAssumption, TxInv(D!TxNow, sent, wire), D!net_discard
  PROVE  /\ TxInv(D!TxNow, sent, wire)' /\ netdev'.rx_queue = netdev.rx_queue
         /\ wire' = wire /\ rx' = rx /\ got' = got /\ passed' = passed
<1> DEFINE q == netdev.tx_queue
           d == netdev.tx_deferred
           G == D!Discard(D!TxNow, {Head(d)}, "error")
           R == [G EXCEPT !.netdev.tx_deferred = Tail(@)]
<1>1. d # <<>> /\ D!TxBecome(R)
  BY Zenon DEF D!net_discard
<1>2. sent' = sent /\ wire' = wire /\ rx' = rx /\ got' = got /\ passed' = passed
  BY DEF D!net_discard
<1>3. /\ D!TxNow \in TxState /\ sent \in 0..MaxTx /\ wire \in 0..sent
      /\ TxHeld(fate, q, d)
      /\ d # <<>> => Len(q) = NumTx
      /\ ~netdev.open => q = <<>>
  BY TxParts, TxNowFields
<1>4. /\ Tail(d) \in Seq(Nat) /\ TxOrder(q, Tail(d), sent, wire)
      /\ \A u : In(Tail(d), u) <=> In(d, u) /\ u # Head(d)
      /\ ~In(q, Head(d))
  BY Zenon, <1>1, FirstDeferred, TxNowFields
<1>5. /\ G \in TxState /\ G.netdev = netdev /\ G.tx = tx
      /\ \A x \in 1..MaxTx : G.fate[x] = IF x \in {Head(d)} THEN "error" ELSE fate[x]
  <2>1. "error" \in Fates
    BY DEF Fates
  <2> QED
    <3>1. /\ G \in TxState /\ G.netdev = D!TxNow.netdev /\ G.tx = D!TxNow.tx
          /\ \A x \in 1..MaxTx : G.fate[x] =
               IF x \in {Head(d)} THEN "error" ELSE D!TxNow.fate[x]
      BY <1>3, <2>1, Discarded
    <3> QED
      BY SMTT(30), <3>1, TxNowFields
<1> HIDE DEF G
<1>6. /\ R \in TxState /\ R.tx = tx /\ R.fate = G.fate
      /\ R.netdev.open = netdev.open /\ R.netdev.tx_queue = q
      /\ R.netdev.tx_deferred = Tail(d) /\ R.netdev.rx_queue = netdev.rx_queue
  BY Zenon, <1>4, <1>5 DEF TxState, Device
<1> HIDE DEF R
<1>7. TxHeld(R.fate, q, Tail(d))
  <2>1. ASSUME NEW x \in 1..MaxTx
        PROVE  R.fate[x] = "held" <=> In(q, x) \/ In(Tail(d), x)
    <3>1. fate[x] = "held" <=> In(q, x) \/ In(d, x)
      BY <1>3, Zenon DEF TxHeld
    <3>2. R.fate[x] = IF x = Head(d) THEN "error" ELSE fate[x]
      <4>1. G.fate[x] = IF x \in {Head(d)} THEN "error" ELSE fate[x]
        BY <1>5
      <4> QED
        BY <1>6, <4>1
    <3>3. In(Tail(d), x) <=> In(d, x) /\ x # Head(d)
      BY <1>4, Zenon
    <3> QED
      BY <1>4, <3>1, <3>2, <3>3
  <2> QED
    BY <2>1, Zenon DEF TxHeld
<1>8. \E k \in 0..NumTx : TxRing(tx, q, k, wire)
  BY TxNowFields, Zenon DEF TxInv
<1>9. TxInv(R, sent, wire)
  BY <1>1, <1>3, <1>4, <1>6, <1>7, <1>8, Zenon DEF TxInv
<1>10. D!TxNow' = R
  BY <1>1, <1>6, TxBecomes, Zenon
<1> QED
  BY <1>2, <1>6, <1>9, <1>10, TxNowFields

LEMMA CompletionKeeps ==
  ASSUME D!NetDeviceAssumption, TxInv(D!TxNow, sent, wire),
         tx.cons # tx.prod, ~tx.desc[tx.cons % NumTx].own, NEW mapped \in BOOLEAN,
         NEW R, R = D!netdev_tx_complete_next([D!TxNow EXCEPT !.tx.cons = D!Inc(@)], mapped)
  PROVE  TxInv(R, sent, wire) /\ R.netdev.rx_queue = netdev.rx_queue
<1> DEFINE q == netdev.tx_queue
           d == netdev.tx_deferred
           A == [D!TxNow EXCEPT !.tx.cons = D!Inc(@)]
           G == D!Discard(A, {Head(A.netdev.tx_queue)}, "done")
           B == [G EXCEPT !.netdev.tx_queue = Tail(@)]
           C == [B EXCEPT !.netdev.tx_deferred = Tail(@)]
<1>1. /\ D!TxNow \in TxState /\ sent \in 0..MaxTx /\ wire \in 0..sent
      /\ netdev \in Device /\ tx \in TxRings /\ fate \in [1..MaxTx -> Fates]
      /\ q \in Seq(Nat) /\ d \in Seq(Nat)
      /\ TxOrder(q, d, sent, wire)
      /\ TxHeld(fate, q, d)
      /\ d # <<>> => Len(q) = NumTx
      /\ ~netdev.open => q = <<>>
  BY TxParts, TxNowFields
<1>2. PICK k \in 0..NumTx : TxRing(tx, q, k, wire)
  BY TxNowFields, Zenon DEF TxInv
<1>3. /\ A \in TxState /\ A.netdev = netdev /\ A.fate = fate
      /\ A.tx.prod = tx.prod /\ A.tx.cons = (tx.cons + 1) % Wrap
      /\ A.tx.card = tx.card /\ A.tx.desc = tx.desc
  <2>1. tx.cons \in Nat /\ (tx.cons + 1) % Wrap \in Nat
    <3>1. tx.cons \in Nat /\ tx.cons + 1 \in Int
      BY <1>1 DEF TxRings
    <3>2. Wrap \in Nat /\ Wrap > 0
      BY DeviceConst
    <3>3. (tx.cons + 1) % Wrap \in 0..(Wrap - 1)
      BY <3>1, <3>2, ModDiv, Zenon
    <3> QED
      BY <3>1, <3>2, <3>3
  <2> DEFINE r == [tx EXCEPT !.cons = (tx.cons + 1) % Wrap]
  <2>2. /\ r \in TxRings /\ r.prod = tx.prod /\ r.cons = (tx.cons + 1) % Wrap
        /\ r.card = tx.card /\ r.desc = tx.desc
    BY Zenon, <1>1, <2>1 DEF TxRings
  <2>3. A = [D!TxNow EXCEPT !.tx = r]
    <3>1. A = [D!TxNow EXCEPT !.tx = [D!TxNow.tx EXCEPT !.cons = D!Inc(D!TxNow.tx.cons)]]
      BY <1>1 DEF TxState
    <3>2. D!TxNow.tx = tx /\ D!Inc(tx.cons) = (tx.cons + 1) % Wrap
      BY TxNowFields DEF D!Inc
    <3> QED
      BY <3>1, <3>2, Zenon
  <2> HIDE DEF r
  <2> QED
    BY SMTT(30), <1>1, <2>2, <2>3, TxNowFields DEF TxState
<1>4. /\ q # <<>> /\ k - 1 \in 0..NumTx /\ TxRing(A.tx, Tail(q), k - 1, wire)
  BY Zenon, <1>1, <1>2, <1>3, TakeRing
<1> HIDE DEF A
<1>5. /\ G \in TxState /\ G.netdev = netdev /\ G.tx = A.tx
      /\ \A x \in 1..MaxTx : G.fate[x] = IF x \in {Head(q)} THEN "done" ELSE fate[x]
  <2>1. "done" \in Fates
    BY DEF Fates
  <2>2. /\ G \in TxState /\ G.netdev = A.netdev /\ G.tx = A.tx
        /\ \A x \in 1..MaxTx : G.fate[x] =
             IF x \in {Head(A.netdev.tx_queue)} THEN "done" ELSE A.fate[x]
    BY <1>3, <2>1, Discarded
  <2> QED
    BY Zenon, <1>3, <2>2
<1>6. /\ Rising(q) /\ Rising(d)
      /\ \A i \in DOMAIN q : q[i] \in 1..sent
      /\ \A i \in DOMAIN d : d[i] \in 1..sent /\ wire < d[i]
      /\ \A i \in DOMAIN q, j \in DOMAIN d : q[i] < d[j]
  BY <1>1, Zenon DEF TxOrder
<1>7. /\ Rising(Tail(q)) /\ Tail(q) \in Seq(Nat) /\ Len(q) \in Nat
      /\ Len(Tail(q)) = Len(q) - 1
      /\ \A i \in DOMAIN Tail(q) : i + 1 \in DOMAIN q /\ Tail(q)[i] = q[i + 1]
  BY Zenon, <1>1, <1>4, <1>6, RisingTail
<1>8. /\ In(q, Head(q)) /\ \A u : In(Tail(q), u) <=> In(q, u) /\ u # Head(q)
  BY SMTT(30), <1>1, <1>4, <1>6, RisingDistinct, Advanced
<1> HIDE DEF G
<1>9. /\ B \in TxState /\ B.tx = A.tx /\ B.fate = G.fate
      /\ B.netdev.open = netdev.open /\ B.netdev.tx_queue = Tail(q)
      /\ B.netdev.tx_deferred = d /\ B.netdev.rx_queue = netdev.rx_queue
  BY Zenon, <1>5, <1>7 DEF TxState, Device
<1>10. TxOrder(Tail(q), d, sent, wire)
  BY Zenon, <1>6, <1>7 DEF TxOrder
<1>11. ASSUME NEW x \in 1..MaxTx
       PROVE  B.fate[x] = "held" <=> In(Tail(q), x) \/ In(d, x)
  <2>1. fate[x] = "held" <=> In(q, x) \/ In(d, x)
    BY <1>1, Zenon DEF TxHeld
  <2>2. B.fate[x] = IF x = Head(q) THEN "done" ELSE fate[x]
    <3>1. G.fate[x] = IF x \in {Head(q)} THEN "done" ELSE fate[x]
      BY <1>5
    <3> QED
      BY <1>9, <3>1
  <2>3. ~In(d, Head(q))
    <3>1. PICK i \in DOMAIN q : q[i] = Head(q)
      BY <1>8, Zenon DEF In
    <3>2. \A j \in DOMAIN d : q[i] < d[j] /\ q[i] \in Int /\ d[j] \in Int
      BY <1>6
    <3>3. \A j \in DOMAIN d : d[j] # Head(q)
      BY <3>1, <3>2
    <3> QED
      BY <3>3, Zenon DEF In
  <2>4. In(Tail(q), x) <=> In(q, x) /\ x # Head(q)
    BY <1>8, Zenon
  <2> QED
    BY <2>1, <2>2, <2>3, <2>4
<1>12. ~B.netdev.open => Tail(q) = <<>>
  BY <1>1, <1>4, <1>9
<1>13. CASE d = <<>>
  <2>1. R = B
    BY Zenon, <1>3, <1>4, <1>9, <1>13 DEF D!netdev_tx_complete_next, A, B, G
  <2> HIDE DEF B
  <2>2. TxHeld(B.fate, Tail(q), d)
    BY <1>11, Zenon DEF TxHeld
  <2>3. TxInv(B, sent, wire)
    BY <1>1, <1>4, <1>9, <1>10, <1>12, <1>13, <2>2, Zenon DEF TxInv
  <2> QED
    BY <1>9, <2>1, <2>3
<1>14. CASE d # <<>>
  <2> DEFINE p == Head(d)
  <2>1. /\ Tail(d) \in Seq(Nat) /\ p \in 1..sent /\ wire < p
        /\ TxOrder(q, Tail(d), sent, wire)
        /\ \A i \in DOMAIN q : q[i] < p
        /\ \A i \in DOMAIN Tail(d) : p < Tail(d)[i]
        /\ \A u : In(Tail(d), u) <=> In(d, u) /\ u # p
        /\ In(d, p) /\ ~In(q, p)
    BY Zenon, <1>14, FirstDeferred, TxNowFields
  <2>2. R = D!netdev_tx(C, p, mapped)
    BY Zenon, <1>3, <1>4, <1>9, <1>14 DEF D!netdev_tx_complete_next, A, B, C, G
  <2> HIDE DEF B
  <2>3. /\ C \in TxState /\ C.tx = A.tx /\ C.fate = B.fate
        /\ C.netdev.open = netdev.open /\ C.netdev.tx_queue = Tail(q)
        /\ C.netdev.tx_deferred = Tail(d) /\ C.netdev.rx_queue = netdev.rx_queue
    BY Zenon, <1>9, <2>1 DEF TxState, Device
  <2> HIDE DEF C, p
  <2>4. TxOrder(Tail(q), Tail(d), sent, wire)
    BY Zenon, <1>6, <1>7, <2>1 DEF TxOrder
  <2>5. \A i \in DOMAIN Tail(q) : Tail(q)[i] < p
    BY <1>7, <2>1
  <2>6. ASSUME NEW x \in 1..MaxTx
        PROVE  C.fate[x] = "held" <=> In(Tail(q), x) \/ In(Tail(d), x) \/ x = p
    <3>1. B.fate[x] = "held" <=> In(Tail(q), x) \/ In(d, x)
      BY <1>11
    <3>2. In(Tail(d), x) <=> In(d, x) /\ x # p
      BY <2>1, Zenon
    <3>3. x = p => In(d, x)
      BY <2>1, Zenon
    <3> QED
      BY <2>3, <3>1, <3>2, <3>3
  <2>7. Len(Tail(q)) + 1 = NumTx
    BY <1>1, <1>7, <1>14
  <2>8. ~C.netdev.open => Tail(q) = <<>>
    BY <1>9, <1>12, <2>3
  <2>9. TxReady(C, p, sent, wire)
    BY <1>1, <1>4, <2>1, <2>3, <2>4, <2>5, <2>6, <2>7, <2>8, Zenon DEF TxReady
  <2> QED
    BY <2>2, <2>3, <2>9, NetTxKeeps
<1> QED
  BY <1>13, <1>14

LEMMA PollTxKeeps ==
  ASSUME D!NetDeviceAssumption, TxInv(D!TxNow, sent, wire), D!realtek_poll_tx
  PROVE  /\ TxInv(D!TxNow, sent, wire)' /\ netdev'.rx_queue = netdev.rx_queue
         /\ wire' = wire /\ rx' = rx /\ got' = got /\ passed' = passed
<1>1. sent' = sent /\ wire' = wire /\ rx' = rx /\ got' = got /\ passed' = passed
  BY DEF D!realtek_poll_tx
<1>2. CASE tx.cons = tx.prod \/ tx.desc[tx.cons % NumTx].own
  <2>1. netdev' = netdev /\ tx' = tx /\ fate' = fate
    BY <1>2 DEF D!realtek_poll_tx
  <2>2. netdev \in Device
    BY TxParts, TxNowFields
  <2> QED
    BY <1>1, <2>1, <2>2, TxFrame
<1>3. CASE ~(tx.cons = tx.prod \/ tx.desc[tx.cons % NumTx].own)
  <2> DEFINE A == [D!TxNow EXCEPT !.tx.cons = D!Inc(@)]
  <2>1. PICK mapped \in BOOLEAN : D!TxBecome(D!netdev_tx_complete_next(A, mapped))
    BY <1>3, Zenon DEF D!realtek_poll_tx
  <2> DEFINE R == D!netdev_tx_complete_next(A, mapped)
  <2>2. TxInv(R, sent, wire) /\ R.netdev.rx_queue = netdev.rx_queue
    BY <1>3, CompletionKeeps, Zenon
  <2>3. D!TxBecome(R)
    BY <2>1
  <2> HIDE DEF R
  <2>4. D!TxNow' = R
    BY <2>2, <2>3, TxParts, TxBecomes, Zenon
  <2> QED
    BY <1>1, <2>2, <2>4, TxNowFields
<1> QED
  BY <1>2, <1>3

LEMMA CardTxKeeps ==
  ASSUME D!NetDeviceAssumption, TxInv(D!TxNow, sent, wire), D!CardTx
  PROVE  /\ TxInv(D!TxNow, sent, wire)' /\ netdev' = netdev
         /\ wire' > wire /\ rx' = rx /\ got' = got /\ passed' = passed
<1> DEFINE q == netdev.tx_queue
           d == netdev.tx_deferred
<1>1. /\ tx.desc[tx.card].own /\ wire' = tx.desc[tx.card].pkt
      /\ tx' = [tx EXCEPT !.desc[tx.card].own = FALSE, !.card = (@ + 1) % NumTx]
      /\ netdev' = netdev /\ rx' = rx /\ sent' = sent /\ fate' = fate
      /\ got' = got /\ passed' = passed
  BY DEF D!CardTx
<1>2. /\ D!TxNow \in TxState /\ sent \in 0..MaxTx /\ wire \in 0..sent
      /\ netdev \in Device /\ tx \in TxRings /\ fate \in [1..MaxTx -> Fates]
      /\ q \in Seq(Nat) /\ d \in Seq(Nat) /\ DOMAIN q = 1..Len(q)
      /\ TxOrder(q, d, sent, wire)
      /\ TxHeld(fate, q, d)
      /\ d # <<>> => Len(q) = NumTx
      /\ ~netdev.open => q = <<>>
  BY TxParts, TxNowFields
<1>3. PICK k \in 0..NumTx : TxRing(tx, q, k, wire)
  BY TxNowFields, Zenon DEF TxInv
<1>4. /\ NumTx \in Nat /\ NumTx > 0 /\ tx.card \in Nat /\ tx.card \in 0..(NumTx - 1)
      /\ (tx.card + 1) % NumTx \in Nat
  <2>1. NumTx \in Nat /\ NumTx > 0
    BY DeviceConst
  <2>2. tx.cons \in Int /\ k \in Int /\ tx.card = Slot(tx.cons, k, NumTx)
    BY <1>2, <1>3 DEF TxRing, RingOf, Ring, TxRings
  <2>3. tx.card \in 0..(NumTx - 1)
    BY <2>1, <2>2, SlotIn
  <2>4. tx.card \in Nat /\ tx.card + 1 \in Int
    BY <2>1, <2>3
  <2>5. (tx.card + 1) % NumTx \in 0..(NumTx - 1)
    BY <2>1, <2>4, ModDiv, Zenon
  <2> QED
    BY <2>1, <2>3, <2>4, <2>5
<1> DEFINE e == [tx.desc EXCEPT ![tx.card].own = FALSE]
<1>5. e \in [0..(NumTx - 1) -> TxDesc]
  <2>1. tx.desc \in [0..(NumTx - 1) -> TxDesc] /\ tx.desc[tx.card] \in TxDesc
    BY Zenon, <1>2, <1>4 DEF TxRings
  <2>2. [tx.desc[tx.card] EXCEPT !.own = FALSE] \in TxDesc
    BY Zenon, <2>1 DEF TxDesc
  <2> QED
    BY <1>4, <2>1, <2>2
<1>6. tx' = [tx EXCEPT !.desc = e, !.card = (tx.card + 1) % NumTx]
  BY <1>1, <1>2 DEF TxRings
<1> HIDE DEF e
<1>7. /\ tx' \in TxRings /\ tx'.prod = tx.prod /\ tx'.cons = tx.cons
      /\ tx'.card = (tx.card + 1) % NumTx /\ tx'.desc = e
  BY Zenon, <1>2, <1>4, <1>5, <1>6 DEF TxRings
<1>8. Rising(q)
  BY <1>2 DEF TxOrder
<1>9. /\ k + 1 \in 1..Len(q) /\ k + 1 \in 0..NumTx
      /\ tx.desc[tx.card].pkt = q[k + 1] /\ wire < q[k + 1]
      /\ TxRing(tx', q, k + 1, q[k + 1])
  <2>1. tx'.desc = [tx.desc EXCEPT ![tx.card].own = FALSE]
    BY <1>7 DEF e
  <2> DEFINE t == tx'
  <2>2. /\ t.prod = tx.prod /\ t.cons = tx.cons /\ t.card = (tx.card + 1) % NumTx
        /\ t.desc = [tx.desc EXCEPT ![tx.card].own = FALSE]
    BY <1>7, <2>1
  <2>3. tx \in TxRings /\ q \in Seq(Nat) /\ tx.desc[tx.card].own
    BY <1>1, <1>2
  <2> HIDE DEF t, q
  <2>4. /\ k + 1 \in 1..Len(q) /\ k + 1 \in 0..NumTx
        /\ tx.desc[tx.card].pkt = q[k + 1] /\ wire < q[k + 1]
        /\ TxRing(t, q, k + 1, q[k + 1])
    BY Zenon, <1>3, <1>8, <2>2, <2>3, DoneRing
  <2> QED
    BY <2>4 DEF t
<1>10. wire' = q[k + 1] /\ wire < wire' /\ wire' \in 0..sent
  BY <1>1, <1>2, <1>9 DEF TxOrder
<1>11. TxOrder(q, d, sent, wire')
  BY Zenon, <1>2, <1>9, <1>10 DEF TxOrder
<1>12. \E j \in 0..NumTx : TxRing(tx', q, j, wire')
  BY <1>9, <1>10, Zenon
<1>13. D!TxNow' \in TxState
  BY <1>1, <1>2, <1>7 DEF TxState, D!TxNow
<1>14. TxInv(D!TxNow, sent, wire)'
  <2>1. D!TxNow'.netdev = netdev /\ D!TxNow'.tx = tx' /\ D!TxNow'.fate = fate
    BY <1>1, TxNowFields
  <2> QED
    BY <1>1, <1>2, <1>10, <1>11, <1>12, <1>13, <2>1, Zenon DEF TxInv
<1> QED
  BY <1>1, <1>2, <1>10, <1>14

(* Nothing is queued and the ring is new *)
LEMMA TxEmpty ==
  ASSUME D!NetDeviceAssumption, NEW T \in TxState, NEW s \in 0..MaxTx, NEW w \in 0..s,
         T.tx = D!TxReset, T.netdev.tx_queue = <<>>, T.netdev.tx_deferred = <<>>,
         \A p \in 1..MaxTx : T.fate[p] # "held"
  PROVE  TxInv(T, s, w)
<1> DEFINE e == <<>>
<1>1. Len(e) = 0 /\ DOMAIN e = {} /\ 1..0 = {}
  OBVIOUS
<1>2. TxRing(D!TxReset, e, 0, w)
  <2>1. Owned(D!TxReset, NumTx) = {}
    BY DEF Owned, D!TxReset
  <2>2. RingOf(D!TxReset, 0, 0, NumTx)
    BY Zenon, <2>1, DeviceConst, RingReset DEF RingOf, D!TxReset
  <2> QED
    BY SMTT(30), <1>1, <2>2 DEF TxRing
<1>3. TxOrder(e, e, s, w)
  BY <1>1 DEF TxOrder, Rising
<1>4. TxHeld(T.fate, e, e)
  BY <1>1 DEF TxHeld, In
<1>5. 0 \in 0..NumTx
  BY DeviceConst
<1> HIDE DEF e
<1>6. T.netdev.tx_queue = e /\ T.netdev.tx_deferred = e
  BY DEF e
<1>7. e = <<>>
  BY DEF e
<1> QED
  BY <1>2, <1>3, <1>4, <1>5, <1>6, <1>7, Zenon DEF TxInv

LEMMA ResetTyped ==
  ASSUME D!NetDeviceAssumption
  PROVE  D!TxReset \in TxRings /\ D!RxReset \in RxRings
  BY DeviceConst DEF D!TxReset, D!RxReset, TxRings, RxRings, TxDesc, RxDesc

LEMMA OpenTxKeeps ==
  ASSUME D!NetDeviceAssumption, TxInv(D!TxNow, sent, wire), D!netdev_open
  PROVE  /\ TxInv(D!TxNow, sent, wire)' /\ netdev'.rx_queue = netdev.rx_queue
         /\ wire' = wire /\ got' = got /\ passed' = passed
<1>1. /\ ~netdev.open /\ netdev' = [netdev EXCEPT !.open = TRUE] /\ tx' = D!TxReset
      /\ sent' = sent /\ fate' = fate /\ wire' = wire /\ got' = got /\ passed' = passed
  BY DEF D!netdev_open
<1>2. /\ sent \in 0..MaxTx /\ wire \in 0..sent /\ netdev \in Device
      /\ fate \in [1..MaxTx -> Fates]
      /\ TxHeld(fate, netdev.tx_queue, netdev.tx_deferred)
      /\ netdev.tx_deferred # <<>> => Len(netdev.tx_queue) = NumTx
      /\ ~netdev.open => netdev.tx_queue = <<>>
  BY TxParts, TxNowFields
<1>3. netdev.tx_queue = <<>> /\ netdev.tx_deferred = <<>>
  BY SMTT(30), <1>1, <1>2, DeviceConst
<1>4. \A p \in 1..MaxTx : fate[p] # "held"
  BY <1>2, <1>3 DEF TxHeld, In
<1>5. /\ netdev' \in Device /\ netdev'.tx_queue = <<>> /\ netdev'.tx_deferred = <<>>
      /\ netdev'.rx_queue = netdev.rx_queue
  BY Zenon, <1>1, <1>2, <1>3 DEF Device
<1>6. D!TxNow' \in TxState
  BY <1>1, <1>2, <1>5, ResetTyped DEF TxState, D!TxNow
<1>7. TxInv(D!TxNow', sent, wire)
  <2> DEFINE T == D!TxNow'
  <2>1. /\ T \in TxState /\ T.tx = D!TxReset
        /\ T.netdev.tx_queue = <<>> /\ T.netdev.tx_deferred = <<>>
        /\ \A p \in 1..MaxTx : T.fate[p] # "held"
    BY <1>1, <1>4, <1>5, <1>6, TxNowFields
  <2> HIDE DEF T
  <2>2. TxInv(T, sent, wire)
    BY <1>2, <2>1, TxEmpty, Zenon
  <2> QED
    BY <2>2 DEF T
<1> QED
  BY <1>1, <1>5, <1>7

LEMMA CloseTxKeeps ==
  ASSUME D!NetDeviceAssumption, TxInv(D!TxNow, sent, wire), D!netdev_close
  PROVE  /\ TxInv(D!TxNow, sent, wire)' /\ netdev'.rx_queue = <<>>
         /\ rx' = D!RxReset /\ wire' = wire /\ got' = got /\ passed' = passed
<1> DEFINE A == [D!TxNow EXCEPT !.netdev.open = FALSE, !.tx = D!TxReset]
           B == D!netdev_tx_flush(A)
           R == [B EXCEPT !.netdev.rx_queue = <<>>]
           q == netdev.tx_queue
           d == netdev.tx_deferred
<1>1. /\ D!TxBecome(R) /\ rx' = D!RxReset
      /\ sent' = sent /\ wire' = wire /\ got' = got /\ passed' = passed
  BY DEF D!netdev_close
<1>2. /\ D!TxNow \in TxState
      /\ sent \in 0..MaxTx /\ wire \in 0..sent /\ netdev \in Device
      /\ fate \in [1..MaxTx -> Fates]
      /\ TxHeld(fate, q, d)
      /\ d # <<>> => Len(q) = NumTx
  BY Zenon, TxParts, TxNowFields
<1>3. /\ A \in TxState /\ A.tx = D!TxReset /\ A.fate = fate
      /\ A.netdev.tx_queue = q /\ A.netdev.tx_deferred = d
  <2> DEFINE N == [netdev EXCEPT !.open = FALSE]
  <2>1. N \in Device /\ N.tx_queue = q /\ N.tx_deferred = d
    <3>1. FALSE \in BOOLEAN
      OBVIOUS
    <3> QED
      BY Zenon, <1>2, <3>1 DEF Device
  <2>2. A = [D!TxNow EXCEPT !.netdev = N, !.tx = D!TxReset]
    BY <1>2, TxNowFields DEF TxState
  <2> HIDE DEF N, A
  <2> QED
    BY Zenon, <1>2, <2>1, <2>2, ResetTyped, TxNowFields DEF TxState
<1> HIDE DEF A
<1>4. /\ B \in TxState /\ B.tx = D!TxReset
      /\ B.netdev.tx_queue = <<>> /\ B.netdev.tx_deferred = <<>>
      /\ \A p \in 1..MaxTx : B.fate[p] # "held"
  <2>1. CASE q = <<>>
    <3>1. d = <<>>
      BY <1>2, <2>1, DeviceConst
    <3>2. B = A
      BY <1>3, <2>1 DEF D!netdev_tx_flush
    <3>3. \A p \in 1..MaxTx : fate[p] # "held"
      BY <1>2, <2>1, <3>1 DEF TxHeld, In
    <3> HIDE DEF B
    <3> QED
      BY <1>3, <2>1, <3>1, <3>2, <3>3
  <2>2. CASE q # <<>>
    <3> DEFINE S == D!Range(q) \cup D!Range(d)
               G == D!Discard(A, S, "error")
    <3>1. B = [G EXCEPT !.netdev.tx_queue = <<>>, !.netdev.tx_deferred = <<>>]
      BY <1>3, <2>2, Zenon DEF D!netdev_tx_flush
    <3>2. /\ G \in TxState /\ G.netdev = A.netdev /\ G.tx = A.tx
          /\ \A x \in 1..MaxTx : G.fate[x] = IF x \in S THEN "error" ELSE A.fate[x]
      BY <1>3, Discarded DEF Fates
    <3>3. \A x \in 1..MaxTx : x \notin S => fate[x] # "held"
      BY <1>2, InRange, Zenon DEF TxHeld
    <3>4. \A x \in 1..MaxTx : G.fate[x] # "held"
      BY <1>3, <3>2, <3>3
    <3> HIDE DEF G, B, S
    <3> DEFINE M == [G.netdev EXCEPT !.tx_queue = <<>>, !.tx_deferred = <<>>]
    <3>5. M \in Device /\ M.tx_queue = <<>> /\ M.tx_deferred = <<>>
      <4>1. G.netdev \in Device
        BY <3>2 DEF TxState
      <4>2. <<>> \in Seq(Nat)
        OBVIOUS
      <4> QED
        BY Zenon, <4>1, <4>2 DEF Device
    <3>6. B = [G EXCEPT !.netdev = M]
      BY Zenon, <3>1, <3>2 DEF TxState
    <3> HIDE DEF M
    <3> QED
      BY <1>3, <3>2, <3>4, <3>5, <3>6 DEF TxState
  <2> QED
    BY <2>1, <2>2
<1> HIDE DEF B
<1>5. /\ R \in TxState /\ R.tx = D!TxReset /\ R.fate = B.fate
      /\ R.netdev.tx_queue = <<>> /\ R.netdev.tx_deferred = <<>>
      /\ R.netdev.rx_queue = <<>>
  <2> DEFINE M == [B.netdev EXCEPT !.rx_queue = <<>>]
  <2>1. /\ M \in Device /\ M.tx_queue = <<>> /\ M.tx_deferred = <<>>
        /\ M.rx_queue = <<>>
    BY SMTT(30), <1>4 DEF TxState, Device
  <2>2. R = [B EXCEPT !.netdev = M]
    BY <1>4 DEF TxState
  <2> HIDE DEF M, R
  <2> QED
    BY <1>4, <2>1, <2>2 DEF TxState
<1> HIDE DEF R
<1>6. TxInv(R, sent, wire)
  BY <1>2, <1>4, <1>5, TxEmpty
<1>7. D!TxNow' = R
  BY <1>1, <1>5, TxBecomes
<1> QED
  BY <1>1, <1>5, <1>6, <1>7, TxNowFields

-----------------------------------------------------------------------------
(* The receive ring *)

LEMMA PacketsKept ==
  ASSUME NEW r, NEW t, NEW k, NEW q, NEW g, NEW l, RxPackets(r, k, q, g, l),
         t.cons = r.cons,
         \A j \in 0..(k - 1) : t.desc[Slot(r.cons, j, NumRx)].pkt
                              = r.desc[Slot(r.cons, j, NumRx)].pkt
  PROVE  RxPackets(t, k, q, g, l)
  BY Zenon DEF RxPackets

LEMMA ResetRing ==
  ASSUME D!NetDeviceAssumption, NEW q, NEW g, NEW l
  PROVE  RxRing(D!RxReset, 0, 0, q, g, l)
<1>1. /\ D!RxReset.prod = 0 /\ D!RxReset.cons = 0 /\ D!RxReset.card = 0
      /\ \A i \in 0..(NumRx - 1) :
           ~D!RxReset.desc[i].own /\ ~D!RxReset.desc[i].iobuf
  BY DEF D!RxReset
<1>2. Owned(D!RxReset, NumRx) = {} /\ 0..(0 - 1) = {}
  BY SMTT(30), <1>1 DEF Owned
<1>3. RingOf(D!RxReset, 0, 0, NumRx)
  BY <1>1, <1>2, DeviceConst, RingReset DEF RingOf
<1>4. RxBuffers(D!RxReset, 0)
  BY <1>1, <1>2 DEF RxBuffers
<1>5. RxPackets(D!RxReset, 0, q, g, l)
  BY <1>2 DEF RxPackets
<1> QED
  BY <1>3, <1>4, <1>5 DEF RxRing

LEMMA RxRingLength ==
  ASSUME D!NetDeviceAssumption, NEW r, NEW n, NEW k, NEW q, NEW g, NEW l,
         RxRing(r, n, k, q, g, l)
  PROVE  D!Used(r) = n
<1>1. (r.prod - r.cons) % Wrap = n
  BY DeviceConst, RingUsed DEF RxRing, RingOf
<1> QED
  BY SMTT(30), <1>1 DEF D!Used

LEMMA RefillRing ==
  ASSUME D!NetDeviceAssumption, NEW r \in RxRings, NEW n, NEW k, NEW q, NEW g, NEW l,
         RxRing(r, n, k, q, g, l), NEW m \in 0..(NumRx - n),
         NEW t, t = D!realtek_refill_rx(r, m)
  PROVE  /\ t \in RxRings /\ n + m \in 0..NumRx /\ k \in 0..NumRx
         /\ RxRing(t, n + m, k, q, g, l)
<1> DEFINE c == r.cons
           p == r.prod
           O == Owned(r, NumRx)
           filled == {Slot(p, j, NumRx) : j \in 0..(m - 1)}
           new == [own |-> TRUE, pkt |-> 0, iobuf |-> TRUE]
           e == [i \in 0..(NumRx - 1) |-> IF i \in filled THEN new ELSE r.desc[i]]
<1>1. /\ NumRx \in Nat /\ NumRx > 0 /\ Wrap \in Nat /\ Wrap > NumRx
      /\ RingConst(NumRx, Wrap)
  BY DeviceConst
<1>2. Ring(p, c, r.card, O, n, k, NumRx, Wrap)
  BY SMTT(30) DEF RxRing, RingOf
<1>3. /\ p \in Int /\ c \in Int /\ p \in Nat /\ n \in 0..NumRx /\ k \in 0..n
      /\ r.card \in Nat /\ r.desc \in [0..(NumRx - 1) -> RxDesc]
  BY <1>1, <1>2 DEF Ring, RxRings
<1>4. n + m \in 0..NumRx /\ k \in 0..NumRx /\ m \in Nat
  BY <1>1, <1>3
<1>5. /\ Ring((p + m) % Wrap, c, r.card, O \cup filled, n + m, k, NumRx, Wrap)
      /\ \A j \in 0..(m - 1) : Slot(p, j, NumRx) = Slot(c, n + j, NumRx)
  BY <1>1, <1>2, RingFill
<1>6. t = [r EXCEPT !.prod = (p + m) % Wrap, !.desc = e]
  <2>1. DOMAIN r.desc = 0..(NumRx - 1)
    BY Zenon, <1>3
  <2>2. filled = {(r.prod + j) % NumRx : j \in 0..(m - 1)}
    BY Zenon DEF Slot
  <2> QED
    BY Zenon, <2>1, <2>2 DEF D!realtek_refill_rx, RxRings
<1>7. e \in [0..(NumRx - 1) -> RxDesc]
  <2>1. new \in RxDesc
    BY DEF RxDesc
  <2> HIDE DEF new, filled
  <2> QED
    BY Zenon, <1>3, <2>1
<1>8. \A i \in 0..(NumRx - 1) : e[i] = IF i \in filled THEN new ELSE r.desc[i]
  BY ZenonT(40)
<1>9. (p + m) % Wrap \in Nat
  <2> DEFINE x == (p + m) % Wrap
  <2>1. x \in 0..(Wrap - 1)
    BY Zenon, <1>5 DEF Ring
  <2> HIDE DEF x
  <2>2. x \in Nat
    BY <2>1
  <2> QED
    BY Zenon, <2>2 DEF x
<1> HIDE DEF e
<1>10. /\ t \in RxRings /\ t.prod = (p + m) % Wrap /\ t.cons = c /\ t.card = r.card
       /\ t.desc = e
  BY Zenon, <1>6, <1>7, <1>9 DEF RxRings
<1>11. /\ \A i \in filled : e[i].own /\ e[i].iobuf
       /\ \A i \in (0..(NumRx - 1)) \ filled : e[i] = r.desc[i]
       /\ filled \subseteq 0..(NumRx - 1)
  <2>1. filled \subseteq 0..(NumRx - 1)
    <3>1. \A j \in 0..(m - 1) : j \in Int
      OBVIOUS
    <3> QED
      BY Zenon, <1>1, <1>3, <3>1, SlotIn
  <2>2. new.own /\ new.iobuf
    OBVIOUS
  <2> HIDE DEF new, filled
  <2> QED
    BY <1>8, <2>1, <2>2, Zenon
<1>12. Owned(t, NumRx) = O \cup filled
  <2> HIDE DEF filled
  <2> QED
    BY Zenon, <1>10, <1>11 DEF Owned
<1>13. RxBuffers(t, n + m)
  <2> SUFFICES ASSUME NEW i \in 0..(NumRx - 1)
               PROVE  e[i].iobuf <=> \E j \in 0..((n + m) - 1) : i = Slot(c, j, NumRx)
    BY Zenon, <1>10 DEF RxBuffers
  <2>1. r.desc[i].iobuf <=> \E j \in 0..(n - 1) : i = Slot(c, j, NumRx)
    BY Zenon DEF RxRing, RxBuffers
  <2>2. i \in filled => e[i].iobuf /\ \E j \in 0..((n + m) - 1) : i = Slot(c, j, NumRx)
    <3> SUFFICES ASSUME i \in filled
                 PROVE  \E j \in 0..((n + m) - 1) : i = Slot(c, j, NumRx)
      BY SMTT(30), <1>11
    <3>1. PICK j \in 0..(m - 1) : i = Slot(p, j, NumRx)
      OBVIOUS
    <3>2. n + j \in 0..((n + m) - 1)
      BY <1>3, <1>4
    <3>3. i = Slot(c, n + j, NumRx)
      BY <1>5, <3>1, Zenon
    <3> QED
      BY <3>2, <3>3, ZenonT(40)
  <2>3. ASSUME i \notin filled
        PROVE  e[i].iobuf <=> \E j \in 0..((n + m) - 1) : i = Slot(c, j, NumRx)
    <3>1. e[i] = r.desc[i]
      BY <1>11, <2>3, Zenon
    <3>2. ASSUME NEW j \in 0..((n + m) - 1), i = Slot(c, j, NumRx)
          PROVE  j \in 0..(n - 1)
      <4> SUFFICES ASSUME j \notin 0..(n - 1) PROVE FALSE
        OBVIOUS
      <4>1. j - n \in 0..(m - 1) /\ n + (j - n) = j
        BY <1>3, <1>4
      <4>2. i = Slot(p, j - n, NumRx)
        BY Zenon, <1>5, <3>2, <4>1
      <4> QED
        BY Zenon, <2>3, <4>1, <4>2
    <3>3. \A j \in 0..(n - 1) : j \in 0..((n + m) - 1)
      BY <1>3, <1>4
    <3> QED
      BY <2>1, <3>1, <3>2, <3>3, Zenon
  <2> QED
    BY <2>2, <2>3, Zenon
<1>14. RxPackets(t, k, q, g, l)
  <2>1. ASSUME NEW j \in 0..(k - 1)
        PROVE  t.desc[Slot(c, j, NumRx)].pkt = r.desc[Slot(c, j, NumRx)].pkt
    <3>1. Slot(c, j, NumRx) \in 0..(NumRx - 1)
      <4>1. j \in Int
        OBVIOUS
      <4> QED
        BY <1>1, <1>3, <4>1, SlotIn, Zenon
    <3>2. Slot(c, j, NumRx) \notin filled
      <4> SUFFICES ASSUME NEW i \in 0..(m - 1), Slot(c, j, NumRx) = Slot(p, i, NumRx)
                   PROVE  FALSE
        OBVIOUS
      <4>1. Slot(c, j, NumRx) = Slot(c, n + i, NumRx)
        BY SMTT(30), <1>5
      <4>2. j \in 0..(NumRx - 1) /\ n + i \in 0..(NumRx - 1) /\ j # n + i
        BY <1>1, <1>3, <1>4
      <4> QED
        BY Zenon, <1>1, <1>3, <4>1, <4>2, SlotsApart
    <3> QED
      BY <1>10, <1>11, <3>1, <3>2, Zenon
  <2>2. RxPackets(r, k, q, g, l)
    BY DEF RxRing
  <2> QED
    BY <1>10, <2>1, <2>2, PacketsKept
<1>15. RingOf(t, n + m, k, NumRx)
  BY <1>5, <1>10, <1>12 DEF RingOf
<1> QED
  BY <1>4, <1>10, <1>13, <1>14, <1>15 DEF RxRing

(* The driver takes the oldest descriptor; its packet comes after those of *)
(* the receive queue                                                       *)
LEMMA TakeRxRing ==
  ASSUME D!NetDeviceAssumption, NEW r \in RxRings, NEW n, NEW k, NEW q, NEW g, NEW l,
         RxRing(r, n, k, q, g, l), r.prod # r.cons, ~r.desc[r.cons % NumRx].own,
         NEW t, NEW x, x = r.desc[r.cons % NumRx].pkt,
         t = [r EXCEPT !.cons = (r.cons + 1) % Wrap, !.desc[r.cons % NumRx].iobuf = FALSE]
  PROVE  /\ t \in RxRings /\ n - 1 \in 0..NumRx /\ k - 1 \in 0..NumRx
         /\ RingOf(t, n - 1, k - 1, NumRx) /\ RxBuffers(t, n - 1)
         /\ RxPackets(t, k - 1, q, g, l)
         /\ x \in (l + 1)..g /\ \A i \in DOMAIN q : q[i] < x
         /\ \A j \in 0..((k - 1) - 1) : x < t.desc[Slot(t.cons, j, NumRx)].pkt
<1> DEFINE c == r.cons
           i0 == c % NumRx
           O == Owned(r, NumRx)
           e == [r.desc EXCEPT ![i0].iobuf = FALSE]
<1>1. /\ NumRx \in Nat /\ NumRx > 0 /\ Wrap \in Nat /\ Wrap > NumRx
      /\ RingConst(NumRx, Wrap)
  BY DeviceConst
<1>2. Ring(r.prod, c, r.card, O, n, k, NumRx, Wrap)
  BY DEF RxRing, RingOf
<1>3. i0 \notin O
  BY DEF Owned
<1>4. /\ n >= 1 /\ k >= 1
      /\ Ring(r.prod, (c + 1) % Wrap, r.card, O, n - 1, k - 1, NumRx, Wrap)
      /\ \A j \in Int : Slot((c + 1) % Wrap, j, NumRx) = Slot(c, j + 1, NumRx)
  BY <1>1, <1>2, <1>3, RingTake
<1>5. /\ n \in 0..NumRx /\ k \in 0..n /\ c \in Int
      /\ r.desc \in [0..(NumRx - 1) -> RxDesc]
  BY <1>1, <1>2 DEF Ring, RxRings
<1>6. n - 1 \in 0..NumRx /\ k - 1 \in 0..NumRx /\ n \in Int /\ k \in Int
  <2>1. n >= 1 /\ k >= 1
    BY <1>4
  <2>2. NumRx \in Nat /\ n \in 0..NumRx /\ k \in 0..n
    BY <1>1, <1>5
  <2> QED
    BY <2>1, <2>2
<1>7. i0 = Slot(c, 0, NumRx) /\ i0 \in 0..(NumRx - 1)
  <2>1. i0 = Slot(c, 0, NumRx)
    BY <1>1, <1>2, RingUsed
  <2> QED
    BY <1>1, <1>5, <2>1, SlotIn
<1>8. /\ e \in [0..(NumRx - 1) -> RxDesc] /\ e[i0].iobuf = FALSE
      /\ \A i \in 0..(NumRx - 1) : e[i].own = r.desc[i].own /\ e[i].pkt = r.desc[i].pkt
      /\ \A i \in 0..(NumRx - 1) : i # i0 => e[i].iobuf = r.desc[i].iobuf
  <2> DEFINE f == [r.desc[i0] EXCEPT !.iobuf = FALSE]
  <2>1. r.desc[i0] \in RxDesc
    BY Zenon, <1>5, <1>7
  <2>2. f \in RxDesc /\ f.iobuf = FALSE /\ f.own = r.desc[i0].own /\ f.pkt = r.desc[i0].pkt
    BY Zenon, <2>1 DEF RxDesc
  <2> HIDE DEF f, i0
  <2>3. e = [r.desc EXCEPT ![i0] = f]
    BY DEF f
  <2>4. /\ e \in [0..(NumRx - 1) -> RxDesc] /\ e[i0] = f
        /\ \A i \in 0..(NumRx - 1) : i # i0 => e[i] = r.desc[i]
    BY Zenon, <1>5, <1>7, <2>2, <2>3
  <2> HIDE DEF e
  <2> QED
    BY <2>2, <2>4, Zenon
<1>9. t = [r EXCEPT !.cons = (c + 1) % Wrap, !.desc = e]
  BY DEF RxRings
<1>10. (c + 1) % Wrap \in Nat
  BY <1>1, <1>4 DEF Ring
<1> HIDE DEF e, i0
<1>11. /\ t \in RxRings /\ t.prod = r.prod /\ t.cons = (c + 1) % Wrap
       /\ t.card = r.card /\ t.desc = e
  BY Zenon, <1>8, <1>9, <1>10 DEF RxRings
<1>12. RingOf(t, n - 1, k - 1, NumRx)
  <2>1. Owned(t, NumRx) = O
    BY Zenon, <1>8, <1>11 DEF Owned
  <2> QED
    BY <1>4, <1>11, <2>1 DEF RingOf
<1>13. RxBuffers(t, n - 1)
  <2> SUFFICES ASSUME NEW i \in 0..(NumRx - 1)
               PROVE  e[i].iobuf <=> \E j \in 0..((n - 1) - 1) : i = Slot(t.cons, j, NumRx)
    BY Zenon, <1>11 DEF RxBuffers
  <2>1. r.desc[i].iobuf <=> \E j \in 0..(n - 1) : i = Slot(c, j, NumRx)
    BY DEF RxRing, RxBuffers
  <2>2. \A j \in 0..((n - 1) - 1) :
          /\ j + 1 \in 0..(n - 1) /\ j + 1 \in 0..(NumRx - 1) /\ j + 1 # 0
          /\ Slot(t.cons, j, NumRx) = Slot(c, j + 1, NumRx)
    <3> TAKE j \in 0..((n - 1) - 1)
    <3>1. NumRx \in Nat /\ n \in 0..NumRx /\ j \in Int
      BY <1>1, <1>5
    <3>2. j + 1 \in 0..(n - 1) /\ j + 1 \in 0..(NumRx - 1) /\ j + 1 # 0
      BY <3>1
    <3>3. Slot(t.cons, j, NumRx) = Slot(c, j + 1, NumRx)
      BY <1>4, <1>11, <3>1, Zenon
    <3> QED
      BY SMTT(30), <3>2, <3>3
  <2>3. CASE i = i0
    <3> SUFFICES ASSUME NEW j \in 0..((n - 1) - 1), i = Slot(t.cons, j, NumRx)
                 PROVE  FALSE
      BY <1>8, <2>3
    <3>1. Slot(c, 0, NumRx) = Slot(c, j + 1, NumRx)
      BY <1>7, <2>2, <2>3
    <3>2. 0 \in 0..(NumRx - 1) /\ j + 1 \in 0..(NumRx - 1) /\ 0 # j + 1
      BY <1>1, <2>2
    <3> QED
      BY Zenon, <1>1, <1>5, <3>1, <3>2, SlotsApart
  <2>4. CASE i # i0
    <3>1. ASSUME NEW j \in 0..(n - 1), i = Slot(c, j, NumRx)
          PROVE  j - 1 \in 0..((n - 1) - 1) /\ i = Slot(t.cons, j - 1, NumRx)
      <4>1. j # 0
        BY <1>7, <2>4, <3>1
      <4>2. j - 1 \in 0..((n - 1) - 1) /\ (j - 1) + 1 = j
        BY <1>6, <4>1
      <4> QED
        BY <2>2, <3>1, <4>2
    <3>2. e[i].iobuf = r.desc[i].iobuf
      BY <1>8, <2>4
    <3> QED
      BY <2>1, <2>2, <3>1, <3>2, Zenon
  <2> QED
    BY <2>3, <2>4
<1>14. RxPackets(r, k, q, g, l)
  BY SMTT(30) DEF RxRing
<1>15. ASSUME NEW j \in 0..((k - 1) - 1)
       PROVE  /\ j + 1 \in 0..(k - 1)
              /\ t.desc[Slot(t.cons, j, NumRx)].pkt = r.desc[Slot(c, j + 1, NumRx)].pkt
  <2>1. j + 1 \in 0..(k - 1) /\ j \in Int /\ j + 1 \in Int
    BY <1>4, <1>6
  <2>2. Slot(t.cons, j, NumRx) = Slot(c, j + 1, NumRx)
    BY <1>4, <1>11, <2>1
  <2>3. Slot(c, j + 1, NumRx) \in 0..(NumRx - 1)
    BY <1>1, <1>5, <2>1, SlotIn
  <2> QED
    BY <1>8, <1>11, <2>1, <2>2, <2>3
<1>16. RxPackets(t, k - 1, q, g, l)
  <2>1. ASSUME NEW j \in 0..((k - 1) - 1)
        PROVE  /\ t.desc[Slot(t.cons, j, NumRx)].pkt \in (l + 1)..g
               /\ \A i \in DOMAIN q : q[i] < t.desc[Slot(t.cons, j, NumRx)].pkt
    BY <1>14, <1>15, Zenon DEF RxPackets
  <2>2. ASSUME NEW i \in 0..((k - 1) - 1), NEW j \in 0..((k - 1) - 1), i < j
        PROVE  t.desc[Slot(t.cons, i, NumRx)].pkt < t.desc[Slot(t.cons, j, NumRx)].pkt
    <3>1. i + 1 < j + 1
      BY <2>2
    <3> QED
      BY <1>14, <1>15, <3>1, Zenon DEF RxPackets
  <2> QED
    BY <2>1, <2>2, Zenon DEF RxPackets
<1>17. x \in (l + 1)..g /\ \A i \in DOMAIN q : q[i] < x
  <2>1. 0 \in 0..(k - 1) /\ x = r.desc[Slot(c, 0, NumRx)].pkt
    BY <1>4, <1>6, <1>7 DEF i0
  <2> QED
    BY <1>14, <2>1, Zenon DEF RxPackets
<1>18. ASSUME NEW j \in 0..((k - 1) - 1)
       PROVE  x < t.desc[Slot(t.cons, j, NumRx)].pkt
  <2>1. 0 \in 0..(k - 1) /\ x = r.desc[Slot(c, 0, NumRx)].pkt /\ 0 < j + 1
    BY <1>4, <1>6, <1>7 DEF i0
  <2> QED
    BY <1>14, <1>15, <2>1, Zenon DEF RxPackets
<1> QED
  BY Zenon, <1>6, <1>11, <1>12, <1>13, <1>16, <1>17, <1>18

(* The card puts a packet into the next descriptor it owns *)
LEMMA DoneRxRing ==
  ASSUME D!NetDeviceAssumption, NEW r \in RxRings, NEW n, NEW k, NEW q, NEW g \in Nat,
         NEW l \in 0..g, RxRing(r, n, k, q, g, l), r.desc[r.card].own,
         \A i \in DOMAIN q : q[i] \in (l + 1)..g,
         NEW t, t = [r EXCEPT !.desc[r.card] = [own |-> FALSE, pkt |-> g + 1, iobuf |-> TRUE],
                              !.card = (r.card + 1) % NumRx]
  PROVE  /\ t \in RxRings /\ n \in 0..NumRx /\ k + 1 \in 0..NumRx
         /\ RxRing(t, n, k + 1, q, g + 1, l)
<1> DEFINE c == r.cons
           a == r.card
           O == Owned(r, NumRx)
           f == [own |-> FALSE, pkt |-> g + 1, iobuf |-> TRUE]
           e == [r.desc EXCEPT ![a] = f]
<1>1. /\ NumRx \in Nat /\ NumRx > 0 /\ Wrap \in Nat /\ Wrap > NumRx
      /\ RingConst(NumRx, Wrap)
  BY DeviceConst
<1>2. Ring(r.prod, c, a, O, n, k, NumRx, Wrap)
  BY DEF RxRing, RingOf
<1>3. /\ n \in 0..NumRx /\ k \in 0..n /\ c \in Int /\ a = Slot(c, k, NumRx)
      /\ r.desc \in [0..(NumRx - 1) -> RxDesc] /\ k \in Int
  BY <1>1, <1>2 DEF Ring, RxRings
<1>4. a \in 0..(NumRx - 1) /\ a \in O
  <2>1. a \in 0..(NumRx - 1)
    BY <1>1, <1>3, SlotIn
  <2> QED
    BY <2>1 DEF Owned
<1>5. /\ k < n
      /\ Ring(r.prod, c, (a + 1) % NumRx, O \ {a}, n, k + 1, NumRx, Wrap)
  BY Zenon, <1>1, <1>2, <1>4, RingDone
<1>6. k + 1 \in 0..NumRx /\ k \in 0..(n - 1) /\ (k + 1) - 1 = k
  <2>1. k < n /\ NumRx \in Nat /\ n \in 0..NumRx /\ k \in 0..n
    BY <1>1, <1>3, <1>5
  <2> QED
    BY <2>1
<1>7. f \in RxDesc /\ f.own = FALSE /\ f.iobuf = TRUE /\ f.pkt = g + 1
  BY DEF RxDesc
<1> HIDE DEF f
<1>8. /\ e \in [0..(NumRx - 1) -> RxDesc] /\ e[a] = f
      /\ \A i \in 0..(NumRx - 1) : i # a => e[i] = r.desc[i]
  BY Zenon, <1>3, <1>4, <1>7
<1>9. t = [r EXCEPT !.desc = e, !.card = (a + 1) % NumRx]
  BY DEF RxRings, f
<1>10. (a + 1) % NumRx \in Nat
  <2>1. a + 1 \in Int
    BY <1>4
  <2>2. (a + 1) % NumRx \in 0..(NumRx - 1)
    BY <1>1, <2>1, ModDiv, Zenon
  <2> QED
    BY <1>1, <2>2
<1> HIDE DEF e
<1>11. /\ t \in RxRings /\ t.prod = r.prod /\ t.cons = c
       /\ t.card = (a + 1) % NumRx /\ t.desc = e
  BY Zenon, <1>8, <1>9, <1>10 DEF RxRings
<1>12. RingOf(t, n, k + 1, NumRx)
  <2>1. Owned(t, NumRx) = O \ {a}
    BY Zenon, <1>4, <1>7, <1>8, <1>11 DEF Owned
  <2> QED
    BY Zenon, <1>5, <1>11, <2>1 DEF RingOf
<1>13. RxBuffers(t, n)
  <2>1. RxBuffers(r, n)
    BY DEF RxRing
  <2>2. r.desc[a].iobuf
    BY <1>3, <1>4, <1>6, <2>1, Zenon DEF RxBuffers
  <2>3. \A i \in 0..(NumRx - 1) : e[i].iobuf <=> r.desc[i].iobuf
    BY <1>7, <1>8, <2>2, Zenon
  <2> QED
    BY <1>11, <2>1, <2>3, Zenon DEF RxBuffers
<1>14. RxPackets(r, k, q, g, l)
  BY DEF RxRing
<1>15. ASSUME NEW j \in 0..(k - 1)
       PROVE  t.desc[Slot(c, j, NumRx)].pkt = r.desc[Slot(c, j, NumRx)].pkt
  <2>1. j \in 0..(NumRx - 1) /\ k \in 0..(NumRx - 1) /\ j # k /\ j \in Int
    BY SMTT(30), <1>1, <1>3, <1>6
  <2>2. Slot(c, j, NumRx) # a
    BY <1>1, <1>3, <2>1, SlotsApart, Zenon
  <2>3. Slot(c, j, NumRx) \in 0..(NumRx - 1)
    BY <1>1, <1>3, <2>1, SlotIn, Zenon
  <2> QED
    BY <1>8, <1>11, <2>2, <2>3
<1>16. t.desc[Slot(c, k, NumRx)].pkt = g + 1
  BY Zenon, <1>3, <1>7, <1>8, <1>11
<1>17. RxPackets(t, k + 1, q, g + 1, l)
  <2> DEFINE P(j) == t.desc[Slot(c, j, NumRx)].pkt
  <2>1. ASSUME NEW j \in 0..(k - 1)
        PROVE  P(j) \in (l + 1)..g /\ \A i \in DOMAIN q : q[i] < P(j)
    BY <1>14, <1>15, Zenon DEF RxPackets
  <2>2. P(k) = g + 1
    BY <1>16
  <2>3. ASSUME NEW i \in 0..(k - 1), NEW j \in 0..(k - 1), i < j PROVE P(i) < P(j)
    BY <1>14, <1>15, <2>3, Zenon DEF RxPackets
  <2> HIDE DEF P
  <2>4. \A j \in 0..((k + 1) - 1) : j \in 0..(k - 1) \/ j = k
    BY <1>3
  <2>5. ASSUME NEW j \in 0..((k + 1) - 1)
        PROVE  P(j) \in (l + 1)..(g + 1) /\ \A i \in DOMAIN q : q[i] < P(j)
    <3>1. CASE j = k
      <4>1. g + 1 \in (l + 1)..(g + 1)
        OBVIOUS
      <4>2. \A i \in DOMAIN q : q[i] < g + 1
        OBVIOUS
      <4> QED
        BY <2>2, <3>1, <4>1, <4>2, Zenon
    <3>2. CASE j \in 0..(k - 1)
      <4>1. P(j) \in (l + 1)..g /\ \A i \in DOMAIN q : q[i] < P(j)
        BY <2>1, <3>2, Zenon
      <4>2. \A u \in (l + 1)..g : u \in (l + 1)..(g + 1)
        OBVIOUS
      <4> QED
        BY <4>1, <4>2, Zenon
    <3> QED
      BY <2>4, <3>1, <3>2, Zenon
  <2>6. ASSUME NEW i \in 0..((k + 1) - 1), NEW j \in 0..((k + 1) - 1), i < j
        PROVE  P(i) < P(j)
    <3>1. i \in 0..(k - 1)
      BY <1>3, <2>6
    <3>2. CASE j = k
      <4>1. P(i) \in (l + 1)..g
        BY <2>1, <3>1
      <4>2. \A u \in (l + 1)..g : u < g + 1
        OBVIOUS
      <4> QED
        BY <2>2, <3>2, <4>1, <4>2, Zenon
    <3>3. CASE j \in 0..(k - 1)
      BY <2>3, <2>6, <3>1, <3>3, Zenon
    <3> QED
      BY <2>4, <3>2, <3>3, Zenon
  <2> QED
    BY <1>11, <2>5, <2>6, Zenon DEF RxPackets, P
<1> QED
  BY <1>3, <1>6, <1>11, <1>12, <1>13, <1>17 DEF RxRing

(* A packet that finds no descriptor is lost *)
LEMMA LostRxRing ==
  ASSUME NEW r, NEW n, NEW k, NEW q, NEW g \in Nat, NEW l \in 0..g,
         RxRing(r, n, k, q, g, l)
  PROVE  RxRing(r, n, k, q, g + 1, l)
<1>1. \A u \in (l + 1)..g : u \in (l + 1)..(g + 1)
  OBVIOUS
<1> QED
  BY <1>1, Zenon DEF RxRing, RxPackets

-----------------------------------------------------------------------------
(* The actions keep the receive part of the invariant *)

LEMMA PollRxKeeps ==
  ASSUME D!NetDeviceAssumption, RxInv(rx, netdev.rx_queue, got, passed),
         netdev \in Device, D!realtek_poll_rx
  PROVE  /\ RxInv(rx, netdev.rx_queue, got, passed)'
         /\ netdev' \in Device /\ netdev'.open = netdev.open
         /\ netdev'.tx_queue = netdev.tx_queue /\ netdev'.tx_deferred = netdev.tx_deferred
         /\ tx' = tx /\ fate' = fate /\ sent' = sent /\ wire' = wire
<1> DEFINE q == netdev.rx_queue
           i0 == rx.cons % NumRx
           x == rx.desc[i0].pkt
           e == Append(q, x)
<1>1. tx' = tx /\ fate' = fate /\ sent' = sent /\ wire' = wire /\ got' = got
      /\ passed' = passed
  BY DEF D!realtek_poll_rx
<1>2. CASE rx.cons = rx.prod \/ rx.desc[i0].own
  <2>1. netdev' = netdev /\ rx' = rx
    BY <1>2 DEF D!realtek_poll_rx
  <2> QED
    BY <1>1, <2>1
<1>3. CASE ~(rx.cons = rx.prod \/ rx.desc[i0].own)
  <2>1. /\ netdev' = [netdev EXCEPT !.rx_queue = e] \/ netdev' = netdev
        /\ rx' = [rx EXCEPT !.cons = (rx.cons + 1) % Wrap, !.desc[i0].iobuf = FALSE]
    BY <1>3 DEF D!realtek_poll_rx, D!Inc, Device
  <2>2. /\ rx \in RxRings /\ q \in Seq(Nat) /\ got \in Nat /\ passed \in 0..got
        /\ Rising(q) /\ \A i \in DOMAIN q : q[i] \in (passed + 1)..got
    BY DEF RxInv
  <2>3. PICK n \in 0..NumRx, k \in 0..NumRx : RxRing(rx, n, k, q, got, passed)
    BY Zenon DEF RxInv
  <2> DEFINE t == rx'
  <2>4. /\ rx.prod # rx.cons /\ ~rx.desc[i0].own /\ x = rx.desc[i0].pkt
        /\ t = [rx EXCEPT !.cons = (rx.cons + 1) % Wrap, !.desc[i0].iobuf = FALSE]
    BY <1>3, <2>1
  <2> HIDE DEF t, x, q
  <2>5. /\ t \in RxRings /\ n - 1 \in 0..NumRx /\ k - 1 \in 0..NumRx
        /\ RingOf(t, n - 1, k - 1, NumRx) /\ RxBuffers(t, n - 1)
        /\ RxPackets(t, k - 1, q, got, passed)
        /\ x \in (passed + 1)..got /\ \A i \in DOMAIN q : q[i] < x
        /\ \A j \in 0..((k - 1) - 1) : x < t.desc[Slot(t.cons, j, NumRx)].pkt
    BY ZenonT(40), <2>2, <2>3, <2>4, TakeRxRing
  <2>6. RxInv(t, q, got, passed)
    BY <2>2, <2>5, Zenon DEF RxInv, RxRing
  <2>7. x \in Nat
    BY <2>2, <2>5
  <2>8. /\ e \in Seq(Nat) /\ DOMAIN q = 1..Len(q) /\ Len(q) \in Nat
        /\ DOMAIN e = 1..(Len(q) + 1) /\ e[Len(q) + 1] = x
        /\ \A i \in 1..Len(q) : e[i] = q[i]
    BY SMTT(30), <2>2, <2>7, InAppended
  <2>9. Rising(e)
    BY <2>2, <2>5, <2>7, RisingAppend
  <2> DEFINE m == Len(q)
  <2>10. \A i \in DOMAIN e : (i \in DOMAIN q /\ e[i] = q[i]) \/ e[i] = x
    <3>1. \A i \in 1..(m + 1) : i \in 1..m \/ i = m + 1
      <4>1. m \in Nat
        BY <2>8
      <4> HIDE DEF m
      <4> QED
        BY <4>1
    <3> HIDE DEF e
    <3> QED
      BY <2>8, <3>1, Zenon
  <2> HIDE DEF e
  <2>11. RxInv(t, e, got, passed)
    <3>1. RxPackets(t, k - 1, e, got, passed)
      BY <2>5, <2>10, Zenon DEF RxPackets
    <3>2. \A i \in DOMAIN e : e[i] \in (passed + 1)..got
      BY <2>2, <2>5, <2>10, Zenon
    <3> QED
      BY <2>2, <2>5, <2>8, <2>9, <3>1, <3>2, Zenon DEF RxInv, RxRing
  <2>12. CASE netdev' = netdev
    BY <1>1, <2>6, <2>12 DEF t, q
  <2>13. CASE netdev' = [netdev EXCEPT !.rx_queue = e]
    <3>1. /\ netdev' \in Device /\ netdev'.open = netdev.open
          /\ netdev'.tx_queue = netdev.tx_queue
          /\ netdev'.tx_deferred = netdev.tx_deferred /\ netdev'.rx_queue = e
      BY Zenon, <2>8, <2>13 DEF Device
    <3> QED
      BY <1>1, <2>11, <3>1 DEF t
  <2> QED
    BY <2>1, <2>12, <2>13
<1> QED
  BY Zenon, <1>2, <1>3

(* A packet leaves the receive queue for the network layer *)
LEMMA HandedKeeps ==
  ASSUME RxInv(rx, netdev.rx_queue, got, passed), netdev \in Device,
         netdev.rx_queue # <<>>, passed' = Head(netdev.rx_queue),
         netdev' = [netdev EXCEPT !.rx_queue = Tail(@)], rx' = rx, got' = got
  PROVE  /\ RxInv(rx, netdev.rx_queue, got, passed)'
         /\ netdev' \in Device /\ netdev'.open = netdev.open
         /\ netdev'.tx_queue = netdev.tx_queue /\ netdev'.tx_deferred = netdev.tx_deferred
<1> DEFINE q == netdev.rx_queue
           u == Tail(q)
           h == Head(q)
<1>1. /\ rx \in RxRings /\ q \in Seq(Nat) /\ got \in Nat /\ passed \in 0..got
      /\ Rising(q) /\ \A i \in DOMAIN q : q[i] \in (passed + 1)..got
  BY DEF RxInv
<1>2. PICK n \in 0..NumRx, k \in 0..NumRx : RxRing(rx, n, k, q, got, passed)
  BY Zenon DEF RxInv
<1>3. /\ Rising(u) /\ u \in Seq(Nat) /\ h = q[1] /\ 1 \in DOMAIN q
      /\ \A i \in DOMAIN u : i + 1 \in DOMAIN q /\ u[i] = q[i + 1] /\ h < u[i]
  BY Zenon, <1>1, RisingTail
<1>4. /\ netdev' = [netdev EXCEPT !.rx_queue = u] /\ passed' = h /\ q # <<>>
  BY DEF Device
<1> HIDE DEF u, h
<1>5. /\ netdev' \in Device /\ netdev'.open = netdev.open
      /\ netdev'.tx_queue = netdev.tx_queue
      /\ netdev'.tx_deferred = netdev.tx_deferred /\ netdev'.rx_queue = u
  BY Zenon, <1>3, <1>4 DEF Device
<1> HIDE DEF q
<1>6. h \in (passed + 1)..got /\ h \in 0..got /\ h \in Int
  <2>1. h \in (passed + 1)..got
    BY <1>1, <1>3
  <2> QED
    BY <1>1, <2>1
<1>7. \A y \in (passed + 1)..got : h < y => y \in (h + 1)..got
  BY <1>1, <1>6
<1>8. \A i \in DOMAIN u : u[i] \in (h + 1)..got
  BY <1>1, <1>3, <1>7, Zenon
<1>9. RxPackets(rx, k, u, got, h)
  <2>1. RxPackets(rx, k, q, got, passed)
    BY <1>2 DEF RxRing
  <2>2. ASSUME NEW j \in 0..(k - 1)
        PROVE  /\ rx.desc[Slot(rx.cons, j, NumRx)].pkt \in (h + 1)..got
               /\ \A i \in DOMAIN u : u[i] < rx.desc[Slot(rx.cons, j, NumRx)].pkt
    BY <1>3, <1>7, <2>1, Zenon DEF RxPackets
  <2> QED
    BY <2>1, <2>2, Zenon DEF RxPackets
<1>10. RxInv(rx, u, got, h)
  BY <1>1, <1>2, <1>3, <1>6, <1>8, <1>9, Zenon DEF RxInv, RxRing
<1> QED
  BY Zenon, <1>4, <1>5, <1>10

LEMMA RefillKeeps ==
  ASSUME D!NetDeviceAssumption, RxInv(rx, netdev.rx_queue, got, passed), D!Refill
  PROVE  RxInv(rx, netdev.rx_queue, got, passed)'
<1> DEFINE q == netdev.rx_queue
<1>1. PICK m \in 0..(NumRx - D!Used(rx)) : rx' = D!realtek_refill_rx(rx, m)
  BY DEF D!Refill
<1>2. netdev' = netdev /\ got' = got /\ passed' = passed
  BY DEF D!Refill
<1>3. PICK n \in 0..NumRx, k \in 0..NumRx : RxRing(rx, n, k, q, got, passed)
  BY Zenon DEF RxInv
<1>4. D!Used(rx) = n
  BY <1>3, RxRingLength
<1> DEFINE t == rx'
<1>5. m \in 0..(NumRx - n) /\ t = D!realtek_refill_rx(rx, m) /\ rx \in RxRings
  BY <1>1, <1>4 DEF RxInv
<1> HIDE DEF t
<1>6. /\ t \in RxRings /\ n + m \in 0..NumRx /\ k \in 0..NumRx
      /\ RxRing(t, n + m, k, q, got, passed)
  BY <1>3, <1>5, RefillRing
<1>7. RxInv(t, q, got, passed)
  BY <1>6, Zenon DEF RxInv
<1> QED
  BY <1>2, <1>7 DEF t

LEMMA OpenRxKeeps ==
  ASSUME D!NetDeviceAssumption, RxInv(rx, netdev.rx_queue, got, passed),
         netdev'.rx_queue = netdev.rx_queue, D!netdev_open
  PROVE  RxInv(rx, netdev.rx_queue, got, passed)'
<1> DEFINE q == netdev.rx_queue
           t == rx'
<1>1. PICK m \in 0..NumRx : t = D!realtek_refill_rx(D!RxReset, m)
  BY DEF D!netdev_open
<1>2. got' = got /\ passed' = passed
  BY DEF D!netdev_open
<1>3. RxRing(D!RxReset, 0, 0, q, got, passed) /\ D!RxReset \in RxRings
  BY ResetRing, ResetTyped
<1>4. m \in 0..(NumRx - 0)
  BY DeviceConst
<1> HIDE DEF t
<1>5. /\ t \in RxRings /\ 0 + m \in 0..NumRx /\ 0 \in 0..NumRx
      /\ RxRing(t, 0 + m, 0, q, got, passed)
  BY <1>1, <1>3, <1>4, RefillRing
<1>6. RxInv(t, q, got, passed)
  BY <1>5, Zenon DEF RxInv
<1> QED
  BY <1>2, <1>6 DEF t

LEMMA CloseRxKeeps ==
  ASSUME D!NetDeviceAssumption, NEW g \in Nat, NEW l \in 0..g
  PROVE  RxInv(D!RxReset, <<>>, g, l)
<1> DEFINE e == <<>>
<1>1. e \in Seq(Nat) /\ DOMAIN e = {} /\ Rising(e)
  BY DEF Rising
<1>2. RxRing(D!RxReset, 0, 0, e, g, l) /\ D!RxReset \in RxRings /\ 0 \in 0..NumRx
  BY ResetRing, ResetTyped, DeviceConst
<1> HIDE DEF e
<1>3. RxInv(D!RxReset, e, g, l)
  BY <1>1, <1>2, Zenon DEF RxInv
<1> QED
  BY <1>3 DEF e

LEMMA CardRxKeeps ==
  ASSUME D!NetDeviceAssumption, RxInv(rx, netdev.rx_queue, got, passed), D!CardRx
  PROVE  RxInv(rx, netdev.rx_queue, got, passed)'
<1> DEFINE q == netdev.rx_queue
           t == rx'
<1>1. got' = got + 1 /\ netdev' = netdev /\ passed' = passed
  BY DEF D!CardRx
<1>2. /\ rx \in RxRings /\ q \in Seq(Nat) /\ got \in Nat /\ passed \in 0..got
      /\ Rising(q) /\ \A i \in DOMAIN q : q[i] \in (passed + 1)..got
  BY DEF RxInv
<1>3. PICK n \in 0..NumRx, k \in 0..NumRx : RxRing(rx, n, k, q, got, passed)
  BY Zenon DEF RxInv
<1>4. /\ got + 1 \in Nat /\ passed \in 0..(got + 1)
      /\ \A i \in DOMAIN q : q[i] \in (passed + 1)..(got + 1)
  BY <1>2
<1>5. \E i, j \in 0..NumRx : RxRing(t, i, j, q, got + 1, passed) /\ t \in RxRings
  <2>1. CASE rx.desc[rx.card].own
    <3>1. t = [rx EXCEPT !.desc[rx.card] = [own |-> FALSE, pkt |-> got + 1, iobuf |-> TRUE],
                         !.card = (rx.card + 1) % NumRx]
      BY <1>2, <2>1 DEF D!CardRx, RxRings
    <3> HIDE DEF t, q
    <3>2. /\ t \in RxRings /\ n \in 0..NumRx /\ k + 1 \in 0..NumRx
          /\ RxRing(t, n, k + 1, q, got + 1, passed)
      BY Zenon, <1>2, <1>3, <2>1, <3>1, DoneRxRing
    <3> QED
      BY <3>2, Zenon
  <2>2. CASE ~rx.desc[rx.card].own
    <3>1. t = rx
      BY <2>2 DEF D!CardRx
    <3> HIDE DEF t, q
    <3>2. RxRing(rx, n, k, q, got + 1, passed)
      BY <1>2, <1>3, LostRxRing
    <3> QED
      BY <1>2, <3>1, <3>2, Zenon
  <2> QED
    BY <2>1, <2>2
<1> HIDE DEF t
<1>6. RxInv(t, q, got + 1, passed)
  BY <1>2, <1>4, <1>5, Zenon DEF RxInv
<1> QED
  BY <1>1, <1>6 DEF t

-----------------------------------------------------------------------------
(* The invariant *)

LEMMA DeviceInit ==
  ASSUME D!NetDeviceAssumption, D!Init
  PROVE  DeviceInv
<1>1. /\ netdev = D!Closed /\ tx = D!TxReset /\ rx = D!RxReset
      /\ sent = 0 /\ fate = [p \in 1..MaxTx |-> "none"]
      /\ wire = 0 /\ got = 0 /\ passed = 0
  BY DEF D!Init
<1>2. /\ netdev \in Device /\ netdev.tx_queue = <<>> /\ netdev.tx_deferred = <<>>
      /\ netdev.rx_queue = <<>>
  BY <1>1 DEF D!Closed, Device
<1>3. fate \in [1..MaxTx -> Fates] /\ \A p \in 1..MaxTx : fate[p] # "held"
  BY SMTT(30), <1>1 DEF Fates
<1>4. D!TxNow \in TxState
  BY <1>1, <1>2, <1>3, ResetTyped DEF TxState, D!TxNow
<1>5. 0 \in 0..MaxTx /\ 0 \in 0..0 /\ 0 \in Nat
  BY DeviceConst
<1>6. TxInv(D!TxNow, 0, 0)
  BY Zenon, <1>1, <1>2, <1>3, <1>4, <1>5, TxNowFields, TxEmpty
<1>7. RxInv(D!RxReset, <<>>, 0, 0)
  BY <1>5, CloseRxKeeps
<1> QED
  BY <1>1, <1>2, <1>6, <1>7 DEF DeviceInv

LEMMA RxFrame ==
  ASSUME RxInv(rx, netdev.rx_queue, got, passed), rx' = rx, got' = got, passed' = passed,
         netdev'.rx_queue = netdev.rx_queue
  PROVE  RxInv(rx, netdev.rx_queue, got, passed)'
  OBVIOUS

(* One action at a time; the packet on the wire changes only when the card *)
(* transmits, and then to a later one                                      *)
LEMMA DeviceNext ==
  ASSUME D!NetDeviceAssumption, DeviceInv, [D!Next]_D!vars
  PROVE  DeviceInv' /\ (wire' = wire \/ wire' > wire) /\ (D!CardTx => wire' > wire)
<1>1. TxInv(D!TxNow, sent, wire) /\ RxInv(rx, netdev.rx_queue, got, passed)
  BY DEF DeviceInv
<1>2. netdev \in Device /\ wire \in Int /\ got \in Nat /\ passed \in 0..got
  <2>1. netdev \in Device /\ wire \in 0..sent
    BY Zenon, <1>1, TxParts, TxNowFields
  <2> QED
    BY <1>1, <2>1 DEF RxInv
<1>3. D!CardTx => DeviceInv' /\ wire' > wire
  <2> SUFFICES ASSUME D!CardTx PROVE DeviceInv' /\ wire' > wire
    OBVIOUS
  <2>1. /\ TxInv(D!TxNow, sent, wire)' /\ netdev' = netdev
        /\ wire' > wire /\ rx' = rx /\ got' = got /\ passed' = passed
    BY <1>1, CardTxKeeps
  <2>2. RxInv(rx, netdev.rx_queue, got, passed)'
    BY <1>1, <2>1, RxFrame
  <2> QED
    BY <2>1, <2>2 DEF DeviceInv
<1> SUFFICES ASSUME ~D!CardTx PROVE DeviceInv' /\ wire' = wire
  BY <1>3
<1>4. CASE D!Send
  <2>1. /\ TxInv(D!TxNow, sent, wire)' /\ netdev'.rx_queue = netdev.rx_queue
        /\ wire' = wire /\ rx' = rx /\ got' = got /\ passed' = passed
    BY Zenon, <1>1, <1>4, SendKeeps
  <2> QED
    BY Zenon, <1>1, <2>1, RxFrame DEF DeviceInv
<1>5. CASE D!net_discard
  <2>1. /\ TxInv(D!TxNow, sent, wire)' /\ netdev'.rx_queue = netdev.rx_queue
        /\ wire' = wire /\ rx' = rx /\ got' = got /\ passed' = passed
    BY Zenon, <1>1, <1>5, DiscardKeeps
  <2> QED
    BY SMTT(30), <1>1, <2>1, RxFrame DEF DeviceInv
<1>6. CASE D!net_poll \/ UNCHANGED D!vars
  <2>1. /\ netdev' = netdev /\ tx' = tx /\ fate' = fate /\ sent' = sent
        /\ wire' = wire /\ rx' = rx /\ got' = got /\ passed' = passed
    BY <1>6 DEF D!net_poll, D!vars
  <2>2. TxInv(D!TxNow, sent, wire)'
    BY SMTT(30), <1>1, <1>2, <2>1, TxFrame
  <2> QED
    BY <1>1, <2>1, <2>2, RxFrame DEF DeviceInv
<1>7. CASE D!realtek_poll_tx
  <2>1. /\ TxInv(D!TxNow, sent, wire)' /\ netdev'.rx_queue = netdev.rx_queue
        /\ wire' = wire /\ rx' = rx /\ got' = got /\ passed' = passed
    BY Zenon, <1>1, <1>7, PollTxKeeps
  <2> QED
    BY <1>1, <2>1, RxFrame DEF DeviceInv
<1>8. CASE D!realtek_poll_rx
  <2>1. /\ RxInv(rx, netdev.rx_queue, got, passed)'
        /\ netdev' \in Device /\ netdev'.open = netdev.open
        /\ netdev'.tx_queue = netdev.tx_queue /\ netdev'.tx_deferred = netdev.tx_deferred
        /\ tx' = tx /\ fate' = fate /\ sent' = sent /\ wire' = wire
    BY <1>1, <1>2, <1>8, PollRxKeeps
  <2> QED
    BY <1>1, <2>1, TxFrame DEF DeviceInv
<1>9. CASE D!Refill
  <2>1. /\ netdev' = netdev /\ tx' = tx /\ fate' = fate /\ sent' = sent /\ wire' = wire
    BY <1>9 DEF D!Refill
  <2>2. TxInv(D!TxNow, sent, wire)'
    BY <1>1, <1>2, <2>1, TxFrame
  <2> QED
    BY SMTT(30), <1>1, <1>9, <2>1, <2>2, RefillKeeps DEF DeviceInv
<1>10. CASE D!net_rx \/ D!netdev_rx_dequeue
  <2>1. /\ tx' = tx /\ fate' = fate /\ sent' = sent /\ wire' = wire /\ rx' = rx
        /\ got' = got
        /\ \/ netdev' = netdev /\ passed' = passed
           \/ /\ netdev.rx_queue # <<>> /\ passed' = Head(netdev.rx_queue)
              /\ netdev' = [netdev EXCEPT !.rx_queue = Tail(@)]
    BY <1>10 DEF D!net_rx, D!netdev_rx_dequeue
  <2>2. CASE netdev' = netdev /\ passed' = passed
    <3>1. TxInv(D!TxNow, sent, wire)'
      BY <1>1, <1>2, <2>1, <2>2, TxFrame
    <3> QED
      BY <1>1, <2>1, <2>2, <3>1, RxFrame DEF DeviceInv
  <2>3. CASE /\ netdev.rx_queue # <<>> /\ passed' = Head(netdev.rx_queue)
             /\ netdev' = [netdev EXCEPT !.rx_queue = Tail(@)]
    <3>1. /\ RxInv(rx, netdev.rx_queue, got, passed)'
          /\ netdev' \in Device /\ netdev'.open = netdev.open
          /\ netdev'.tx_queue = netdev.tx_queue
          /\ netdev'.tx_deferred = netdev.tx_deferred
      BY <1>1, <1>2, <2>1, <2>3, HandedKeeps
    <3> QED
      BY <1>1, <2>1, <3>1, TxFrame DEF DeviceInv
  <2> QED
    BY <2>1, <2>2, <2>3
<1>11. CASE D!netdev_rx_freeze
  <2>1. /\ netdev' = [netdev EXCEPT !.frozen = ~@] /\ tx' = tx /\ fate' = fate
        /\ sent' = sent /\ wire' = wire /\ rx' = rx /\ got' = got /\ passed' = passed
    BY <1>11 DEF D!netdev_rx_freeze
  <2>2. /\ netdev' \in Device /\ netdev'.open = netdev.open
        /\ netdev'.tx_queue = netdev.tx_queue
        /\ netdev'.tx_deferred = netdev.tx_deferred
        /\ netdev'.rx_queue = netdev.rx_queue
    <3>1. (~netdev.frozen) \in BOOLEAN
      OBVIOUS
    <3> QED
      BY Zenon, <1>2, <2>1, <3>1 DEF Device
  <2>3. TxInv(D!TxNow, sent, wire)'
    BY SMTT(30), <1>1, <2>1, <2>2, TxFrame
  <2> QED
    BY <1>1, <2>1, <2>2, <2>3, RxFrame DEF DeviceInv
<1>12. CASE D!netdev_open
  <2>1. /\ TxInv(D!TxNow, sent, wire)' /\ netdev'.rx_queue = netdev.rx_queue
        /\ wire' = wire /\ got' = got /\ passed' = passed
    BY SMTT(30), <1>1, <1>12, OpenTxKeeps
  <2>2. RxInv(rx, netdev.rx_queue, got, passed)'
    BY SMTT(30), <1>1, <1>12, <2>1, OpenRxKeeps
  <2> QED
    BY <2>1, <2>2 DEF DeviceInv
<1>13. CASE D!netdev_close
  <2>1. /\ TxInv(D!TxNow, sent, wire)' /\ netdev'.rx_queue = <<>>
        /\ rx' = D!RxReset /\ wire' = wire /\ got' = got /\ passed' = passed
    BY <1>1, <1>13, CloseTxKeeps
  <2>2. RxInv(D!RxReset, <<>>, got, passed)
    BY <1>2, CloseRxKeeps
  <2> QED
    BY SMTT(30), <2>1, <2>2 DEF DeviceInv
<1>14. CASE D!CardRx
  <2>1. /\ netdev' = netdev /\ tx' = tx /\ fate' = fate /\ sent' = sent /\ wire' = wire
    BY <1>14 DEF D!CardRx
  <2>2. TxInv(D!TxNow, sent, wire)'
    BY <1>1, <1>2, <2>1, TxFrame
  <2> QED
    BY <1>1, <1>14, <2>1, <2>2, CardRxKeeps DEF DeviceInv
<1> QED
  BY SMTT(30), <1>4, <1>5, <1>6, <1>7, <1>8, <1>9, <1>10, <1>11, <1>12, <1>13, <1>14
  DEF D!Next

LEMMA TxRingSound ==
  ASSUME D!NetDeviceAssumption, DeviceInv
  PROVE  D!QueueIsRing /\ D!BuffersOwned
<1> DEFINE q == netdev.tx_queue
           d == netdev.tx_deferred
<1>1. TxInv(D!TxNow, sent, wire)
  BY SMTT(30) DEF DeviceInv
<1>2. /\ sent \in 0..MaxTx /\ tx \in TxRings /\ fate \in [1..MaxTx -> Fates]
      /\ q \in Seq(Nat) /\ Len(q) \in Nat /\ DOMAIN q = 1..Len(q)
      /\ TxOrder(q, d, sent, wire)
      /\ TxHeld(fate, q, d)
      /\ d # <<>> => Len(q) = NumTx
  BY <1>1, TxParts, TxNowFields
<1>3. PICK k \in 0..NumTx : TxRing(tx, q, k, wire)
  BY <1>1, TxNowFields, Zenon DEF TxInv
<1>4. D!Used(tx) = Len(q)
  BY <1>3, RingLength
<1>5. q = D!Outstanding
  <2>1. \A j \in 1..Len(q) : tx.desc[(tx.cons + j - 1) % NumTx].pkt = q[j]
    BY <1>3 DEF TxRing, Slot
  <2>2. D!Outstanding = [j \in 1..Len(q) |-> tx.desc[(tx.cons + j - 1) % NumTx].pkt]
    BY SMTT(30), <1>4 DEF D!Outstanding
  <2>3. q = [j \in 1..Len(q) |-> q[j]]
    BY <1>2
  <2> QED
    BY <2>1, <2>2, <2>3, Zenon
<1>6. D!QueueIsRing
  BY <1>2, <1>4, <1>5, Zenon DEF D!QueueIsRing
<1>7. ASSUME NEW i \in DOMAIN tx.desc, tx.desc[i].own
      PROVE  fate[tx.desc[i].pkt] = "held"
  <2>1. i \in Owned(tx, NumTx)
    BY Zenon, <1>2, <1>7 DEF Owned, TxRings
  <2>2. k \in 0..Len(q) /\ Owned(tx, NumTx) = {Slot(tx.cons, j, NumTx) : j \in k..(Len(q) - 1)}
    BY <1>3 DEF TxRing, RingOf, Ring
  <2>3. PICK j \in k..(Len(q) - 1) : i = Slot(tx.cons, j, NumTx)
    BY <2>1, <2>2
  <2> DEFINE n == Len(q)
  <2>4. j + 1 \in 1..n /\ (j + 1) - 1 = j
    <3>1. n \in Nat /\ k \in 0..n /\ j \in k..(n - 1)
      BY <1>2, <2>2
    <3> HIDE DEF n
    <3> QED
      BY <3>1
  <2>5. tx.desc[Slot(tx.cons, (j + 1) - 1, NumTx)].pkt = q[j + 1]
    BY <1>3, <2>4 DEF TxRing
  <2>6. tx.desc[i].pkt = q[j + 1]
    BY <2>3, <2>4, <2>5
  <2>7. q[j + 1] \in 1..MaxTx
    <3>1. q[j + 1] \in 1..sent
      BY <1>2, <2>4 DEF TxOrder
    <3>2. MaxTx \in Nat
      BY DeviceConst
    <3> QED
      BY SMTT(30), <1>2, <3>1, <3>2
  <2>8. In(q, q[j + 1])
    BY <1>2, <2>4, Zenon DEF In
  <2> QED
    BY <1>2, <2>6, <2>7, <2>8, Zenon DEF TxHeld
<1>8. D!BuffersOwned
  <2>1. \A p \in 1..MaxTx : fate[p] = "held" <=> p \in D!Range(q) \cup D!Range(d)
    BY <1>2, InRange, Zenon DEF TxHeld
  <2> QED
    BY <1>7, <2>1, Zenon DEF D!BuffersOwned
<1> QED
  BY <1>6, <1>8

LEMMA RxRingSound ==
  ASSUME D!NetDeviceAssumption, DeviceInv
  PROVE  D!RxRingSound /\ D!PassedInOrder
<1> DEFINE q == netdev.rx_queue
<1>1. RxInv(rx, q, got, passed)
  BY DEF DeviceInv
<1>2. /\ rx \in RxRings /\ q \in Seq(Nat) /\ got \in Nat /\ passed \in 0..got
      /\ Rising(q) /\ \A i \in DOMAIN q : q[i] \in (passed + 1)..got
  BY <1>1 DEF RxInv
<1>3. PICK n \in 0..NumRx, k \in 0..NumRx : RxRing(rx, n, k, q, got, passed)
  BY <1>1, Zenon DEF RxInv
<1>4. D!Used(rx) = n
  BY <1>3, RxRingLength
<1>5. ASSUME NEW i \in DOMAIN rx.desc
      PROVE  /\ rx.desc[i].iobuf <=> \E j \in 0..(D!Used(rx) - 1) : i = (rx.cons + j) % NumRx
             /\ rx.desc[i].own => rx.desc[i].iobuf
  <2>1. i \in 0..(NumRx - 1)
    BY Zenon, <1>2 DEF RxRings
  <2>2. rx.desc[i].iobuf <=> \E j \in 0..(n - 1) : i = Slot(rx.cons, j, NumRx)
    BY <1>3, <2>1, Zenon DEF RxRing, RxBuffers
  <2>3. ASSUME rx.desc[i].own PROVE \E j \in 0..(n - 1) : i = Slot(rx.cons, j, NumRx)
    <3>1. i \in Owned(rx, NumRx)
      BY <2>1, <2>3 DEF Owned
    <3>2. k \in 0..n /\ Owned(rx, NumRx) = {Slot(rx.cons, j, NumRx) : j \in k..(n - 1)}
      BY Zenon, <1>3 DEF RxRing, RingOf, Ring
    <3>3. PICK j \in k..(n - 1) : i = Slot(rx.cons, j, NumRx)
      BY <3>1, <3>2
    <3>4. j \in 0..(n - 1)
      BY <3>2
    <3> QED
      BY <3>3, <3>4, Zenon
  <2> QED
    BY <1>4, <2>2, <2>3, Zenon DEF Slot
<1>6. D!PassedInOrder
  <2> DEFINE p == <<passed>>
             s == p \o q
             m == Len(q)
  <2>1. /\ p \in Seq(Nat) /\ Len(p) = 1 /\ p[1] = passed
        /\ m \in Nat /\ DOMAIN q = 1..m
    BY <1>2
  <2>2. /\ Len(s) = m + 1
        /\ \A i \in 1..(m + 1) : s[i] = IF i <= 1 THEN p[i] ELSE q[i - 1]
    BY <1>2, <2>1
  <2> HIDE DEF s, p, m, q
  <2>3. ASSUME NEW i \in 1..((m + 1) - 1) PROVE s[i] < s[i + 1]
    <3>1. i \in 1..(m + 1) /\ i + 1 \in 1..(m + 1) /\ ~(i + 1 <= 1) /\ (i + 1) - 1 = i
      BY <2>1
    <3>2. s[i + 1] = q[i] /\ i \in DOMAIN q
      BY <2>1, <2>2, <3>1
    <3>3. CASE i = 1
      <4>1. s[i] = passed
        BY <2>1, <2>2, <3>1, <3>3
      <4>2. q[i] \in (passed + 1)..got
        BY <1>2, <3>2
      <4> QED
        BY <1>2, <3>2, <4>1, <4>2
    <3>4. CASE i # 1
      <4>1. s[i] = q[i - 1] /\ i - 1 \in DOMAIN q /\ i - 1 < i
        BY <2>1, <2>2, <3>1, <3>4
      <4> QED
        BY <1>2, <3>2, <4>1 DEF Rising
    <3> QED
      BY <3>3, <3>4
  <2>4. \A i \in 1..(Len(s) - 1) : s[i] < s[i + 1]
    BY <2>2, <2>3
  <2> QED
    BY <2>4 DEF D!PassedInOrder, s, p, q
<1> QED
  BY <1>5, <1>6, Zenon DEF D!RxRingSound

-----------------------------------------------------------------------------
(* netdev_tx, netdev_tx_defer, netdev_tx_complete_next, netdev_close,      *)
(* realtek_transmit, realtek_poll_tx, realtek_refill_rx, realtek_poll_rx:  *)
(* however the card and the driver interleave, for rings of any size under *)
(* counters that wrap at a multiple of it, the transmit queue and the ring *)
(* hold the same packets in the same order, no buffer the card owns is     *)
(* freed, and the receive ring has buffers exactly between its counters.   *)
THEOREM DeviceRings ==
  ASSUME D!NetDeviceAssumption
  PROVE  D!Spec => []RingsSound
<1>1. D!Init => DeviceInv
  BY DeviceInit
<1>2. DeviceInv /\ [D!Next]_D!vars => DeviceInv'
  BY DeviceNext
<1>3. DeviceInv => RingsSound
  BY TxRingSound, RxRingSound DEF RingsSound
<1> QED
  BY <1>1, <1>2, <1>3, PTL DEF D!Spec

(* netdev_tx_defer, realtek_poll_rx, net_poll: packets reach the wire in   *)
(* the order in which they were sent and the network layer in the order in *)
(* which they arrived, each at most once, also when they were deferred,    *)
(* when the counters wrap and when the device is closed and opened again.  *)
THEOREM PacketOrder ==
  ASSUME D!NetDeviceAssumption
  PROVE  D!Spec => PacketsInOrder
<1>1. D!Init => DeviceInv
  BY DeviceInit
<1>2. DeviceInv /\ [D!Next]_D!vars => DeviceInv'
  BY DeviceNext
<1>3. DeviceInv => D!PassedInOrder
  BY RxRingSound
<1>4. DeviceInv /\ [D!Next]_D!vars => [wire' >= wire /\ (D!CardTx => wire' > wire)]_D!vars
  <2>1. DeviceInv => wire \in Int
    <3> SUFFICES ASSUME DeviceInv PROVE wire \in Int
      BY SMTT(30)
    <3>1. TxInv(D!TxNow, sent, wire)
      BY DEF DeviceInv
    <3>2. wire \in 0..sent
      BY <3>1, TxParts
    <3> QED
      BY <3>2
  <2>2. DeviceInv' => wire' \in Int
    <3> SUFFICES ASSUME DeviceInv' PROVE wire' \in Int
      OBVIOUS
    <3>1. TxInv(D!TxNow', sent', wire')
      BY DEF DeviceInv
    <3>2. wire' \in 0..sent'
      BY <3>1, Zenon DEF TxInv
    <3> QED
      BY <3>2
  <2> SUFFICES ASSUME DeviceInv, [D!Next]_D!vars
               PROVE  wire' >= wire /\ (D!CardTx => wire' > wire)
    OBVIOUS
  <2>3. DeviceInv' /\ (wire' = wire \/ wire' > wire) /\ (D!CardTx => wire' > wire)
    BY DeviceNext
  <2>4. wire \in Int /\ wire' \in Int
    BY <2>1, <2>2, <2>3
  <2>5. wire' = wire \/ wire' > wire => wire' >= wire
    BY <2>4
  <2> QED
    BY <2>3, <2>5
<1> QED
  BY <1>1, <1>2, <1>3, <1>4, PTL DEF D!Spec, PacketsInOrder, D!WireInOrder
=============================================================================
