------------------------------ MODULE ListFacts -----------------------------
(***************************************************************************)
(* What the proofs use of sequences, which model the queues and lists of   *)
(* the code.                                                               *)
(***************************************************************************)
EXTENDS Lists, TLAPS

(* A sequence is a function on 1..Len. *)
LEMMA LenProperties ==
    ASSUME NEW S, NEW s \in Seq(S)
    PROVE  /\ Len(s) \in Nat
           /\ s \in [1..Len(s) -> S]
           /\ DOMAIN s = 1..Len(s)
  OBVIOUS

(* Every entry of a sequence has the type of its entries. *)
LEMMA ElementOfSeq ==
    ASSUME NEW S, NEW s \in Seq(S), NEW n \in 1..Len(s)
    PROVE  s[n] \in S
  OBVIOUS

(* Only the empty sequence has no entries. *)
LEMMA EmptySeq ==
    ASSUME NEW S
    PROVE  /\ <<>> \in Seq(S) /\ Len(<<>>) = 0
           /\ \A s \in Seq(S) : s # <<>> => Len(s) \in Nat \ {0}
  OBVIOUS

(* Two sequences with the same entries are the same. *)
LEMMA SeqEqual ==
    ASSUME NEW S, NEW s \in Seq(S), NEW t \in Seq(S), Len(s) = Len(t),
           \A i \in 1..Len(s) : s[i] = t[i]
    PROVE  s = t
  OBVIOUS

(* What a stretch of a sequence holds. *)
LEMMA SubSeqProperties ==
    ASSUME NEW S, NEW s, NEW m \in Int, NEW n \in Int,
           \A i \in m..n : s[i] \in S
    PROVE  /\ SubSeq(s, m, n) \in Seq(S)
           /\ Len(SubSeq(s, m, n)) = IF m <= n THEN n - m + 1 ELSE 0
           /\ \A i \in 1..(n - m + 1) : SubSeq(s, m, n)[i] = s[m + i - 1]
  OBVIOUS

(* What two sequences joined hold. *)
LEMMA ConcatProperties ==
    ASSUME NEW S, NEW s1 \in Seq(S), NEW s2 \in Seq(S)
    PROVE  /\ s1 \o s2 \in Seq(S)
           /\ Len(s1 \o s2) = Len(s1) + Len(s2)
           /\ \A i \in 1..(Len(s1) + Len(s2)) :
                 (s1 \o s2)[i] = IF i <= Len(s1) THEN s1[i]
                                 ELSE s2[i - Len(s1)]
  OBVIOUS

(* Taking the first entry off a sequence. *)
LEMMA HeadTailProperties ==
    ASSUME NEW S, NEW s \in Seq(S), s # <<>>
    PROVE  /\ Head(s) \in S /\ Tail(s) \in Seq(S)
           /\ Len(Tail(s)) = Len(s) - 1
           /\ \A i \in 1..Len(Tail(s)) : Tail(s)[i] = s[i + 1]
  OBVIOUS

(* Adding an entry at the end of a sequence. *)
LEMMA AppendProperties ==
    ASSUME NEW S, NEW s \in Seq(S), NEW e \in S
    PROVE  /\ Append(s, e) \in Seq(S) /\ Append(s, e) # <<>>
           /\ Len(Append(s, e)) = Len(s) + 1
           /\ \A i \in 1..Len(s) : Append(s, e)[i] = s[i]
           /\ Append(s, e)[Len(s) + 1] = e
  OBVIOUS

-----------------------------------------------------------------------------
(* The list s without repetition, and membership of t in it *)
Distinct(s) == \A i, j \in DOMAIN s : s[i] = s[j] => i = j
In(s, t) == \E i \in DOMAIN s : s[i] = t

(* list_del: what is left of a list without its i-th entry. *)
LEMMA Removed ==
    ASSUME NEW S, NEW s \in Seq(S), NEW i \in DOMAIN s
    PROVE  /\ list_del(s, i) \in Seq(S)
           /\ DOMAIN list_del(s, i) = 1..(Len(s) - 1)
           /\ \A j \in 1..(Len(s) - 1) :
                list_del(s, i)[j] = IF j < i THEN s[j] ELSE s[j + 1]
  <1> DEFINE a == SubSeq(s, 1, i - 1)
             b == SubSeq(s, i + 1, Len(s))
  <1>1. Len(s) \in Nat /\ DOMAIN s = 1..Len(s) /\ i \in 1..Len(s)
    BY LenProperties
  <1>2. \A j \in 1..Len(s) : s[j] \in S
    BY <1>1, ElementOfSeq
  <1>3. /\ a \in Seq(S) /\ Len(a) = i - 1
        /\ \A j \in 1..(i - 1) : a[j] = s[j]
    <2>1. \A j \in 1..(i - 1) : s[j] \in S
      BY <1>1, <1>2
    <2>2. QED BY <1>1, <2>1, SubSeqProperties
  <1>4. /\ b \in Seq(S) /\ Len(b) = Len(s) - i
        /\ \A j \in 1..(Len(s) - i) : b[j] = s[i + j]
    <2>1. \A j \in (i + 1)..Len(s) : s[j] \in S
      BY <1>1, <1>2
    <2>2. QED BY SMTT(30), <1>1, <2>1, SubSeqProperties
  <1>5. list_del(s, i) = a \o b
    BY DEF list_del
  <1> HIDE DEF a, b
  <1>6. /\ a \o b \in Seq(S) /\ Len(a \o b) = Len(s) - 1
        /\ \A j \in 1..(Len(s) - 1) :
             (a \o b)[j] = IF j <= i - 1 THEN a[j] ELSE b[j - (i - 1)]
    <2>1. /\ a \o b \in Seq(S) /\ Len(a \o b) = Len(a) + Len(b)
          /\ \A j \in 1..(Len(a) + Len(b)) :
               (a \o b)[j] = IF j <= Len(a) THEN a[j] ELSE b[j - Len(a)]
      BY Zenon, <1>3, <1>4, ConcatProperties
    <2>2. Len(a) = i - 1 /\ Len(a) + Len(b) = Len(s) - 1
      BY <1>1, <1>3, <1>4
    <2>3. QED BY ZenonT(30), <2>1, <2>2
  <1>7. DOMAIN (a \o b) = 1..(Len(s) - 1)
    BY <1>6, LenProperties
  <1>8. ASSUME NEW j \in 1..(Len(s) - 1)
        PROVE  (a \o b)[j] = IF j < i THEN s[j] ELSE s[j + 1]
    <2>1. CASE j < i
      BY <1>1, <1>3, <1>6, <2>1
    <2>2. CASE ~(j < i)
      <3>1. j - (i - 1) \in 1..(Len(s) - i) /\ i + (j - (i - 1)) = j + 1
        BY <1>1, <2>2
      <3>2. b[j - (i - 1)] = s[j + 1]
        BY <1>4, <3>1
      <3>3. QED BY SMTT(30), <1>1, <1>6, <2>2, <3>2
    <2>3. QED BY Zenon, <2>1, <2>2
  <1>9. QED BY <1>5, <1>6, <1>7, <1>8

(* Taking an entry off a list without repetition takes off that member. *)
LEMMA Delisted ==
    ASSUME NEW S, NEW s \in Seq(S), NEW i \in DOMAIN s, Distinct(s)
    PROVE  /\ list_del(s, i) \in Seq(S) /\ Distinct(list_del(s, i))
           /\ \A u : In(list_del(s, i), u) <=> In(s, u) /\ u # s[i]
  <1> DEFINE r == list_del(s, i)
             from(j) == IF j < i THEN j ELSE j + 1
  <1>1. Len(s) \in Nat /\ DOMAIN s = 1..Len(s) /\ i \in 1..Len(s)
    BY LenProperties
  <1>2. /\ r \in Seq(S) /\ DOMAIN r = 1..(Len(s) - 1)
        /\ \A j \in 1..(Len(s) - 1) : r[j] = IF j < i THEN s[j] ELSE s[j + 1]
    BY Removed
  <1> HIDE DEF r
  <1>3. \A j \in DOMAIN r : from(j) \in DOMAIN s /\ from(j) # i /\ r[j] = s[from(j)]
    BY <1>1, <1>2
  <1>4. \A j, k \in DOMAIN r : from(j) = from(k) => j = k
    BY <1>1, <1>2
  <1>5. \A k \in DOMAIN s : k # i => \E j \in DOMAIN r : from(j) = k
    <2> SUFFICES ASSUME NEW k \in DOMAIN s, k # i
                 PROVE  \E j \in DOMAIN r : from(j) = k
      OBVIOUS
    <2>1. CASE k < i
      <3>1. k \in DOMAIN r /\ from(k) = k
        BY <1>1, <1>2, <2>1
      <3>2. QED BY <3>1
    <2>2. CASE k > i
      <3>1. k - 1 \in DOMAIN r /\ from(k - 1) = k
        BY <1>1, <1>2, <2>2
      <3>2. QED BY <3>1
    <2>3. QED BY <1>1, <2>1, <2>2
  <1> HIDE DEF from
  <1>6. Distinct(r)
    BY <1>3, <1>4 DEF Distinct
  <1>7. ASSUME NEW u PROVE In(r, u) <=> In(s, u) /\ u # s[i]
    <2>1. ASSUME In(r, u) PROVE In(s, u) /\ u # s[i]
      BY <1>3, <2>1 DEF In, Distinct
    <2>2. ASSUME In(s, u), u # s[i] PROVE In(r, u)
      <3>1. PICK k \in DOMAIN s : s[k] = u
        BY <2>2 DEF In
      <3>2. k # i
        BY <2>2, <3>1
      <3>3. PICK j \in DOMAIN r : from(j) = k
        BY <1>5, <3>2
      <3>4. QED BY <1>3, <3>1, <3>3 DEF In
    <2>3. QED BY <2>1, <2>2
  <1>8. QED BY <1>2, <1>6, <1>7 DEF r

(* list_add: a new member goes to the head of the list. *)
LEMMA Enlisted ==
    ASSUME NEW S, NEW s \in Seq(S), NEW t \in S, Distinct(s), ~In(s, t)
    PROVE  /\ <<t>> \o s \in Seq(S) /\ Distinct(<<t>> \o s)
           /\ \A u : In(<<t>> \o s, u) <=> In(s, u) \/ u = t
  <1> DEFINE r == <<t>> \o s
  <1>1. Len(s) \in Nat /\ DOMAIN s = 1..Len(s)
    BY LenProperties
  <1>2. <<t>> \in Seq(S) /\ Len(<<t>>) = 1 /\ <<t>>[1] = t
    OBVIOUS
  <1>3. /\ r \in Seq(S) /\ Len(r) = 1 + Len(s)
        /\ \A j \in 1..(1 + Len(s)) :
             r[j] = IF j <= 1 THEN <<t>>[j] ELSE s[j - 1]
    BY <1>2, ConcatProperties
  <1>4. DOMAIN r = 1..(1 + Len(s))
    BY <1>3, LenProperties
  <1>5. r[1] = t /\ 1 \in DOMAIN r
    BY <1>1, <1>2, <1>3, <1>4
  <1> HIDE DEF r
  <1>6. \A j \in DOMAIN r : j # 1 => j - 1 \in DOMAIN s /\ r[j] = s[j - 1]
    BY <1>1, <1>3, <1>4
  <1>7. \A k \in DOMAIN s : k + 1 \in DOMAIN r /\ k + 1 # 1 /\ (k + 1) - 1 = k
    BY <1>1, <1>4
  <1>8. Distinct(r)
    <2> SUFFICES ASSUME NEW j \in DOMAIN r, NEW k \in DOMAIN r, r[j] = r[k]
                 PROVE  j = k
      BY DEF Distinct
    <2>1. CASE j = 1
      BY <1>5, <1>6, <2>1 DEF In
    <2>2. CASE k = 1
      BY <1>5, <1>6, <2>2 DEF In
    <2>3. CASE j # 1 /\ k # 1
      <3>1. j - 1 = k - 1
        BY <1>6, <2>3 DEF Distinct
      <3>2. j \in Int /\ k \in Int
        BY <1>4
      <3>3. QED BY <3>1, <3>2
    <2>4. QED BY <2>1, <2>2, <2>3
  <1>9. ASSUME NEW u PROVE In(r, u) <=> In(s, u) \/ u = t
    <2>1. ASSUME In(r, u) PROVE In(s, u) \/ u = t
      BY <1>5, <1>6, <2>1 DEF In
    <2>2. ASSUME In(s, u) PROVE In(r, u)
      <3>1. PICK k \in DOMAIN s : s[k] = u
        BY <2>2 DEF In
      <3>2. r[k + 1] = u /\ k + 1 \in DOMAIN r
        BY <1>6, <1>7, <3>1
      <3>3. QED BY <3>2 DEF In
    <2>3. ASSUME u = t PROVE In(r, u)
      BY <1>5, <2>3 DEF In
    <2>4. QED BY <2>1, <2>2, <2>3
  <1>10. QED BY <1>3, <1>8, <1>9 DEF r

(* list_add_tail: a new member goes to the end of the list. *)
LEMMA Appended ==
    ASSUME NEW S, NEW s \in Seq(S), NEW x \in S, Distinct(s), ~In(s, x)
    PROVE  /\ Append(s, x) \in Seq(S) /\ Distinct(Append(s, x))
           /\ \A u : In(Append(s, x), u) <=> In(s, u) \/ u = x
  <1> DEFINE t == Append(s, x)
  <1>1. Len(s) \in Nat /\ DOMAIN s = 1..Len(s)
    BY LenProperties
  <1>2. /\ t \in Seq(S) /\ DOMAIN t = 1..(Len(s) + 1)
        /\ t[Len(s) + 1] = x /\ \A i \in 1..Len(s) : t[i] = s[i]
    BY <1>1, AppendProperties
  <1> HIDE DEF t
  <1>3. \A i \in 1..Len(s) : s[i] # x
    BY <1>1 DEF In
  <1>4. Distinct(t)
    BY <1>1, <1>2, <1>3 DEF Distinct
  <1>5. \A u : In(t, u) <=> In(s, u) \/ u = x
    BY <1>1, <1>2 DEF In
  <1>6. QED BY <1>2, <1>4, <1>5 DEF t

(* The list without its first member, which is in it once. *)
LEMMA Advanced ==
    ASSUME NEW S, NEW s \in Seq(S), s # <<>>, Distinct(s)
    PROVE  /\ Head(s) \in S /\ In(s, Head(s))
           /\ Tail(s) \in Seq(S) /\ Distinct(Tail(s))
           /\ \A u : In(Tail(s), u) <=> In(s, u) /\ u # Head(s)
  <1>1. Len(s) \in Nat /\ DOMAIN s = 1..Len(s) /\ 1 \in DOMAIN s
    BY LenProperties, EmptySeq
  <1>2. Head(s) = s[1] /\ Head(s) \in S /\ Tail(s) = list_del(s, 1)
    BY <1>1 DEF list_del
  <1>3. In(s, Head(s))
    BY Zenon, <1>1, <1>2 DEF In
  <1>4. /\ list_del(s, 1) \in Seq(S) /\ Distinct(list_del(s, 1))
        /\ \A u : In(list_del(s, 1), u) <=> In(s, u) /\ u # s[1]
    BY Zenon, <1>1, Delisted
  <1>5. QED BY Zenon, <1>2, <1>3, <1>4

(* Two lists without repetition that share no member, one after the other. *)
LEMMA Joined ==
    ASSUME NEW S, NEW s \in Seq(S), NEW t \in Seq(S), Distinct(s), Distinct(t),
           \A u \in S : ~(In(s, u) /\ In(t, u))
    PROVE  /\ s \o t \in Seq(S) /\ Distinct(s \o t)
           /\ \A u : In(s \o t, u) <=> In(s, u) \/ In(t, u)
  <1> DEFINE r == s \o t
  <1>1. /\ Len(s) \in Nat /\ DOMAIN s = 1..Len(s)
        /\ Len(t) \in Nat /\ DOMAIN t = 1..Len(t)
    BY Zenon, LenProperties
  <1>2. /\ r \in Seq(S) /\ Len(r) = Len(s) + Len(t)
        /\ \A i \in 1..(Len(s) + Len(t)) :
             r[i] = IF i <= Len(s) THEN s[i] ELSE t[i - Len(s)]
    BY Zenon, ConcatProperties
  <1>3. DOMAIN r = 1..(Len(s) + Len(t))
    BY Zenon, <1>2, LenProperties
  <1> HIDE DEF r
  <1>4. \A i \in DOMAIN r : \/ i \in DOMAIN s /\ r[i] = s[i]
                            \/ i - Len(s) \in DOMAIN t /\ r[i] = t[i - Len(s)]
    BY SMTT(30), <1>1, <1>2, <1>3
  <1>5. /\ \A i \in DOMAIN s : i \in DOMAIN r /\ r[i] = s[i]
        /\ \A j \in DOMAIN t : Len(s) + j \in DOMAIN r /\ r[Len(s) + j] = t[j]
    <2>1. \A i \in DOMAIN s : i \in DOMAIN r /\ r[i] = s[i]
      BY <1>1, <1>2, <1>3
    <2>2. \A j \in DOMAIN t : Len(s) + j \in 1..(Len(s) + Len(t))
                              /\ ~(Len(s) + j <= Len(s))
                              /\ (Len(s) + j) - Len(s) = j
      BY <1>1
    <2>3. QED BY Zenon, <1>2, <1>3, <2>1, <2>2
  <1>6. ASSUME NEW i \in DOMAIN s, NEW j \in DOMAIN t PROVE s[i] # t[j]
    <2>1. s[i] \in S
      BY <1>1, ElementOfSeq
    <2>2. QED BY Zenon, <2>1 DEF In
  <1>7. Distinct(r)
    <2> SUFFICES ASSUME NEW i \in DOMAIN r, NEW j \in DOMAIN r, r[i] = r[j]
                 PROVE  i = j
      BY DEF Distinct
    <2>1. i \in Int /\ j \in Int /\ Len(s) \in Int
      BY <1>1, <1>3
    <2>2. CASE i - Len(s) \in DOMAIN t /\ r[i] = t[i - Len(s)]
      <3>1. j - Len(s) \in DOMAIN t /\ r[j] = t[j - Len(s)]
        BY Zenon, <1>4, <1>6, <2>2
      <3>2. i - Len(s) = j - Len(s)
        BY Zenon, <2>2, <3>1 DEF Distinct
      <3>3. QED BY <2>1, <3>2
    <2>3. CASE i \in DOMAIN s /\ r[i] = s[i]
      BY Zenon, <1>4, <1>6, <2>3 DEF Distinct
    <2>4. QED BY Zenon, <1>4, <2>2, <2>3
  <1>8. \A u : In(r, u) <=> In(s, u) \/ In(t, u)
    BY ZenonT(40), <1>4, <1>5 DEF In
  <1>9. QED BY Zenon, <1>2, <1>7, <1>8 DEF r

(* A stretch of a list without repetition, and what is left before it. *)
LEMMA Cut ==
    ASSUME NEW S, NEW s \in Seq(S), Distinct(s), NEW k \in 1..Len(s)
    PROVE  /\ SubSeq(s, k, Len(s)) \in Seq(S) /\ SubSeq(s, 1, k - 1) \in Seq(S)
           /\ Distinct(SubSeq(s, k, Len(s))) /\ Distinct(SubSeq(s, 1, k - 1))
           /\ \A u : In(s, u) <=> \/ In(SubSeq(s, k, Len(s)), u)
                                  \/ In(SubSeq(s, 1, k - 1), u)
           /\ \A u : ~(In(SubSeq(s, k, Len(s)), u) /\ In(SubSeq(s, 1, k - 1), u))
  <1> DEFINE a == SubSeq(s, k, Len(s))
             b == SubSeq(s, 1, k - 1)
  <1>1. Len(s) \in Nat /\ DOMAIN s = 1..Len(s)
    BY LenProperties
  <1>2. \A i \in 1..Len(s) : s[i] \in S
    BY Zenon, <1>1, ElementOfSeq
  <1>3. a \in Seq(S) /\ b \in Seq(S)
    OBVIOUS
  <1>4. DOMAIN a = 1..((Len(s) - k) + 1) /\ DOMAIN b = 1..(k - 1)
    BY <1>1
  <1>5. /\ \A i \in DOMAIN a : a[i] = s[(k + i) - 1]
        /\ \A i \in DOMAIN b : b[i] = s[i]
    BY <1>1, <1>4
  <1> HIDE DEF a, b
  <1>6. \A i \in DOMAIN a : (k + i) - 1 \in DOMAIN s /\ (k + i) - 1 >= k
    BY <1>1, <1>4
  <1>7. \A i \in DOMAIN b : i \in DOMAIN s /\ ~(i >= k)
    BY <1>1, <1>4
  <1>8. \A i \in DOMAIN s : \/ i \in DOMAIN b
                            \/ (i - k) + 1 \in DOMAIN a /\ (k + ((i - k) + 1)) - 1 = i
    BY <1>1, <1>4
  <1>9. Distinct(b)
    BY Zenon, <1>5, <1>7 DEF Distinct
  <1>10. Distinct(a)
    <2> SUFFICES ASSUME NEW i \in DOMAIN a, NEW j \in DOMAIN a, a[i] = a[j]
                 PROVE  i = j
      BY DEF Distinct
    <2>1. (k + i) - 1 = (k + j) - 1
      BY Zenon, <1>5, <1>6 DEF Distinct
    <2>2. QED BY <1>1, <1>4, <2>1
  <1>11. ASSUME NEW u PROVE In(s, u) <=> In(a, u) \/ In(b, u)
    <2>1. In(s, u) => In(a, u) \/ In(b, u)
      BY ZenonT(40), <1>5, <1>8 DEF In
    <2>2. QED BY Zenon, <1>5, <1>6, <1>7, <2>1 DEF In
  <1>12. ASSUME NEW u PROVE ~(In(a, u) /\ In(b, u))
    <2> SUFFICES ASSUME In(a, u), In(b, u) PROVE FALSE
      OBVIOUS
    <2>1. PICK i \in DOMAIN a : a[i] = u
      BY Zenon DEF In
    <2>2. PICK j \in DOMAIN b : b[j] = u
      BY Zenon DEF In
    <2>3. (k + i) - 1 = j
      BY Zenon, <1>5, <1>6, <1>7, <2>1, <2>2 DEF Distinct
    <2>4. QED BY Zenon, <1>6, <1>7, <2>3
  <1>13. QED BY Zenon, <1>3, <1>9, <1>10, <1>11, <1>12 DEF a, b

-----------------------------------------------------------------------------
(* Numbers *)

(* Counting up and down. *)
LEMMA Steps ==
    /\ \A n \in Nat : n + 1 \in Nat
    /\ \A n \in Nat : n > 0 => n - 1 \in Nat
    /\ \A n \in Nat : n > 1 => n - 1 \in Nat
  OBVIOUS

(* Adding nothing, and what a positive number is not. *)
LEMMA Zero == /\ \A n \in Nat : 0 + n = n /\ 0 <= n
              /\ \A n \in Nat : n # 0 => n > 0 /\ 0 < n
              /\ \A n \in Nat : n > 0 => n # 0
              /\ \A n \in Nat : n > 1 => n > 0
  OBVIOUS

(* No member of an interval is above its end. *)
LEMMA UpTo == \A a, b \in Int : \A n \in a..b : a <= n /\ n <= b
  OBVIOUS

(* The order of the numbers. *)
LEMMA Ordered ==
    /\ \A n \in Nat : n <= n
    /\ \A a, b, c \in Int : a <= b /\ b <= c => a <= c
    /\ \A a, b \in Int : a <= b /\ b <= a => a = b
    /\ \A a, b \in Int : a <= b \/ b < a
  OBVIOUS

=============================================================================
