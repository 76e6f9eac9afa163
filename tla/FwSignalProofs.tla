--------------------------- MODULE FwSignalProofs ---------------------------
(***************************************************************************)
(* The safety of firmware signalled flow control, for every number of      *)
(* destinations, categories, packets, slots and credits, every length and  *)
(* water marks of the queues.                                              *)
(*                                                                         *)
(* First facts about the data: finite sets of numbers, the queues (spliced *)
(* sequences), sums of credits, the destinations' entries.  Then Core, the *)
(* part of the invariant the rest stands on: types, and where packets may  *)
(* be.  A step does one of few things to the packets (Steady, Takes,       *)
(* Requeues, Tosses, accepts or flushes), and each action has a lemma that *)
(* says which, so that the properties after Core go by kinds of steps.     *)
(***************************************************************************)
EXTENDS FwSignal, FiniteSetTheorems, TLAPS

(* Nothing can be counted upwards for ever inside a finite set: if a set   *)
(* of numbers has 0, and the next of each number below n, then it has n.   *)
(* Moving each of its members below n to the next one would take all of    *)
(* them, injectively, to those above 0, which are fewer.                   *)
LEMMA Climb ==
  ASSUME NEW n \in Nat, NEW S, 0 \in S, \A k \in 0 .. n - 1 : k \in S => k + 1 \in S
  PROVE  n \in S
<1> SUFFICES ASSUME n \notin S PROVE FALSE
  OBVIOUS
<1> DEFINE T == {k \in 0 .. n : k \in S}
           R == T \ {0}
           next == [k \in T |-> k + 1]
<1>1. IsFiniteSet(T)
  <2>1. IsFiniteSet(0 .. n) /\ T \in SUBSET (0 .. n)
    BY FS_Interval
  <2>2. QED
    BY <2>1, FS_Subset
<1>2. IsFiniteSet(R) /\ Cardinality(R) = Cardinality(T) - 1
  <2>1. 0 \in T
    OBVIOUS
  <2>2. QED
    BY <1>1, <2>1, FS_RemoveElement
<1>3. Cardinality(T) \in Nat
  BY <1>1, FS_CardinalityType
<1>4. ASSUME NEW k \in T PROVE k + 1 \in R
  BY <1>4
<1>5. next \in [T -> R]
  BY <1>4
<1>6. \A x, y \in T : x # y => next[x] # next[y]
  OBVIOUS
<1> HIDE DEF T, R, next
<1>7. Cardinality(R) < Cardinality(T)
  BY <1>2, <1>3
<1>8. QED
  BY <1>1, <1>2, <1>5, <1>6, <1>7, FS_PigeonHole

(* A non-empty set of numbers up to n has a largest and a smallest one.    *)
LEMMA Largest ==
  ASSUME NEW n \in Nat, NEW S, S \subseteq 0 .. n, S # {}
  PROVE  \E m \in S : \A k \in S : k <= m
<1> DEFINE Tops == {j \in Nat : j <= n => \E m \in S : \A k \in S : k <= n - j => k <= m}
           Goal == \E m \in S : \A k \in S : k <= m
<1> SUFFICES ASSUME ~Goal PROVE FALSE
  OBVIOUS
<1> DEFINE Low0 == {j \in Nat : j <= n => \A k \in S : k <= n - j}
<1>1. 0 \in Low0
  OBVIOUS
<1>2. ASSUME NEW j \in 0 .. n - 1, j \in Low0 PROVE j + 1 \in Low0
  <2>1. \A k \in S : k <= n - j
    BY <1>2
  <2>2. n - j \notin S
    BY <2>1
  <2>3. QED
    BY <2>1, <2>2
<1>3. n \in Low0
  <2> HIDE DEF Low0
  <2>1. QED
    BY <1>1, <1>2, Climb
<1>4. \A k \in S : k <= 0
  BY <1>3
<1>5. 0 \in S
  <2>1. PICK x \in S : TRUE
    OBVIOUS
  <2>2. x = 0
    BY <1>4
  <2>3. QED
    BY <2>2
<1>6. QED
  BY <1>4, <1>5

LEMMA Smallest ==
  ASSUME NEW n \in Nat, NEW S, S \subseteq 0 .. n, S # {}
  PROVE  \E m \in S : \A k \in S : m <= k
<1> DEFINE T == {n - k : k \in S}
<1>1. T \subseteq 0 .. n /\ T # {}
  <2>1. ASSUME NEW k \in S PROVE n - k \in 0 .. n
    OBVIOUS
  <2>2. PICK k \in S : TRUE
    OBVIOUS
  <2>3. n - k \in T
    OBVIOUS
  <2>4. QED
    BY <2>1, <2>3
<1>2. PICK m \in T : \A k \in T : k <= m
  <2> HIDE DEF T
  <2>1. QED
    BY <1>1, Largest
<1>3. n - m \in S /\ m \in 0 .. n
  BY <1>2
<1>4. ASSUME NEW k \in S PROVE n - m <= k
  BY <1>2, <1>3, <1>4
<1>5. QED
  BY <1>3, <1>4

(* Repeating a step n times.                                               *)
Repeats(s, step, c, n) == s[0] = c /\ \A k \in 1 .. n : s[k] = step[<< k, s[k - 1] >>]

LEMMA Repeated ==
  ASSUME NEW C, NEW c \in C, NEW n \in Nat, NEW step \in [(1 .. n) \X C -> C]
  PROVE  \E s \in [0 .. n -> C] : Repeats(s, step, c, n)
<1> DEFINE Good(s, m) == s[0] = c /\ \A k \in 1 .. m : s[k] = step[<< k, s[k - 1] >>]
           D == {m \in 0 .. n : \E s \in [0 .. m -> C] : Good(s, m)}
<1>1. 0 \in D
  <2> DEFINE s0 == [k \in 0 .. 0 |-> c]
  <2>1. s0 \in [0 .. 0 -> C] /\ s0[0] = c
    OBVIOUS
  <2> HIDE DEF s0
  <2>2. Good(s0, 0) /\ 0 \in 0 .. n
    BY <2>1
  <2> HIDE DEF Good
  <2>3. QED
    BY <2>1, <2>2
<1>2. ASSUME NEW m \in 0 .. n - 1, m \in D PROVE m + 1 \in D
  <2>1. PICK s \in [0 .. m -> C] : Good(s, m)
    BY <1>2
  <2> DEFINE x == step[<< m + 1, s[m] >>]
             t == [k \in 0 .. m + 1 |-> IF k <= m THEN s[k] ELSE x]
  <2>2. x \in C
    <3>1. m + 1 \in 1 .. n /\ s[m] \in C
      OBVIOUS
    <3>2. QED
      BY <3>1
  <2>3. t \in [0 .. m + 1 -> C] /\ t[m + 1] = x /\ \A k \in 0 .. m : t[k] = s[k]
    <3> HIDE DEF x
    <3>1. QED
      BY <2>2
  <2> HIDE DEF t
  <2>4. ASSUME NEW k \in 1 .. m + 1 PROVE t[k] = step[<< k, t[k - 1] >>]
    <3>1. CASE k \in 1 .. m
      BY <2>1, <2>3, <3>1
    <3>2. CASE k = m + 1
      BY <2>3, <3>2
    <3>3. QED
      BY <3>1, <3>2
  <2>5. Good(t, m + 1)
    BY <2>1, <2>3, <2>4
  <2>6. QED
    BY <2>3, <2>5
<1>3. n \in D
  <2> HIDE DEF D
  <2>1. QED
    BY <1>1, <1>2, Climb
<1>4. QED
  BY <1>3 DEF Repeats

(***************************************************************************)
(* Queues.                                                                 *)
(***************************************************************************)

NoDup(s) == \A i, j \in DOMAIN s : s[i] = s[j] => i = j
Rising(s) == \A i, j \in DOMAIN s : i < j => s[i] < s[j]

(* r is s with p put behind its first n elements.                          *)
Spliced(r, s, n, p) ==
  /\ r \in Seq(Packets) /\ Len(r) = Len(s) + 1
  /\ \A i \in 1 .. n : r[i] = s[i]
  /\ r[n + 1] = p
  /\ \A i \in n + 1 .. Len(s) : r[i + 1] = s[i]

LEMMA AppendSplices ==
  ASSUME NEW s \in Seq(Packets), NEW p \in Packets
  PROVE  Spliced(Append(s, p), s, Len(s), p)
  BY DEF Spliced

LEMMA PrependSplices ==
  ASSUME NEW s \in Seq(Packets), NEW p \in Packets
  PROVE  Spliced(<< p >> \o s, s, 0, p)
<1> DEFINE r == << p >> \o s
<1>1. << p >> \in Seq(Packets) /\ Len(<< p >>) = 1 /\ << p >>[1] = p
  OBVIOUS
<1>2. r \in Seq(Packets) /\ Len(r) = Len(s) + 1
  BY <1>1
<1>3. \A i \in 1 .. Len(r) : r[i] = IF i <= 1 THEN << p >>[i] ELSE s[i - 1]
  BY <1>1
<1> HIDE DEF r
<1>4. QED
  BY <1>1, <1>2, <1>3 DEF Spliced

(* A suppressed packet goes behind those that came before it.              *)
LEMMA InsertSplices ==
  ASSUME NEW s \in Seq(Packets), NEW p \in Packets
  PROVE  /\ Cardinality({i \in DOMAIN s : s[i] < p}) \in 0 .. Len(s)
         /\ Spliced(Insert(s, p), s, Cardinality({i \in DOMAIN s : s[i] < p}), p)
<1> DEFINE I == {i \in DOMAIN s : s[i] < p}
           n == Cardinality(I)
           a == SubSeq(s, 1, n)
           b == SubSeq(s, n + 1, Len(s))
           ap == a \o << p >>
           r == ap \o b
<1>1. n \in 0 .. Len(s)
  <2>1. IsFiniteSet(1 .. Len(s)) /\ Cardinality(1 .. Len(s)) = Len(s)
    <3>1. Len(s) \in Nat
      OBVIOUS
    <3>2. QED
      BY <3>1, FS_Interval
  <2>2. I \in SUBSET (1 .. Len(s))
    OBVIOUS
  <2> HIDE DEF I
  <2>3. IsFiniteSet(I) /\ n <= Len(s)
    BY <2>1, <2>2, FS_Subset
  <2>4. QED
    BY <2>3, FS_CardinalityType
<1> HIDE DEF n
<1>2. << p >> \in Seq(Packets) /\ Len(<< p >>) = 1 /\ << p >>[1] = p
  OBVIOUS
<1>3. a \in Seq(Packets) /\ Len(a) = n /\ \A i \in 1 .. n : a[i] = s[i]
  BY <1>1
<1>4. b \in Seq(Packets) /\ Len(b) = Len(s) - n /\ \A i \in 1 .. Len(s) - n : b[i] = s[n + i]
  BY <1>1
<1> HIDE DEF a, b
<1>5. /\ ap \in Seq(Packets) /\ Len(ap) = n + 1
      /\ \A i \in 1 .. n : ap[i] = a[i]
      /\ ap[n + 1] = p
  BY <1>1, <1>2, <1>3
<1> HIDE DEF ap
<1>6. r \in Seq(Packets) /\ Len(r) = Len(s) + 1
  <2>1. ap \in Seq(Packets) /\ b \in Seq(Packets)
    BY <1>4, <1>5
  <2>2. r \in Seq(Packets)
    BY <2>1
  <2>3. Len(r) = Len(ap) + Len(b)
    BY <2>1
  <2>4. QED
    BY <1>1, <1>4, <1>5, <2>2, <2>3
<1>7. ASSUME NEW i \in 1 .. n + 1 PROVE r[i] = ap[i]
  <2>1. i \in 1 .. Len(ap) + Len(b) /\ i <= Len(ap)
    BY <1>1, <1>4, <1>5
  <2>2. QED
    BY <1>4, <1>5, <2>1
<1>8. ASSUME NEW i \in n + 1 .. Len(s) PROVE r[i + 1] = s[i]
  <2>1. i + 1 - Len(ap) \in 1 .. Len(b) /\ i + 1 \in 1 .. Len(ap) + Len(b) /\ i + 1 > Len(ap)
    BY <1>1, <1>4, <1>5
  <2>2. r[i + 1] = b[i + 1 - Len(ap)]
    BY <1>4, <1>5, <2>1
  <2>3. b[i - n] = s[n + (i - n)]
    BY <1>1, <1>4
  <2>4. QED
    BY <1>1, <1>5, <2>2, <2>3
<1>9. r = Insert(s, p)
  BY DEF r, ap, a, b, n, Insert
<1> HIDE DEF r
<1>10. Spliced(r, s, n, p)
  BY <1>1, <1>3, <1>5, <1>6, <1>7, <1>8 DEF Spliced
<1>11. QED
  BY <1>1, <1>9, <1>10 DEF n

LEMMA SplicedElements ==
  ASSUME NEW s \in Seq(Packets), NEW n \in 0 .. Len(s), NEW p, NEW r, Spliced(r, s, n, p)
  PROVE  Elements(r) = Elements(s) \cup {p}
<1>1. ASSUME NEW i \in DOMAIN r PROVE r[i] \in Elements(s) \cup {p}
  <2>1. CASE i <= n
    BY <2>1 DEF Elements, Spliced
  <2>2. CASE i = n + 1
    <3>1. r[n + 1] = p
      BY DEF Spliced
    <3>2. QED
      BY <2>2, <3>1
  <2>3. CASE i > n + 1
    <3>1. i - 1 \in n + 1 .. Len(s) /\ i - 1 \in DOMAIN s
      BY <2>3 DEF Spliced
    <3>2. r[i] = s[i - 1]
      BY <3>1 DEF Spliced
    <3>3. QED
      BY <3>1, <3>2 DEF Elements
  <2>4. QED
    BY <2>1, <2>2, <2>3 DEF Spliced
<1>2. p \in Elements(r)
  <2>1. n + 1 \in DOMAIN r
    BY DEF Spliced
  <2>2. QED
    BY <2>1 DEF Elements, Spliced
<1>3. ASSUME NEW i \in DOMAIN s PROVE s[i] \in Elements(r)
  <2>1. CASE i <= n
    <3>1. i \in DOMAIN r /\ r[i] = s[i]
      BY <2>1 DEF Spliced
    <3>2. QED
      BY <3>1 DEF Elements
  <2>2. CASE i > n
    <3> i \in n + 1 .. Len(s)
      BY <2>2
    <3>1. i + 1 \in DOMAIN r /\ r[i + 1] = s[i]
      BY DEF Spliced
    <3>2. QED
      BY <3>1 DEF Elements
  <2>3. QED
    BY <2>1, <2>2
<1>4. QED
  BY <1>1, <1>2, <1>3 DEF Elements

LEMMA SplicedNoDup ==
  ASSUME NEW s \in Seq(Packets), NEW n \in 0 .. Len(s), NEW p, NEW r, Spliced(r, s, n, p),
         NoDup(s), p \notin Elements(s)
  PROVE  NoDup(r)
<1> DEFINE from(i) == IF i <= n THEN i ELSE i - 1
<1>1. ASSUME NEW i \in DOMAIN r, i # n + 1
      PROVE  from(i) \in DOMAIN s /\ r[i] = s[from(i)] /\ r[i] # p
  <2>1. from(i) \in DOMAIN s
    BY <1>1 DEF Spliced
  <2>2. r[i] = s[from(i)]
    <3>1. CASE i <= n
      BY <3>1 DEF Spliced
    <3>2. CASE i > n + 1
      <4>1. i - 1 \in n + 1 .. Len(s)
        BY <3>2 DEF Spliced
      <4>2. QED
        BY <3>2, <4>1 DEF Spliced
    <3>3. QED
      BY <1>1, <3>1, <3>2 DEF Spliced
  <2>3. QED
    BY <2>1, <2>2 DEF Elements
<1>2. r[n + 1] = p
  BY DEF Spliced
<1>3. ASSUME NEW i \in DOMAIN r, NEW j \in DOMAIN r, r[i] = r[j] PROVE i = j
  <2>1. CASE i = n + 1 \/ j = n + 1
    BY <1>1, <1>2, <1>3, <2>1
  <2>2. CASE i # n + 1 /\ j # n + 1
    <3>1. from(i) = from(j)
      BY <1>1, <1>3, <2>2 DEF NoDup
    <3>2. QED
      BY <2>2, <3>1 DEF Spliced
  <2>3. QED
    BY <2>1, <2>2
<1>4. QED
  BY <1>3 DEF NoDup

LEMMA SplicedRising ==
  ASSUME NEW s \in Seq(Packets), NEW n \in 0 .. Len(s), NEW p \in Packets, NEW r, Spliced(r, s, n, p),
         Rising(s), \A i \in 1 .. n : s[i] < p, \A i \in n + 1 .. Len(s) : p < s[i]
  PROVE  Rising(r)
<1> DEFINE from(i) == IF i <= n THEN i ELSE i - 1
<1>1. ASSUME NEW i \in DOMAIN r, i # n + 1
      PROVE  from(i) \in DOMAIN s /\ r[i] = s[from(i)]
  <2>1. from(i) \in DOMAIN s
    BY <1>1 DEF Spliced
  <2>2. r[i] = s[from(i)]
    <3>1. CASE i <= n
      BY <3>1 DEF Spliced
    <3>2. CASE i > n + 1
      <4>1. i - 1 \in n + 1 .. Len(s)
        BY <3>2 DEF Spliced
      <4>2. QED
        BY <3>2, <4>1 DEF Spliced
    <3>3. QED
      BY <1>1, <3>1, <3>2 DEF Spliced
  <2>3. QED
    BY <2>1, <2>2
<1>2. r[n + 1] = p
  BY DEF Spliced
<1>3. ASSUME NEW i \in DOMAIN r, NEW j \in DOMAIN r, i < j PROVE r[i] < r[j]
  <2>0. i \in Int /\ j \in Int
    BY DEF Spliced
  <2>1. CASE i = n + 1
    <3>1. from(j) \in n + 1 .. Len(s) /\ r[j] = s[from(j)]
      BY <1>1, <1>3, <2>0, <2>1
    <3>2. QED
      BY <1>2, <2>1, <3>1
  <2>2. CASE j = n + 1
    <3>1. from(i) \in 1 .. n /\ r[i] = s[from(i)]
      BY <1>1, <1>3, <2>0, <2>2
    <3>2. QED
      BY <1>2, <2>2, <3>1
  <2>3. CASE i # n + 1 /\ j # n + 1
    <3>1. from(i) < from(j)
      BY <1>3, <2>0, <2>3
    <3>2. QED
      BY <1>1, <2>3, <3>1 DEF Rising
  <2>4. QED
    BY <2>1, <2>2, <2>3
<1>4. QED
  BY <1>3 DEF Rising

LEMMA Beheaded ==
  ASSUME NEW s \in Seq(Packets), s # << >>
  PROVE  /\ Head(s) \in Packets /\ Tail(s) \in Seq(Packets)
         /\ Elements(s) = Elements(Tail(s)) \cup {Head(s)}
         /\ NoDup(s) => NoDup(Tail(s)) /\ Head(s) \notin Elements(Tail(s))
         /\ Rising(s) => Rising(Tail(s)) /\ \A q \in Elements(Tail(s)) : Head(s) < q
<1> DEFINE t == Tail(s)
<1>1. /\ Len(s) \in Nat \ {0} /\ Head(s) = s[1] /\ Head(s) \in Packets
      /\ t \in Seq(Packets) /\ Len(t) = Len(s) - 1
      /\ \A i \in 1 .. Len(t) : t[i] = s[i + 1]
  OBVIOUS
<1> HIDE DEF t
<1>2. DOMAIN t = 1 .. Len(s) - 1 /\ DOMAIN s = 1 .. Len(s)
  BY <1>1
<1>3. ASSUME NEW i \in DOMAIN s PROVE s[i] \in Elements(t) \cup {Head(s)}
  <2>1. CASE i = 1
    BY <1>1, <2>1
  <2>2. CASE i # 1
    <3>1. i - 1 \in DOMAIN t /\ t[i - 1] = s[i]
      BY <1>1, <1>2, <2>2
    <3>2. QED
      BY <3>1 DEF Elements
  <2>3. QED
    BY <2>1, <2>2
<1>4. ASSUME NEW i \in DOMAIN t PROVE i + 1 \in DOMAIN s /\ t[i] = s[i + 1] /\ i + 1 # 1 /\ 1 < i + 1 /\ i \in Int
  BY <1>1, <1>2
<1>5. 1 \in DOMAIN s
  BY <1>1, <1>2
<1>6. Elements(s) = Elements(t) \cup {Head(s)}
  BY <1>1, <1>3, <1>4, <1>5 DEF Elements
<1>7. ASSUME NoDup(s) PROVE NoDup(t) /\ Head(s) \notin Elements(t)
  <2>1. ASSUME NEW i \in DOMAIN t, NEW j \in DOMAIN t, t[i] = t[j] PROVE i = j
    <3>1. i + 1 = j + 1
      BY <1>4, <1>7, <2>1 DEF NoDup
    <3>2. QED
      BY <1>4, <3>1
  <2>2. QED
    BY <1>1, <1>4, <1>5, <1>7, <2>1 DEF NoDup, Elements
<1>8. ASSUME Rising(s) PROVE Rising(t) /\ \A q \in Elements(t) : Head(s) < q
  <2>1. ASSUME NEW i \in DOMAIN t, NEW j \in DOMAIN t, i < j PROVE t[i] < t[j]
    <3>1. i + 1 < j + 1
      BY <1>4, <2>1
    <3>2. QED
      BY <1>4, <1>8, <3>1 DEF Rising
  <2>2. QED
    BY <1>1, <1>4, <1>5, <1>8, <2>1 DEF Rising, Elements
<1>9. QED
  BY <1>1, <1>6, <1>7, <1>8 DEF t

(***************************************************************************)
(* The power save queues.                                                  *)
(***************************************************************************)

Ids == Packets \cup {NoPkt}
Queues == [Dests -> [Fifos -> Seq(Packets)]]
Psqs == [delayed : Queues, suppressed : Queues, delay_map : SUBSET Fifos,
         enqpkt : [Fifos -> Int], stop : BOOLEAN]

(* The packets that wait for destination d and FIFO f, and that each waits *)
(* there once.                                                             *)
At(q, d, f) == Elements(q.delayed[d][f]) \cup Elements(q.suppressed[d][f])
Tidy(q, d, f) ==
  /\ NoDup(q.delayed[d][f]) /\ NoDup(q.suppressed[d][f])
  /\ Elements(q.delayed[d][f]) \cap Elements(q.suppressed[d][f]) = {}

(* Only the queues of destination d and FIFO f change.                     *)
Elsewhere(r, q, d, f) ==
  \A e \in Dests, g \in Fifos : e # d \/ g # f =>
    r.delayed[e][g] = q.delayed[e][g] /\ r.suppressed[e][g] = q.suppressed[e][g]

(* Packet p joins them, or is taken from them.                             *)
Joins(r, q, d, f, p) ==
  /\ Elsewhere(r, q, d, f)
  /\ \/ /\ r.suppressed[d][f] = q.suppressed[d][f]
        /\ \E n \in 0 .. Len(q.delayed[d][f]) : Spliced(r.delayed[d][f], q.delayed[d][f], n, p)
     \/ /\ r.delayed[d][f] = q.delayed[d][f]
        /\ \E n \in 0 .. Len(q.suppressed[d][f]) : Spliced(r.suppressed[d][f], q.suppressed[d][f], n, p)
Leaves(r, q, d, f, p) ==
  /\ Elsewhere(r, q, d, f)
  /\ \/ /\ q.suppressed[d][f] # << >> /\ p = Head(q.suppressed[d][f])
        /\ r.suppressed[d][f] = Tail(q.suppressed[d][f])
        /\ r.delayed[d][f] = q.delayed[d][f]
     \/ /\ q.suppressed[d][f] = << >> /\ q.delayed[d][f] # << >>
        /\ p = Head(q.delayed[d][f])
        /\ r.delayed[d][f] = Tail(q.delayed[d][f])
        /\ r.suppressed[d][f] = q.suppressed[d][f]

Empties(r, q, d) ==
  \A e \in Dests, f \in Fifos :
    IF e = d THEN r.delayed[e][f] = << >> /\ r.suppressed[e][f] = << >>
             ELSE r.delayed[e][f] = q.delayed[e][f] /\ r.suppressed[e][f] = q.suppressed[e][f]

LEMMA QueuesType ==
  ASSUME NEW q \in Psqs, NEW d \in Dests, NEW f \in Fifos
  PROVE  q.delayed[d][f] \in Seq(Packets) /\ q.suppressed[d][f] \in Seq(Packets)
  BY DEF Psqs, Queues

LEMMA ElementsType ==
  ASSUME NEW s \in Seq(Packets)
  PROVE  Elements(s) \subseteq Packets /\ (s = << >> <=> Elements(s) = {})
<1>1. \A i \in DOMAIN s : s[i] \in Packets
  OBVIOUS
<1>2. ASSUME s # << >> PROVE s[1] \in Elements(s)
  <2>1. 1 \in DOMAIN s
    BY <1>2
  <2>2. QED
    BY <2>1 DEF Elements
<1>3. s = << >> => DOMAIN s = {}
  OBVIOUS
<1>4. QED
  BY <1>1, <1>2, <1>3 DEF Elements

LEMMA AtType ==
  ASSUME NEW q \in Psqs, NEW d \in Dests
  PROVE  /\ \A f \in Fifos : At(q, d, f) \subseteq Packets
         /\ QueuedFor(q, d) = UNION {At(q, d, f) : f \in Fifos}
         /\ QueuedFor(q, d) \subseteq Packets
         /\ IsFiniteSet(QueuedFor(q, d)) /\ PsqCount(q, d) \in Nat
<1>1. \A f \in Fifos : At(q, d, f) \subseteq Packets
  BY QueuesType, ElementsType DEF At
<1>2. QueuedFor(q, d) = UNION {At(q, d, f) : f \in Fifos}
  BY DEF QueuedFor, At
<1>3. QueuedFor(q, d) \subseteq Packets
  BY <1>1, <1>2
<1>4. IsFiniteSet(Packets)
  BY CountAssumption, FS_Interval DEF Packets
<1>5. IsFiniteSet(QueuedFor(q, d))
  BY <1>3, <1>4, FS_Subset
<1>6. QED
  BY <1>1, <1>2, <1>3, <1>5, FS_CardinalityType DEF PsqCount

LEMMA JoinsAt ==
  ASSUME NEW q \in Psqs, NEW r \in Psqs, NEW d \in Dests, NEW f \in Fifos, NEW p \in Packets,
         Joins(r, q, d, f, p)
  PROVE  /\ At(r, d, f) = At(q, d, f) \cup {p}
         /\ \A e \in Dests, g \in Fifos : e # d \/ g # f => At(r, e, g) = At(q, e, g)
         /\ p \notin At(q, d, f) =>
              \A e \in Dests, g \in Fifos : Tidy(q, e, g) => Tidy(r, e, g)
<1>1. q.delayed[d][f] \in Seq(Packets) /\ q.suppressed[d][f] \in Seq(Packets)
  BY QueuesType
<1>2. /\ Elements(r.delayed[d][f]) = Elements(q.delayed[d][f]) \cup {p}
      /\ Elements(r.suppressed[d][f]) = Elements(q.suppressed[d][f])
      \/ /\ Elements(r.delayed[d][f]) = Elements(q.delayed[d][f])
         /\ Elements(r.suppressed[d][f]) = Elements(q.suppressed[d][f]) \cup {p}
  BY <1>1, SplicedElements DEF Joins
<1>3. \A e \in Dests, g \in Fifos : e # d \/ g # f =>
        At(r, e, g) = At(q, e, g) /\ (Tidy(q, e, g) => Tidy(r, e, g))
  BY DEF Joins, Elsewhere, At, Tidy
<1>4. ASSUME p \notin At(q, d, f), Tidy(q, d, f) PROVE Tidy(r, d, f)
  <2>1. NoDup(r.delayed[d][f]) /\ NoDup(r.suppressed[d][f])
    <3>1. p \notin Elements(q.delayed[d][f]) /\ p \notin Elements(q.suppressed[d][f])
      BY <1>4 DEF At
    <3>2. QED
      BY <1>1, <1>4, <3>1, SplicedNoDup DEF Joins, Tidy
  <2>2. QED
    BY <1>2, <1>4, <2>1 DEF Tidy, At
<1>5. At(r, d, f) = At(q, d, f) \cup {p}
  BY <1>2 DEF At
<1>6. QED
  BY <1>3, <1>4, <1>5

LEMMA LeavesAt ==
  ASSUME NEW q \in Psqs, NEW r \in Psqs, NEW d \in Dests, NEW f \in Fifos, NEW p,
         Leaves(r, q, d, f, p), \A g \in Fifos : Tidy(q, d, g)
  PROVE  /\ p \in Packets /\ p \in At(q, d, f) /\ At(r, d, f) = At(q, d, f) \ {p}
         /\ \A e \in Dests, g \in Fifos : e # d \/ g # f => At(r, e, g) = At(q, e, g)
         /\ \A e \in Dests, g \in Fifos : Tidy(q, e, g) => Tidy(r, e, g)
<1>1. q.delayed[d][f] \in Seq(Packets) /\ q.suppressed[d][f] \in Seq(Packets)
  BY QueuesType
<1>2. Tidy(q, d, f)
  OBVIOUS
<1>3. \A e \in Dests, g \in Fifos : e # d \/ g # f =>
        At(r, e, g) = At(q, e, g) /\ (Tidy(q, e, g) => Tidy(r, e, g))
  BY DEF Leaves, Elsewhere, At, Tidy
<1>4. CASE /\ q.suppressed[d][f] # << >> /\ p = Head(q.suppressed[d][f])
           /\ r.suppressed[d][f] = Tail(q.suppressed[d][f])
           /\ r.delayed[d][f] = q.delayed[d][f]
  <2>1. /\ p \in Packets /\ NoDup(r.suppressed[d][f])
        /\ Elements(q.suppressed[d][f]) = Elements(r.suppressed[d][f]) \cup {p}
        /\ p \notin Elements(r.suppressed[d][f])
    BY <1>1, <1>2, <1>4, Beheaded DEF Tidy
  <2>2. p \notin Elements(q.delayed[d][f])
    BY <1>2, <2>1 DEF Tidy
  <2>3. /\ p \in At(q, d, f) /\ At(r, d, f) = At(q, d, f) \ {p}
    BY <1>4, <2>1, <2>2 DEF At
  <2>4. Tidy(r, d, f)
    BY <1>2, <1>4, <2>1 DEF Tidy
  <2>5. QED
    BY <1>3, <2>1, <2>3, <2>4
<1>5. CASE /\ q.suppressed[d][f] = << >> /\ q.delayed[d][f] # << >>
           /\ p = Head(q.delayed[d][f])
           /\ r.delayed[d][f] = Tail(q.delayed[d][f])
           /\ r.suppressed[d][f] = q.suppressed[d][f]
  <2>1. /\ p \in Packets /\ NoDup(r.delayed[d][f])
        /\ Elements(q.delayed[d][f]) = Elements(r.delayed[d][f]) \cup {p}
        /\ p \notin Elements(r.delayed[d][f])
    BY <1>1, <1>2, <1>5, Beheaded DEF Tidy
  <2>2. p \notin Elements(q.suppressed[d][f])
    BY <1>2, <2>1 DEF Tidy
  <2>3. /\ p \in At(q, d, f) /\ At(r, d, f) = At(q, d, f) \ {p}
    BY <1>5, <2>1, <2>2 DEF At
  <2>4. Tidy(r, d, f)
    BY <1>2, <1>5, <2>1 DEF Tidy
  <2>5. QED
    BY <1>3, <2>1, <2>3, <2>4
<1>6. QED
  BY <1>4, <1>5 DEF Leaves

LEMMA FlowCheckType ==
  ASSUME NEW stop \in BOOLEAN, NEW n \in Nat
  PROVE  FlowCheck(stop, n) \in BOOLEAN /\ (FlowCheck(stop, n) => n > Low)
<1>1. Hi \in Nat /\ Low \in Nat /\ Low < Hi
  BY WaterAssumption
<1>2. CASE stop = TRUE
  BY <1>1, <1>2 DEF FlowCheck
<1>3. CASE stop = FALSE
  BY <1>1, <1>3 DEF FlowCheck
<1>4. QED
  BY <1>2, <1>3

(* The water marks are checked against what waits for destination d; a     *)
(* packet of FIFO f is counted, or counted no more; a suppressed packet p  *)
(* is inserted and another is appended.                                    *)
Rechecked(r, q, d) == r.stop = FlowCheck(q.stop, PsqCount(r, d))
CountsUp(r, q, f) == r.delay_map = q.delay_map \cup {f} /\ r.enqpkt = [q.enqpkt EXCEPT ![f] = @ + 1]
CountsDown(r, q, f) ==
  /\ r.delay_map = (IF q.enqpkt[f] = 1 THEN q.delay_map \ {f} ELSE q.delay_map)
  /\ r.enqpkt = [q.enqpkt EXCEPT ![f] = @ - 1]
Sorts(r, q, d, f, p, supp) ==
  IF supp
    THEN r.delayed[d][f] = q.delayed[d][f] /\ r.suppressed[d][f] = Insert(q.suppressed[d][f], p)
    ELSE r.delayed[d][f] = Append(q.delayed[d][f], p) /\ r.suppressed[d][f] = q.suppressed[d][f]

LEMMA EnqEffect ==
  ASSUME NEW q \in Psqs, NEW p \in Packets, NEW d \in Dests, NEW f \in Fifos, NEW supp \in BOOLEAN
  PROVE  LET r == Enq(q, p, d, f, supp)
         IN  /\ r \in Psqs /\ Joins(r, q, d, f, p) /\ Sorts(r, q, d, f, p, supp)
             /\ CountsUp(r, q, f) /\ Rechecked(r, q, d)
<1> DEFINE put == IF supp THEN [q EXCEPT !.suppressed[d][f] = Insert(@, p)]
                          ELSE [q EXCEPT !.delayed[d][f] = Append(@, p)]
           r == Enq(q, p, d, f, supp)
<1>1. q.delayed[d][f] \in Seq(Packets) /\ q.suppressed[d][f] \in Seq(Packets)
  BY QueuesType
<1>2. /\ Spliced(Append(q.delayed[d][f], p), q.delayed[d][f], Len(q.delayed[d][f]), p)
      /\ \E n \in 0 .. Len(q.suppressed[d][f]) :
           Spliced(Insert(q.suppressed[d][f], p), q.suppressed[d][f], n, p)
  BY <1>1, AppendSplices, InsertSplices
<1>3. Append(q.delayed[d][f], p) \in Seq(Packets) /\ Insert(q.suppressed[d][f], p) \in Seq(Packets)
  BY <1>2 DEF Spliced
<1>4. put \in Psqs
  BY <1>1, <1>3 DEF Psqs, Queues
<1>5. r = [put EXCEPT !.delay_map = @ \cup {f}, !.enqpkt[f] = @ + 1,
                      !.stop = FlowCheck(@, PsqCount(put, d))]
  BY DEF Enq
<1>6. PsqCount(put, d) \in Nat
  BY <1>4, AtType
<1>7. put.delay_map = q.delay_map /\ put.enqpkt = q.enqpkt /\ put.stop = q.stop
  BY DEF Psqs
<1>8. /\ IF supp THEN put.delayed[d][f] = q.delayed[d][f]
                      /\ put.suppressed[d][f] = Insert(q.suppressed[d][f], p)
                 ELSE put.delayed[d][f] = Append(q.delayed[d][f], p)
                      /\ put.suppressed[d][f] = q.suppressed[d][f]
      /\ Elsewhere(put, q, d, f)
  BY DEF Psqs, Queues, Elsewhere
<1> HIDE DEF put
<1>9. put.stop \in BOOLEAN /\ FlowCheck(put.stop, PsqCount(put, d)) \in BOOLEAN
  BY <1>4, <1>6, FlowCheckType DEF Psqs
<1>10. r.delayed = put.delayed /\ r.suppressed = put.suppressed
  BY <1>4, <1>5 DEF Psqs
<1>11. /\ r.delay_map = put.delay_map \cup {f} /\ r.enqpkt = [put.enqpkt EXCEPT ![f] = @ + 1]
       /\ r.stop = FlowCheck(put.stop, PsqCount(put, d)) /\ r \in Psqs
  <2> DEFINE b == FlowCheck(put.stop, PsqCount(put, d))
             m == put.delay_map \cup {f}
             e == [put.enqpkt EXCEPT ![f] = @ + 1]
  <2>1. m \in SUBSET Fifos /\ e \in [Fifos -> Int]
    BY <1>4 DEF Psqs
  <2>2. r = [put EXCEPT !.delay_map = m, !.enqpkt = e, !.stop = b]
    BY <1>4, <1>5 DEF Psqs
  <2>3. b \in BOOLEAN
    BY <1>9
  <2> HIDE DEF b, m, e, r
  <2>4. r.delay_map = m /\ r.enqpkt = e /\ r.stop = b /\ r \in Psqs
    BY <1>4, <2>1, <2>2, <2>3 DEF Psqs
  <2>5. QED
    BY <2>4 DEF b, m, e
<1> HIDE DEF r
<1>12. PsqCount(r, d) = PsqCount(put, d)
  BY <1>10 DEF PsqCount, QueuedFor
<1>13. Joins(r, q, d, f, p)
  <2>1. Elsewhere(r, q, d, f)
    BY <1>8, <1>10 DEF Elsewhere
  <2>2. CASE supp
    BY <1>2, <1>8, <1>10, <2>1, <2>2 DEF Joins
  <2>3. CASE ~supp
    <3>1. Len(q.delayed[d][f]) \in 0 .. Len(q.delayed[d][f])
      BY <1>1
    <3>2. QED
      BY <1>2, <1>8, <1>10, <2>1, <2>3, <3>1 DEF Joins
  <2>4. QED
    BY <2>2, <2>3
<1>14. QED
  BY <1>7, <1>8, <1>10, <1>11, <1>12, <1>13 DEF r, Sorts, CountsUp, Rechecked

LEMMA DeqEffect ==
  ASSUME NEW q \in Psqs, NEW d \in Dests, NEW f \in Fifos,
         q.suppressed[d][f] # << >> \/ q.delayed[d][f] # << >>
  PROVE  LET r == Deq(q, d, f)
         IN  /\ r \in Psqs /\ Leaves(r, q, d, f, Head(q.suppressed[d][f] \o q.delayed[d][f]))
             /\ CountsDown(r, q, f) /\ Rechecked(r, q, d)
<1> DEFINE got == IF q.suppressed[d][f] # << >>
                    THEN [q EXCEPT !.suppressed[d][f] = Tail(@)]
                    ELSE [q EXCEPT !.delayed[d][f] = Tail(@)]
           r == Deq(q, d, f)
           h == Head(q.suppressed[d][f] \o q.delayed[d][f])
<1>1. q.delayed[d][f] \in Seq(Packets) /\ q.suppressed[d][f] \in Seq(Packets)
  BY QueuesType
<1>2. IF q.suppressed[d][f] # << >> THEN h = Head(q.suppressed[d][f])
                                    ELSE h = Head(q.delayed[d][f])
  <2>1. ASSUME NEW a \in Seq(Packets), NEW b \in Seq(Packets)
        PROVE  IF a # << >> THEN Head(a \o b) = Head(a) ELSE a \o b = b
    OBVIOUS
  <2>2. QED
    BY <1>1, <2>1
<1> HIDE DEF h
<1>3. got \in Psqs
  <2>1. CASE q.suppressed[d][f] # << >>
    <3>1. Tail(q.suppressed[d][f]) \in Seq(Packets)
      BY <1>1, <2>1
    <3>2. QED
      BY <2>1, <3>1 DEF Psqs, Queues
  <2>2. CASE q.suppressed[d][f] = << >>
    <3>1. Tail(q.delayed[d][f]) \in Seq(Packets)
      BY <1>1, <2>2
    <3>2. QED
      BY <2>2, <3>1 DEF Psqs, Queues
  <2>3. QED
    BY <2>1, <2>2
<1>4. r = [got EXCEPT !.enqpkt[f] = @ - 1,
                      !.delay_map = IF q.enqpkt[f] = 1 THEN @ \ {f} ELSE @,
                      !.stop = FlowCheck(@, PsqCount(got, d))]
  BY DEF Deq
<1>5. PsqCount(got, d) \in Nat
  BY <1>3, AtType
<1>6. got.delay_map = q.delay_map /\ got.enqpkt = q.enqpkt /\ got.stop = q.stop
  BY DEF Psqs
<1>7. /\ IF q.suppressed[d][f] # << >>
           THEN got.delayed[d][f] = q.delayed[d][f] /\ got.suppressed[d][f] = Tail(q.suppressed[d][f])
           ELSE got.delayed[d][f] = Tail(q.delayed[d][f]) /\ got.suppressed[d][f] = q.suppressed[d][f]
      /\ Elsewhere(got, q, d, f)
  BY DEF Psqs, Queues, Elsewhere
<1> HIDE DEF got
<1>8. got.stop \in BOOLEAN /\ FlowCheck(got.stop, PsqCount(got, d)) \in BOOLEAN
  BY <1>3, <1>5, FlowCheckType DEF Psqs
<1>9. r.delayed = got.delayed /\ r.suppressed = got.suppressed
  BY <1>3, <1>4 DEF Psqs
<1>10. /\ r.delay_map = (IF q.enqpkt[f] = 1 THEN got.delay_map \ {f} ELSE got.delay_map)
       /\ r.enqpkt = [got.enqpkt EXCEPT ![f] = @ - 1]
       /\ r.stop = FlowCheck(got.stop, PsqCount(got, d)) /\ r \in Psqs
  <2> DEFINE b == FlowCheck(got.stop, PsqCount(got, d))
             m == IF q.enqpkt[f] = 1 THEN got.delay_map \ {f} ELSE got.delay_map
             e == [got.enqpkt EXCEPT ![f] = @ - 1]
  <2>1. m \in SUBSET Fifos /\ e \in [Fifos -> Int]
    BY <1>3 DEF Psqs
  <2>2. r = [got EXCEPT !.delay_map = m, !.enqpkt = e, !.stop = b]
    BY <1>3, <1>4 DEF Psqs
  <2>3. b \in BOOLEAN
    BY <1>8
  <2> HIDE DEF b, m, e, r
  <2>4. r.delay_map = m /\ r.enqpkt = e /\ r.stop = b /\ r \in Psqs
    BY <1>3, <2>1, <2>2, <2>3 DEF Psqs
  <2>5. QED
    BY <2>4 DEF b, m, e
<1> HIDE DEF r
<1>11. PsqCount(r, d) = PsqCount(got, d)
  BY <1>9 DEF PsqCount, QueuedFor
<1>12. Leaves(r, q, d, f, h)
  BY <1>2, <1>7, <1>9 DEF Leaves, Elsewhere
<1>13. QED
  BY <1>6, <1>10, <1>11, <1>12 DEF r, h, CountsDown, Rechecked

LEMMA PutBackEffect ==
  ASSUME NEW q \in Psqs, NEW p \in Packets, pk[p].mac \in Dests, pk[p].fifo \in Fifos
  PROVE  LET r == PutBack(q, p)
         IN  /\ r \in Psqs /\ Joins(r, q, pk[p].mac, pk[p].fifo, p)
             /\ r.delay_map = q.delay_map /\ r.enqpkt = q.enqpkt /\ r.stop = q.stop
<1> DEFINE d == pk[p].mac
           f == pk[p].fifo
           r == PutBack(q, p)
<1> d \in Dests /\ f \in Fifos
  OBVIOUS
<1>1. q.delayed[d][f] \in Seq(Packets) /\ q.suppressed[d][f] \in Seq(Packets)
  BY QueuesType
<1>2. /\ Spliced(<< p >> \o q.delayed[d][f], q.delayed[d][f], 0, p)
      /\ Spliced(<< p >> \o q.suppressed[d][f], q.suppressed[d][f], 0, p)
  BY <1>1, PrependSplices
<1>3. << p >> \o q.delayed[d][f] \in Seq(Packets) /\ << p >> \o q.suppressed[d][f] \in Seq(Packets)
  BY <1>2 DEF Spliced
<1>4. r = IF pk[p].supp THEN [q EXCEPT !.suppressed[d][f] = << p >> \o @]
                        ELSE [q EXCEPT !.delayed[d][f] = << p >> \o @]
  BY DEF PutBack
<1> HIDE DEF d, f
<1> DEFINE ds == << p >> \o q.delayed[d][f]
           ss == << p >> \o q.suppressed[d][f]
           Effect == /\ r \in Psqs
                     /\ r.delay_map = q.delay_map /\ r.enqpkt = q.enqpkt /\ r.stop = q.stop
                     /\ Elsewhere(r, q, d, f)
                     /\ \/ r.suppressed[d][f] = q.suppressed[d][f] /\ r.delayed[d][f] = ds
                        \/ r.delayed[d][f] = q.delayed[d][f] /\ r.suppressed[d][f] = ss
<1>5. ASSUME pk[p].supp PROVE Effect
  <2>1. r = [q EXCEPT !.suppressed[d][f] = ss] /\ ss \in Seq(Packets)
    BY <1>3, <1>4, <1>5
  <2> HIDE DEF ss, ds, r
  <2>2. QED
    BY <2>1 DEF Psqs, Queues, Elsewhere
<1>6. ASSUME ~pk[p].supp PROVE Effect
  <2>1. r = [q EXCEPT !.delayed[d][f] = ds] /\ ds \in Seq(Packets)
    BY <1>3, <1>4, <1>6
  <2> HIDE DEF ds, ss, r
  <2>2. QED
    BY <2>1 DEF Psqs, Queues, Elsewhere
<1>7. Effect
  BY <1>5, <1>6
<1>8. 0 \in 0 .. Len(q.delayed[d][f]) /\ 0 \in 0 .. Len(q.suppressed[d][f])
  BY <1>1
<1> HIDE DEF r
<1>9. Joins(r, q, d, f, p)
  BY <1>2, <1>7, <1>8 DEF Joins
<1>10. QED
  BY <1>7, <1>9 DEF d, f, r

LEMMA FlushedEffect ==
  ASSUME NEW q \in Psqs, NEW d \in Dests, NEW r, r = Flushed(q, d)
  PROVE  /\ r \in Psqs /\ Empties(r, q, d)
         /\ r.delay_map = q.delay_map /\ r.enqpkt = q.enqpkt
         /\ r.stop = IF QueuedFor(q, d) = {} THEN q.stop ELSE FALSE
<1> DEFINE none == [f \in Fifos |-> << >>]
<1>1. none \in [Fifos -> Seq(Packets)]
  OBVIOUS
<1>2. FlowCheck(q.stop, 0) = FALSE
  <2>1. q.stop \in BOOLEAN
    BY DEF Psqs
  <2>2. QED
    BY <2>1, WaterAssumption DEF FlowCheck
<1>3. r = [q EXCEPT !.delayed[d] = none, !.suppressed[d] = none,
                    !.stop = IF QueuedFor(q, d) = {} THEN @ ELSE FALSE]
  BY <1>2 DEF Flushed
<1>4. \A f \in Fifos : none[f] = << >>
  OBVIOUS
<1> HIDE DEF none
<1> DEFINE b == IF QueuedFor(q, d) = {} THEN q.stop ELSE FALSE
           ds == [q.delayed EXCEPT ![d] = none]
           ss == [q.suppressed EXCEPT ![d] = none]
<1>5. /\ b \in BOOLEAN /\ ds \in Queues /\ ss \in Queues
      /\ r = [q EXCEPT !.delayed = ds, !.suppressed = ss, !.stop = b]
  BY <1>1, <1>3 DEF Psqs, Queues
<1>6. \A e \in Dests : IF e = d THEN ds[e] = none /\ ss[e] = none
                         ELSE ds[e] = q.delayed[e] /\ ss[e] = q.suppressed[e]
  BY DEF Psqs, Queues
<1> HIDE DEF b, ds, ss
<1>7. /\ r \in Psqs /\ r.delayed = ds /\ r.suppressed = ss
      /\ r.delay_map = q.delay_map /\ r.enqpkt = q.enqpkt /\ r.stop = b
  BY <1>5 DEF Psqs
<1>8. QED
  BY <1>4, <1>6, <1>7 DEF b, Empties

(***************************************************************************)
(* Credits.                                                                *)
(***************************************************************************)

(* A sum over the categories is made step by step.                         *)
LEMMA SumSteps ==
  ASSUME NEW g \in [ACs -> Int]
  PROVE  \E s \in [0 .. NAC -> Int] :
           /\ s[0] = 0 /\ Sum(g) = s[NAC]
           /\ \A n \in 1 .. NAC : s[n] = s[n - 1] + g[n - 1]
<1> DEFINE step == [x \in (1 .. NAC) \X Int |-> x[2] + g[x[1] - 1]]
           body(s, n) == IF n = 0 THEN 0 ELSE s[n - 1] + g[n - 1]
           rec(s) == s = [n \in 0 .. NAC |-> body(s, n)]
           s0 == CHOOSE s : rec(s)
<1>1. NAC \in Nat \ {0}
  BY CountAssumption
<1>2. step \in [(1 .. NAC) \X Int -> Int]
  <2>1. ASSUME NEW x \in (1 .. NAC) \X Int PROVE x[2] + g[x[1] - 1] \in Int
    <3>1. x[1] - 1 \in ACs /\ x[2] \in Int
      BY <1>1 DEF ACs
    <3>2. QED
      BY <3>1
  <2>2. QED
    BY <2>1
<1>3. PICK s \in [0 .. NAC -> Int] : s[0] = 0 /\ \A n \in 1 .. NAC : s[n] = step[<< n, s[n - 1] >>]
  <2> HIDE DEF step
  <2>1. NAC \in Nat /\ 0 \in Int
    BY <1>1
  <2>2. \E s \in [0 .. NAC -> Int] : Repeats(s, step, 0, NAC)
    BY <1>2, <2>1, Repeated
  <2>3. QED
    BY <2>2 DEF Repeats
<1>4. ASSUME NEW n \in 1 .. NAC PROVE s[n] = s[n - 1] + g[n - 1]
  <2>1. << n, s[n - 1] >> \in (1 .. NAC) \X Int
    BY <1>1
  <2>2. QED
    BY <1>3, <2>1
<1>5. rec(s)
  BY <1>1, <1>3, <1>4
<1> HIDE DEF rec
<1>6. rec(s0)
  BY <1>5
<1>7. Sum(g) = s0[NAC]
  BY DEF Sum, s0, rec, body
<1> HIDE DEF s0
<1>8. s0[0] = 0 /\ \A n \in 1 .. NAC : s0[n] = s0[n - 1] + g[n - 1]
  BY <1>1, <1>6 DEF rec
<1> DEFINE S == {n \in 0 .. NAC : s0[n] = s[n]}
<1>9. \A k \in 0 .. NAC - 1 : k \in S => k + 1 \in S
  BY <1>1, <1>4, <1>8
<1>10. 0 \in S
  BY <1>1, <1>3, <1>8
<1>11. NAC \in S
  <2> HIDE DEF S
  <2>1. QED
    BY <1>1, <1>9, <1>10, Climb
<1>12. QED
  BY <1>3, <1>4, <1>7, <1>11

(* A sum of natural numbers is one, and of zeros is zero.                  *)
LEMMA SumNat ==
  ASSUME NEW g \in [ACs -> Nat]
  PROVE  Sum(g) \in Nat /\ ((\A l \in ACs : g[l] = 0) => Sum(g) = 0)
<1>1. NAC \in Nat \ {0}
  BY CountAssumption
<1>2. PICK s \in [0 .. NAC -> Int] :
        /\ s[0] = 0 /\ Sum(g) = s[NAC]
        /\ \A n \in 1 .. NAC : s[n] = s[n - 1] + g[n - 1]
  BY SumSteps
<1> DEFINE S == {n \in 0 .. NAC : s[n] \in Nat /\ ((\A l \in ACs : g[l] = 0) => s[n] = 0)}
<1>3. 0 \in S
  BY <1>1, <1>2
<1>4. ASSUME NEW k \in 0 .. NAC - 1, k \in S PROVE k + 1 \in S
  <2>1. k + 1 \in 1 .. NAC /\ k \in ACs /\ g[k] \in Nat /\ k + 1 - 1 = k
    BY <1>1 DEF ACs
  <2>2. s[k + 1] = s[k] + g[k]
    BY <1>2, <2>1
  <2>3. QED
    BY <1>1, <1>4, <2>1, <2>2
<1>5. NAC \in S
  <2> HIDE DEF S
  <2>1. QED
    BY <1>1, <1>3, <1>4, Climb
<1>6. QED
  BY <1>2, <1>5

LEMMA SumChange ==
  ASSUME NEW g \in [ACs -> Int], NEW h \in [ACs -> Int], NEW l \in ACs, NEW k \in Int,
         h[l] = g[l] + k, \A m \in ACs : m # l => h[m] = g[m]
  PROVE  Sum(h) = Sum(g) + k
<1>1. NAC \in Nat \ {0} /\ l \in 0 .. NAC - 1
  BY CountAssumption DEF ACs
<1>2. PICK s \in [0 .. NAC -> Int] :
        /\ s[0] = 0 /\ Sum(g) = s[NAC]
        /\ \A n \in 1 .. NAC : s[n] = s[n - 1] + g[n - 1]
  BY SumSteps
<1>3. PICK t \in [0 .. NAC -> Int] :
        /\ t[0] = 0 /\ Sum(h) = t[NAC]
        /\ \A n \in 1 .. NAC : t[n] = t[n - 1] + h[n - 1]
  BY SumSteps
<1> DEFINE S == {n \in 0 .. NAC : (n <= l => t[n] = s[n]) /\ (n > l => t[n] = s[n] + k)}
<1>4. 0 \in S
  BY <1>1, <1>2, <1>3
<1>5. ASSUME NEW n \in 0 .. NAC - 1, n \in S PROVE n + 1 \in S
  <2>1. (n <= l => t[n] = s[n]) /\ (n > l => t[n] = s[n] + k)
    BY <1>5
  <2>2. SUFFICES (n + 1 <= l => t[n + 1] = s[n + 1]) /\ (n + 1 > l => t[n + 1] = s[n + 1] + k)
    BY <1>1
  <2> HIDE DEF S
  <2>3. n + 1 \in 1 .. NAC /\ n \in ACs /\ n + 1 - 1 = n
    BY <1>1 DEF ACs
  <2>4. g[n] \in Int /\ h[n] \in Int /\ s[n] \in Int /\ t[n] \in Int
    BY <1>1, <2>3
  <2>5. s[n + 1] = s[n] + g[n] /\ t[n + 1] = t[n] + h[n]
    BY <1>2, <1>3, <2>3
  <2>6. CASE n = l
    <3>1. h[n] = g[n] + k /\ n <= l /\ ~(n + 1 <= l) /\ k \in Int
      BY <1>1, <2>6
    <3>2. QED
      BY <2>1, <2>4, <2>5, <3>1
  <2>7. CASE n # l
    <3>1. h[n] = g[n] /\ (n <= l <=> n + 1 <= l) /\ (n > l <=> n + 1 > l)
      BY <1>1, <2>3, <2>7
    <3>2. QED
      BY <2>1, <2>4, <2>5, <3>1
  <2>8. QED
    BY <2>6, <2>7
<1>6. NAC \in S
  <2> HIDE DEF S
  <2>1. QED
    BY <1>1, <1>4, <1>5, Climb
<1>7. t[NAC] = s[NAC] + k
  BY <1>1, <1>6
<1>8. QED
  BY <1>2, <1>3, <1>7

CreditStates == [fifo : [Fifos -> Int], map : SUBSET Fifos, borrowed : [ACs -> [ACs -> Nat]]]

LentIn(c, f) == IF f \in ACs THEN Sum([b \in ACs |-> c.borrowed[b][f]]) ELSE 0
LoansIn(c, f) == IF f \in ACs THEN Sum(c.borrowed[f]) ELSE 0

(* What each FIFO has, has lent and borrowed and what h says its packets   *)
(* hold make up its credits; the lowest category never borrows.            *)
Balanced(c, h) ==
  /\ c \in CreditStates /\ h \in [Fifos -> Int]
  /\ \A f \in Fifos :
       /\ c.fifo[f] + LentIn(c, f) - LoansIn(c, f) + h[f] = Credits[f]
       /\ c.fifo[f] >= 0 /\ LoansIn(c, f) <= h[f]
  /\ \A l \in ACs : c.borrowed[0][l] = 0

(* Lent and borrowed amounts are integers, whichever FIFO they are of.     *)
LEMMA LoansType ==
  ASSUME NEW c \in CreditStates, NEW f \in Fifos
  PROVE  LentIn(c, f) \in Nat /\ LoansIn(c, f) \in Nat
<1>1. ASSUME f \in ACs
      PROVE  [b \in ACs |-> c.borrowed[b][f]] \in [ACs -> Nat] /\ c.borrowed[f] \in [ACs -> Nat]
  BY <1>1 DEF CreditStates
<1>2. QED
  BY <1>1, SumNat DEF LentIn, LoansIn

(* A FIFO's packets hold k credits more; b has borrowed k credits more of  *)
(* l; or f has spent k more of its own.                                    *)
Plus(h, f, k) == [h EXCEPT ![f] = @ + k]
Borrows(d, c, b, l, k) ==
  d.borrowed = [c.borrowed EXCEPT ![b][l] = @ + k] /\ d.fifo = [c.fifo EXCEPT ![l] = @ - k]
Spends(d, c, f, k) ==
  d.borrowed = c.borrowed /\ d.fifo = [c.fifo EXCEPT ![f] = @ - k]

LEMMA LoanBalanced ==
  ASSUME NEW c, NEW h, Balanced(c, h), NEW b \in ACs \ {0}, NEW l \in ACs, NEW k \in Int,
         NEW d \in CreditStates, Borrows(d, c, b, l, k), d.fifo[l] >= 0
  PROVE  Balanced(d, Plus(h, b, k))
<1> DEFINE H == Plus(h, b, k)
<1>1. c \in CreditStates /\ h \in [Fifos -> Int] /\ ACs \subseteq Fifos
  BY DEF Balanced, Fifos
<1>2. c.borrowed \in [ACs -> [ACs -> Nat]] /\ d.borrowed \in [ACs -> [ACs -> Nat]]
  BY <1>1 DEF CreditStates
<1>3. c.fifo \in [Fifos -> Int] /\ d.fifo \in [Fifos -> Int]
  BY <1>1 DEF CreditStates
<1>4. H \in [Fifos -> Int] /\ H[b] = h[b] + k /\ \A f \in Fifos : f # b => H[f] = h[f]
  BY <1>1 DEF Plus
<1>5. d.fifo[l] = c.fifo[l] - k /\ \A f \in Fifos : f # l => d.fifo[f] = c.fifo[f]
  BY <1>1, <1>3 DEF Borrows
<1>6. \A m, n \in ACs : d.borrowed[m][n] = c.borrowed[m][n] + IF m = b /\ n = l THEN k ELSE 0
  BY <1>2 DEF Borrows
<1>7. \A f \in Fifos : LentIn(d, f) = IF f = l THEN LentIn(c, f) + k ELSE LentIn(c, f)
  <2> SUFFICES ASSUME NEW f \in ACs
               PROVE  LentIn(d, f) = IF f = l THEN LentIn(c, f) + k ELSE LentIn(c, f)
    BY DEF LentIn
  <2> DEFINE g0 == [m \in ACs |-> c.borrowed[m][f]]
             g1 == [m \in ACs |-> d.borrowed[m][f]]
  <2>1. g0 \in [ACs -> Int] /\ g1 \in [ACs -> Int]
    BY <1>2
  <2>2. CASE f = l
    <3>1. g1[b] = g0[b] + k /\ \A m \in ACs : m # b => g1[m] = g0[m]
      BY <1>2, <1>6, <2>2
    <3> HIDE DEF g0, g1
    <3>2. Sum(g1) = Sum(g0) + k
      BY <2>1, <3>1, SumChange
    <3>3. QED
      BY <2>2, <3>2 DEF LentIn, g0, g1
  <2>3. CASE f # l
    <3>1. \A m \in ACs : d.borrowed[m][f] = c.borrowed[m][f]
      BY <1>2, <1>6, <2>3
    <3>2. g1 = g0
      BY <3>1
    <3>3. QED
      BY <2>3, <3>2 DEF LentIn
  <2>4. QED
    BY <2>2, <2>3
<1>8. \A f \in Fifos : LoansIn(d, f) = IF f = b THEN LoansIn(c, f) + k ELSE LoansIn(c, f)
  <2> SUFFICES ASSUME NEW f \in ACs
               PROVE  LoansIn(d, f) = IF f = b THEN LoansIn(c, f) + k ELSE LoansIn(c, f)
    BY DEF LoansIn
  <2>1. CASE f = b
    <3>1. /\ c.borrowed[b] \in [ACs -> Int] /\ d.borrowed[b] \in [ACs -> Int]
          /\ d.borrowed[b][l] = c.borrowed[b][l] + k
          /\ \A m \in ACs : m # l => d.borrowed[b][m] = c.borrowed[b][m]
      BY <1>2, <1>6
    <3>2. Sum(d.borrowed[b]) = Sum(c.borrowed[b]) + k
      BY <3>1, SumChange
    <3>3. QED
      BY <2>1, <3>2 DEF LoansIn
  <2>2. CASE f # b
    <3>1. d.borrowed[f] = c.borrowed[f]
      BY <1>2, <2>2 DEF Borrows
    <3>2. QED
      BY <2>2, <3>1 DEF LoansIn
  <2>3. QED
    BY <2>1, <2>2
<1>9. \A m \in ACs : d.borrowed[0][m] = 0
  <2>1. \A m \in ACs : c.borrowed[0][m] = 0 /\ 0 \in ACs /\ b # 0
    BY CountAssumption DEF Balanced, ACs
  <2>2. QED
    BY <1>6, <2>1
<1> HIDE DEF H
<1>10. ASSUME NEW f \in Fifos
       PROVE  /\ d.fifo[f] + LentIn(d, f) - LoansIn(d, f) + H[f] = Credits[f]
              /\ d.fifo[f] >= 0 /\ LoansIn(d, f) <= H[f]
  <2>1. /\ LentIn(c, f) \in Int /\ LoansIn(c, f) \in Int
        /\ c.fifo[f] \in Int /\ h[f] \in Int /\ Credits[f] \in Int
    BY <1>1, <1>3, LoansType, CreditAssumption
  <2>2. /\ c.fifo[f] + LentIn(c, f) - LoansIn(c, f) + h[f] = Credits[f]
        /\ c.fifo[f] >= 0 /\ LoansIn(c, f) <= h[f]
    BY DEF Balanced
  <2>3. /\ d.fifo[f] = IF f = l THEN c.fifo[f] - k ELSE c.fifo[f]
        /\ H[f] = IF f = b THEN h[f] + k ELSE h[f]
    BY <1>4, <1>5
  <2>4. /\ LentIn(d, f) = IF f = l THEN LentIn(c, f) + k ELSE LentIn(c, f)
        /\ LoansIn(d, f) = IF f = b THEN LoansIn(c, f) + k ELSE LoansIn(c, f)
    BY <1>7, <1>8
  <2>5. d.fifo[f] >= 0
    BY <2>2, <2>3
  <2>6. LoansIn(d, f) <= H[f]
    BY <2>1, <2>2, <2>3, <2>4
  <2>7. d.fifo[f] + LentIn(d, f) = c.fifo[f] + LentIn(c, f)
    BY <2>1, <2>3, <2>4
  <2>8. H[f] - LoansIn(d, f) = h[f] - LoansIn(c, f)
    BY <2>1, <2>3, <2>4
  <2>9. d.fifo[f] \in Int /\ H[f] \in Int /\ LentIn(d, f) \in Int /\ LoansIn(d, f) \in Int
    BY <1>3, <1>4, LoansType
  <2>10. QED
    BY <2>1, <2>2, <2>5, <2>6, <2>7, <2>8, <2>9
<1>11. QED
  BY <1>4, <1>9, <1>10 DEF Balanced, H

LEMMA OwnBalanced ==
  ASSUME NEW c, NEW h, Balanced(c, h), NEW f \in Fifos, NEW k \in Int, NEW d \in CreditStates,
         Spends(d, c, f, k), d.fifo[f] >= 0, LoansIn(c, f) <= h[f] + k
  PROVE  Balanced(d, Plus(h, f, k))
<1> DEFINE H == Plus(h, f, k)
<1>1. c \in CreditStates /\ h \in [Fifos -> Int]
  BY DEF Balanced
<1>2. c.fifo \in [Fifos -> Int] /\ d.fifo \in [Fifos -> Int]
  BY <1>1 DEF CreditStates
<1>3. H \in [Fifos -> Int] /\ \A g \in Fifos : H[g] = IF g = f THEN h[g] + k ELSE h[g]
  BY <1>1 DEF Plus
<1>4. \A g \in Fifos : d.fifo[g] = IF g = f THEN c.fifo[g] - k ELSE c.fifo[g]
  BY <1>2 DEF Spends
<1> HIDE DEF H
<1>5. ASSUME NEW g \in Fifos
      PROVE  /\ d.fifo[g] + LentIn(d, g) - LoansIn(d, g) + H[g] = Credits[g]
             /\ d.fifo[g] >= 0 /\ LoansIn(d, g) <= H[g]
  <2>1. LentIn(d, g) = LentIn(c, g) /\ LoansIn(d, g) = LoansIn(c, g)
    BY DEF LentIn, LoansIn, Spends
  <2>2. /\ LentIn(c, g) \in Int /\ LoansIn(c, g) \in Int
        /\ c.fifo[g] \in Int /\ h[g] \in Int /\ Credits[g] \in Int
    BY <1>1, <1>2, LoansType, CreditAssumption
  <2>3. /\ c.fifo[g] + LentIn(c, g) - LoansIn(c, g) + h[g] = Credits[g]
        /\ c.fifo[g] >= 0 /\ LoansIn(c, g) <= h[g]
    BY DEF Balanced
  <2>4. CASE g = f
    BY <1>3, <1>4, <2>1, <2>2, <2>3, <2>4
  <2>5. CASE g # f
    BY <1>3, <1>4, <2>1, <2>2, <2>3, <2>5
  <2>6. QED
    BY <2>4, <2>5
<1>6. QED
  BY <1>3, <1>5 DEF Balanced, H, Spends

LEMMA HighestLender ==
  ASSUME NEW c \in CreditStates, NEW f, Lenders(c, f) # {}
  PROVE  LET l == CHOOSE l \in Lenders(c, f) : \A k \in Lenders(c, f) : k <= l
         IN  l \in ACs /\ f \in ACs \ {0} /\ c.borrowed[f][l] > 0
<1>1. Lenders(c, f) \subseteq 0 .. NAC - 1 /\ NAC - 1 \in Nat
  BY CountAssumption DEF Lenders, ACs
<1>2. \E l \in Lenders(c, f) : \A k \in Lenders(c, f) : k <= l
  BY <1>1, Largest
<1>3. (CHOOSE l \in Lenders(c, f) : \A k \in Lenders(c, f) : k <= l) \in Lenders(c, f)
  BY <1>2
<1>4. QED
  BY <1>3 DEF Lenders

LEMMA ReturnBalanced ==
  ASSUME NEW c, NEW h, Balanced(c, h), NEW f \in Fifos, h[f] > 0
  PROVE  Balanced(Return(c, f), Plus(h, f, -1))
<1> DEFINE d == Return(c, f)
<1>1. c \in CreditStates /\ h \in [Fifos -> Int]
  BY DEF Balanced
<1>2. ASSUME Lenders(c, f) # {} PROVE Balanced(d, Plus(h, f, -1))
  <2> DEFINE l == CHOOSE l \in Lenders(c, f) : \A k \in Lenders(c, f) : k <= l
  <2>1. l \in ACs /\ f \in ACs \ {0} /\ c.borrowed[f][l] > 0
    BY <1>1, <1>2, HighestLender
  <2>2. d = [c EXCEPT !.map = @ \cup {f, l}, !.borrowed[f][l] = @ - 1, !.fifo[l] = @ + 1]
    BY <1>2 DEF Return
  <2> HIDE DEF l, d
  <2>3. c.borrowed \in [ACs -> [ACs -> Nat]] /\ c.fifo \in [Fifos -> Int] /\ l \in Fifos
    BY <1>1, <2>1 DEF CreditStates, Fifos
  <2> DEFINE owe == [c.borrowed EXCEPT ![f][l] = @ - 1]
             have == [c.fifo EXCEPT ![l] = @ + 1]
             m == c.map \cup {f, l}
  <2>4. owe \in [ACs -> [ACs -> Nat]] /\ have \in [Fifos -> Int] /\ m \in SUBSET Fifos
    BY <1>1, <2>1, <2>3 DEF CreditStates
  <2>5. d = [c EXCEPT !.map = m, !.borrowed = owe, !.fifo = have]
    BY <1>1, <2>2 DEF CreditStates
  <2> HIDE DEF owe, have, m
  <2>6. d.borrowed = owe /\ d.fifo = have /\ d \in CreditStates
    BY <1>1, <2>4, <2>5 DEF CreditStates
  <2>7. Borrows(d, c, f, l, -1) /\ d.fifo[l] >= 0
    <3>1. c.borrowed[f][l] - 1 = c.borrowed[f][l] + (-1) /\ c.fifo[l] + 1 = c.fifo[l] - (-1)
      BY <2>1, <2>3
    <3>2. c.fifo[l] >= 0 /\ have[l] = c.fifo[l] + 1
      BY <2>3 DEF Balanced, have
    <3>3. /\ d.borrowed = [c.borrowed EXCEPT ![f][l] = @ + (-1)]
          /\ d.fifo = [c.fifo EXCEPT ![l] = @ - (-1)]
      BY <2>6, <3>1 DEF owe, have
    <3>4. QED
      BY <2>3, <2>6, <3>2, <3>3 DEF Borrows
  <2>8. -1 \in Int
    OBVIOUS
  <2>9. QED
    BY <2>1, <2>6, <2>7, <2>8, LoanBalanced
<1>3. ASSUME Lenders(c, f) = {} PROVE Balanced(d, Plus(h, f, -1))
  <2>1. LoansIn(c, f) = 0
    <3>1. CASE f \in ACs
      <4>1. ASSUME NEW l \in ACs PROVE c.borrowed[f][l] = 0
        <5>1. CASE f = 0
          BY <5>1 DEF Balanced
        <5>2. CASE f # 0
          <6>1. c.borrowed[f][l] \in Nat /\ ~(c.borrowed[f][l] > 0)
            BY <1>1, <1>3, <3>1, <5>2 DEF CreditStates, Lenders
          <6>2. QED
            BY <6>1
        <5>3. QED
          BY <5>1, <5>2
      <4>2. c.borrowed[f] \in [ACs -> Nat]
        BY <1>1, <3>1 DEF CreditStates
      <4>3. QED
        BY <3>1, <4>1, <4>2, SumNat DEF LoansIn
    <3>2. CASE f \notin ACs
      BY <3>2 DEF LoansIn
    <3>3. QED
      BY <3>1, <3>2
  <2>2. c.fifo[f] \in Int /\ h[f] \in Int /\ Credits[f] \in Nat /\ c.fifo[f] >= 0 /\ c.fifo \in [Fifos -> Int]
    BY <1>1, CreditAssumption DEF CreditStates, Balanced
  <2>3. c.fifo[f] < Credits[f]
    <3>1. c.fifo[f] + LentIn(c, f) - LoansIn(c, f) + h[f] = Credits[f] /\ LentIn(c, f) \in Nat
      BY <1>1, LoansType DEF Balanced
    <3>2. QED
      BY <2>1, <2>2, <3>1
  <2>4. d = [c EXCEPT !.map = @ \cup {f}, !.fifo[f] = @ + 1]
    BY <1>1, <1>3, <2>3 DEF Return, CreditStates
  <2> DEFINE have == [c.fifo EXCEPT ![f] = @ + 1]
             m == c.map \cup {f}
  <2>5. have \in [Fifos -> Int] /\ m \in SUBSET Fifos /\ d = [c EXCEPT !.map = m, !.fifo = have]
    BY <1>1, <2>2, <2>4 DEF CreditStates
  <2> HIDE DEF have, m, d
  <2>6. d.borrowed = c.borrowed /\ d.fifo = have /\ d \in CreditStates
    BY <1>1, <2>5 DEF CreditStates
  <2>7. Spends(d, c, f, -1) /\ d.fifo[f] >= 0
    <3>1. c.fifo[f] + 1 = c.fifo[f] - (-1) /\ have[f] = c.fifo[f] + 1
      BY <2>2 DEF have
    <3>2. QED
      BY <2>2, <2>6, <3>1 DEF Spends, have
  <2>8. LoansIn(c, f) <= h[f] + (-1) /\ -1 \in Int
    BY <2>1, <2>2
  <2>9. QED
    BY <2>6, <2>7, <2>8, OwnBalanced
<1>4. QED
  BY <1>2, <1>3

LEMMA LowestLender ==
  ASSUME NEW f \in ACs, Solvent(f) # {}
  PROVE  LET l == CHOOSE l \in Solvent(f) : \A k \in Solvent(f) : l <= k
         IN  l \in ACs /\ credits.fifo[l] > 0
<1>1. Solvent(f) \subseteq 0 .. NAC - 1 /\ NAC - 1 \in Nat
  BY CountAssumption DEF Solvent, ACs
<1>2. \E l \in Solvent(f) : \A k \in Solvent(f) : l <= k
  BY <1>1, Smallest
<1>3. (CHOOSE l \in Solvent(f) : \A k \in Solvent(f) : l <= k) \in Solvent(f)
  BY <1>2
<1>4. QED
  BY <1>1, <1>3 DEF Solvent, ACs

LEMMA BorrowBalanced ==
  ASSUME NEW h, Balanced(credits, h), NEW f \in ACs \ {0}, Solvent(f) # {}
  PROVE  Balanced(Borrow(f), Plus(h, f, 1))
<1> DEFINE l == CHOOSE l \in Solvent(f) : \A k \in Solvent(f) : l <= k
           c == credits
           d == Borrow(f)
           owe == [c.borrowed EXCEPT ![f][l] = @ + 1]
           have == [c.fifo EXCEPT ![l] = @ - 1]
           m == (IF c.fifo[l] = 1 THEN c.map \ {l} ELSE c.map) \cup {f}
<1>1. c \in CreditStates /\ h \in [Fifos -> Int]
  BY DEF Balanced
<1>2. l \in ACs /\ c.fifo[l] > 0
  BY LowestLender
<1>3. d = [c EXCEPT !.borrowed[f][l] = @ + 1, !.fifo[l] = @ - 1, !.map = m]
  BY DEF Borrow
<1> HIDE DEF l, d
<1>4. c.borrowed \in [ACs -> [ACs -> Nat]] /\ c.fifo \in [Fifos -> Int] /\ l \in Fifos /\ f \in Fifos
  BY <1>1, <1>2 DEF CreditStates, Fifos
<1>5. owe \in [ACs -> [ACs -> Nat]] /\ have \in [Fifos -> Int] /\ m \in SUBSET Fifos
  BY <1>1, <1>2, <1>4 DEF CreditStates
<1>6. d = [c EXCEPT !.map = m, !.borrowed = owe, !.fifo = have]
  BY <1>1, <1>3 DEF CreditStates
<1> HIDE DEF owe, have, m, c
<1>7. d.borrowed = owe /\ d.fifo = have /\ d \in CreditStates
  BY <1>1, <1>5, <1>6 DEF CreditStates
<1>8. Borrows(d, c, f, l, 1) /\ d.fifo[l] >= 0
  <2>1. have[l] = c.fifo[l] - 1
    BY <1>4 DEF have
  <2>2. QED
    BY <1>2, <1>4, <1>7, <2>1 DEF Borrows, owe, have
<1>9. 1 \in Int /\ Balanced(c, h)
  BY DEF c
<1>10. QED
  BY <1>2, <1>7, <1>8, <1>9, LoanBalanced DEF d

(* Returning a credit and borrowing one keep the types, at any rate.       *)
LEMMA ReturnType ==
  ASSUME NEW c \in CreditStates, NEW f \in Fifos
  PROVE  Return(c, f) \in CreditStates
<1>1. c.borrowed \in [ACs -> [ACs -> Nat]] /\ c.fifo \in [Fifos -> Int] /\ c.map \in SUBSET Fifos
  BY DEF CreditStates
<1>2. CASE Lenders(c, f) # {}
  <2> DEFINE l == CHOOSE l \in Lenders(c, f) : \A k \in Lenders(c, f) : k <= l
             owe == [c.borrowed EXCEPT ![f][l] = @ - 1]
             have == [c.fifo EXCEPT ![l] = @ + 1]
             m == c.map \cup {f, l}
  <2>1. l \in ACs /\ l \in Fifos /\ f \in ACs \ {0} /\ c.borrowed[f][l] > 0
    BY <1>2, HighestLender DEF Fifos
  <2>2. Return(c, f) = [c EXCEPT !.map = m, !.borrowed = owe, !.fifo = have]
    BY <1>2 DEF Return, CreditStates
  <2> HIDE DEF l
  <2>3. owe \in [ACs -> [ACs -> Nat]] /\ have \in [Fifos -> Int] /\ m \in SUBSET Fifos
    BY <1>1, <2>1
  <2> HIDE DEF owe, have, m
  <2>4. QED
    BY <2>2, <2>3 DEF CreditStates
<1>3. CASE Lenders(c, f) = {}
  <2> DEFINE n == IF c.fifo[f] < Credits[f] THEN c.fifo[f] + 1 ELSE Credits[f]
             have == [c.fifo EXCEPT ![f] = n]
             m == c.map \cup {f}
  <2>1. Return(c, f) = [c EXCEPT !.map = m, !.fifo = have]
    BY <1>3 DEF Return, CreditStates
  <2>2. n \in Int /\ m \in SUBSET Fifos
    BY <1>1, CreditAssumption
  <2> HIDE DEF n, m
  <2>3. have \in [Fifos -> Int]
    BY <1>1, <2>2
  <2> HIDE DEF have
  <2>4. QED
    BY <2>1, <2>2, <2>3 DEF CreditStates
<1>4. QED
  BY <1>2, <1>3

LEMMA BorrowType ==
  ASSUME credits \in CreditStates, NEW f \in ACs \ {0}, Solvent(f) # {}
  PROVE  Borrow(f) \in CreditStates
<1> DEFINE l == CHOOSE l \in Solvent(f) : \A k \in Solvent(f) : l <= k
           c == credits
           owe == [c.borrowed EXCEPT ![f][l] = @ + 1]
           have == [c.fifo EXCEPT ![l] = @ - 1]
           m == (IF c.fifo[l] = 1 THEN c.map \ {l} ELSE c.map) \cup {f}
<1>1. l \in ACs
  BY LowestLender
<1>2. Borrow(f) = [c EXCEPT !.borrowed[f][l] = @ + 1, !.fifo[l] = @ - 1, !.map = m]
  BY DEF Borrow
<1> HIDE DEF l
<1>3. c.borrowed \in [ACs -> [ACs -> Nat]] /\ c.fifo \in [Fifos -> Int] /\ l \in Fifos /\ f \in Fifos
  BY <1>1 DEF CreditStates, Fifos
<1>4. owe \in [ACs -> [ACs -> Nat]] /\ have \in [Fifos -> Int] /\ m \in SUBSET Fifos
  BY <1>1, <1>3 DEF CreditStates
<1>5. Borrow(f) = [c EXCEPT !.map = m, !.borrowed = owe, !.fifo = have]
  BY <1>2 DEF CreditStates
<1> HIDE DEF owe, have, m
<1>6. QED
  BY <1>4, <1>5 DEF CreditStates

(* All of n credits are returned, one after another.                       *)
LEMMA ReturnManySteps ==
  ASSUME NEW c \in CreditStates, NEW f \in Fifos, NEW n \in Nat
  PROVE  \E s \in [0 .. n -> CreditStates] :
           /\ s[0] = c /\ ReturnMany(c, f, n) = s[n]
           /\ \A k \in 1 .. n : s[k] = Return(s[k - 1], f)
<1> DEFINE step == [x \in (1 .. n) \X CreditStates |-> Return(x[2], f)]
           body(s, k) == IF k = 0 THEN c ELSE Return(s[k - 1], f)
           rec(s) == s = [k \in 0 .. n |-> body(s, k)]
           s0 == CHOOSE s : rec(s)
<1>1. step \in [(1 .. n) \X CreditStates -> CreditStates]
  <2>1. ASSUME NEW x \in (1 .. n) \X CreditStates PROVE Return(x[2], f) \in CreditStates
    BY ReturnType
  <2>2. QED
    BY <2>1
<1>2. PICK s \in [0 .. n -> CreditStates] : s[0] = c /\ \A k \in 1 .. n : s[k] = step[<< k, s[k - 1] >>]
  <2> HIDE DEF step
  <2>1. \E s \in [0 .. n -> CreditStates] : Repeats(s, step, c, n)
    BY <1>1, Repeated
  <2>2. QED
    BY <2>1 DEF Repeats
<1>3. ASSUME NEW k \in 1 .. n PROVE s[k] = Return(s[k - 1], f)
  <2>1. << k, s[k - 1] >> \in (1 .. n) \X CreditStates
    OBVIOUS
  <2>2. QED
    BY <1>2, <2>1
<1>4. rec(s)
  BY <1>2, <1>3
<1> HIDE DEF rec
<1>5. rec(s0)
  BY <1>4
<1>6. ReturnMany(c, f, n) = s0[n]
  BY DEF ReturnMany, s0, rec, body
<1> HIDE DEF s0
<1>7. s0[0] = c /\ \A k \in 1 .. n : s0[k] = Return(s0[k - 1], f)
  BY <1>5 DEF rec
<1> DEFINE S == {k \in 0 .. n : s0[k] = s[k]}
<1>8. ASSUME NEW k \in 0 .. n - 1, k \in S PROVE k + 1 \in S
  <2>1. k + 1 \in 1 .. n /\ k + 1 - 1 = k /\ s0[k] = s[k]
    BY <1>8
  <2>2. s0[k + 1] = Return(s0[k], f) /\ s[k + 1] = Return(s[k], f)
    BY <1>3, <1>7, <2>1
  <2>3. QED
    BY <2>1, <2>2
<1>9. 0 \in S
  BY <1>2, <1>7
<1>10. n \in S
  <2> HIDE DEF S
  <2>1. QED
    BY <1>8, <1>9, Climb
<1>11. QED
  BY <1>2, <1>3, <1>6, <1>10

LEMMA ReturnManyBalanced ==
  ASSUME NEW c, NEW h, Balanced(c, h), NEW f \in Fifos, NEW n \in Nat, n <= h[f]
  PROVE  Balanced(ReturnMany(c, f, n), Plus(h, f, -n))
<1>1. c \in CreditStates /\ h \in [Fifos -> Int] /\ h[f] \in Int
  BY DEF Balanced
<1>2. PICK s \in [0 .. n -> CreditStates] :
        /\ s[0] = c /\ ReturnMany(c, f, n) = s[n]
        /\ \A k \in 1 .. n : s[k] = Return(s[k - 1], f)
  BY <1>1, ReturnManySteps
<1> DEFINE S == {k \in 0 .. n : Balanced(s[k], Plus(h, f, -k))}
<1>3. 0 \in S
  <2>1. Plus(h, f, -0) = h
    BY <1>1 DEF Plus
  <2>2. QED
    BY <1>2, <2>1
<1>4. ASSUME NEW k \in 0 .. n - 1, k \in S PROVE k + 1 \in S
  <2> DEFINE hk == Plus(h, f, -k)
  <2>1. Balanced(s[k], hk)
    BY <1>4
  <2>2. hk[f] = h[f] - k /\ hk[f] > 0
    BY <1>1 DEF Plus
  <2>3. Plus(hk, f, -1) = Plus(h, f, -(k + 1))
    BY <1>1 DEF Plus
  <2> HIDE DEF hk
  <2>4. Balanced(Return(s[k], f), Plus(hk, f, -1))
    BY <2>1, <2>2, ReturnBalanced
  <2>5. s[k + 1] = Return(s[k], f)
    <3>1. k + 1 \in 1 .. n /\ k + 1 - 1 = k
      OBVIOUS
    <3>2. QED
      BY <1>2, <3>1
  <2>6. k + 1 \in 0 .. n
    OBVIOUS
  <2>7. QED
    BY <2>3, <2>4, <2>5, <2>6
<1>5. n \in S
  <2> HIDE DEF S
  <2>1. QED
    BY <1>3, <1>4, Climb
<1>6. QED
  BY <1>2, <1>5

LEMMA ReturnManyType ==
  ASSUME NEW c \in CreditStates, NEW f \in Fifos, NEW n \in Nat
  PROVE  ReturnMany(c, f, n) \in CreditStates
  BY ReturnManySteps

(***************************************************************************)
(* Destinations.                                                           *)
(***************************************************************************)

Entries == [occupied : BOOLEAN, closed : BOOLEAN, credit : Nat, packet : Nat,
            suppressed : BOOLEAN, transit : Int, suppr : Int]

(* What is counted of a destination stays as it is.                        *)
SameCounts(n, m) ==
  n.transit = m.transit /\ n.suppr = m.suppr /\ n.suppressed = m.suppressed

LEMMA EntryRequests ==
  ASSUME NEW m \in Entries, NEW p
  PROVE  /\ ReturnRequest(m, p) \in Entries /\ SameCounts(ReturnRequest(m, p), m)
         /\ UseRequest(m) \in Entries /\ SameCounts(UseRequest(m), m)
<1>1. ReturnRequest(m, p) \in Entries /\ SameCounts(ReturnRequest(m, p), m)
  BY DEF ReturnRequest, Entries, SameCounts
<1>2. UseRequest(m) \in Entries /\ SameCounts(UseRequest(m), m)
  BY DEF UseRequest, Entries, SameCounts
<1>3. QED
  BY <1>1, <1>2

LEMMA EntryCounts ==
  ASSUME NEW m \in Entries
  PROVE  /\ InTransit(m) \in Entries /\ InTransit(m).transit = m.transit + 1
         /\ InTransit(m).suppressed = m.suppressed
         /\ m.suppressed => InTransit(m).suppr = m.suppr + 1
         /\ Untransit(m) \in Entries
         /\ Answered(m) \in Entries /\ Answered(m).transit = m.transit - 1
         /\ Answered(m).suppressed = m.suppressed
         /\ m.suppressed /\ m.suppr # 0 => Answered(m).suppr = m.suppr - 1
         /\ Suppressed(m) \in Entries /\ Suppressed(m).transit = m.transit
         /\ Suppressed(m).suppr = IF m.suppressed THEN m.suppr ELSE m.transit
<1>0. ASSUME NEW t \in Int, NEW x \in Int
      PROVE  LET n == [m EXCEPT !.transit = t, !.suppr = x]
             IN  n \in Entries /\ n.transit = t /\ n.suppr = x /\ n.suppressed = m.suppressed
  BY DEF Entries
<1> m.transit \in Int /\ m.suppr \in Int /\ m.suppressed \in BOOLEAN
  BY DEF Entries
<1>1. /\ InTransit(m) \in Entries /\ InTransit(m).transit = m.transit + 1
      /\ InTransit(m).suppressed = m.suppressed
      /\ m.suppressed => InTransit(m).suppr = m.suppr + 1
  <2> DEFINE x == IF m.suppressed THEN m.suppr + 1 ELSE m.suppr
             t == m.transit + 1
  <2>1. x \in Int /\ t \in Int /\ (m.suppressed => x = m.suppr + 1)
    OBVIOUS
  <2>2. InTransit(m) = [m EXCEPT !.transit = t, !.suppr = x]
    BY DEF InTransit
  <2> HIDE DEF x, t
  <2>3. LET n == [m EXCEPT !.transit = t, !.suppr = x]
        IN  n \in Entries /\ n.transit = t /\ n.suppr = x /\ n.suppressed = m.suppressed
    BY <1>0, <2>1
  <2>4. QED
    BY <2>1, <2>2, <2>3 DEF t
<1>2. Untransit(m) \in Entries
  <2> DEFINE x == IF m.suppressed THEN m.suppr - 1 ELSE m.suppr
             t == m.transit - 1
  <2>1. x \in Int /\ t \in Int
    OBVIOUS
  <2>2. Untransit(m) = [m EXCEPT !.transit = t, !.suppr = x]
    BY DEF Untransit
  <2> HIDE DEF x, t
  <2>3. LET n == [m EXCEPT !.transit = t, !.suppr = x]
        IN  n \in Entries /\ n.transit = t /\ n.suppr = x /\ n.suppressed = m.suppressed
    BY <1>0, <2>1
  <2>4. QED
    BY <2>1, <2>2, <2>3 DEF t
<1>3. /\ Answered(m) \in Entries /\ Answered(m).transit = m.transit - 1
      /\ Answered(m).suppressed = m.suppressed
      /\ m.suppressed /\ m.suppr # 0 => Answered(m).suppr = m.suppr - 1
  <2> DEFINE x == IF m.suppressed /\ m.suppr # 0 THEN m.suppr - 1 ELSE m.suppr
             t == m.transit - 1
  <2>1. x \in Int /\ t \in Int /\ (m.suppressed /\ m.suppr # 0 => x = m.suppr - 1)
    OBVIOUS
  <2>2. Answered(m) = [m EXCEPT !.transit = t, !.suppr = x]
    BY DEF Answered
  <2> HIDE DEF x, t
  <2>3. LET n == [m EXCEPT !.transit = t, !.suppr = x]
        IN  n \in Entries /\ n.transit = t /\ n.suppr = x /\ n.suppressed = m.suppressed
    BY <1>0, <2>1
  <2>4. QED
    BY <2>1, <2>2, <2>3 DEF t
<1>4. /\ Suppressed(m) \in Entries /\ Suppressed(m).transit = m.transit
      /\ Suppressed(m).suppr = IF m.suppressed THEN m.suppr ELSE m.transit
  BY DEF Suppressed, Entries
<1>5. QED
  BY <1>1, <1>2, <1>3, <1>4

(* A visit ends a suppression that has nothing to wait for, at most.       *)
Calmer(n, m) ==
  /\ \A d \in Dests :
       /\ n[d].transit = m[d].transit /\ n[d].suppr = m[d].suppr
       /\ n[d].suppressed => m[d].suppressed

LEMMA CalmedType ==
  ASSUME mac \in [Dests -> Entries], NEW f, NEW visits
  PROVE  Calmed(f, visits) \in [Dests -> Entries] /\ Calmer(Calmed(f, visits), mac)
<1>1. ASSUME NEW d \in Dests
      PROVE  /\ [mac[d] EXCEPT !.suppressed = FALSE] \in Entries
             /\ [mac[d] EXCEPT !.suppressed = FALSE].transit = mac[d].transit
             /\ [mac[d] EXCEPT !.suppressed = FALSE].suppr = mac[d].suppr
             /\ [mac[d] EXCEPT !.suppressed = FALSE].suppressed = FALSE
             /\ mac[d] \in Entries
  BY DEF Entries
<1>2. ASSUME NEW d \in Dests
      PROVE  Calmed(f, visits)[d] \in {mac[d], [mac[d] EXCEPT !.suppressed = FALSE]}
  BY DEF Calmed
<1>3. Calmed(f, visits) \in [Dests -> Entries]
  <2>1. Calmed(f, visits) = [d \in Dests |-> Calmed(f, visits)[d]]
    BY DEF Calmed
  <2>2. QED
    BY <1>1, <1>2, <2>1
<1>4. QED
  BY <1>1, <1>2, <1>3 DEF Calmer

(***************************************************************************)
(* The state: types, where each packet is, and the slots.                  *)
(***************************************************************************)

Descs == [mac : Dests, fifo : Fifos, slot : Slots \cup {NoSlot}, supp : BOOLEAN, req : BOOLEAN]

Typed ==
  /\ pk \in [Packets -> Descs] /\ sent \in 0 .. NPackets
  /\ hanger \in [Slots -> Ids] /\ fin \in [Packets -> Nat]
  /\ psq \in Psqs /\ mac \in [Dests -> Entries]
  /\ credits \in CreditStates /\ owed \in [Fifos -> Nat]
TypedThreads ==
  /\ deq_node_pos \in [Fifos -> Dests]
  /\ wpc \in {"idle", "own", "borrow", "tx", "sent", "refused"} /\ wfifo \in Fifos
  /\ wphase \in {"own", "borrow"} /\ hand \in Ids
  /\ bus \subseteq Packets /\ dev \subseteq Packets

(* The worker has a packet in hand from dequeuing it until it locks again, *)
(* borrows for the higher categories only, and a packet that left its      *)
(* queue is with one of the worker, the bus and the device.                *)
Placed ==
  /\ hand = NoPkt <=> wpc \in {"idle", "own", "borrow"}
  /\ wpc = "borrow" \/ (wpc \in {"tx", "sent", "refused"} /\ wphase = "borrow") => wfifo \in ACs \ {0}
  /\ bus \cap dev = {} /\ InHand \cap (bus \cup dev) = {}

OnWay == \A p \in Transit : p <= sent /\ fin[p] = 0
Final == \A p \in Packets : fin[p] <= 1 /\ (p > sent => fin[p] = 0)

(* A packet in a queue belongs there, once, and nowhere else.              *)
Waits(d, f) ==
  /\ Tidy(psq, d, f)
  /\ \A p \in At(psq, d, f) :
       pk[p].mac = d /\ pk[p].fifo = f /\ p <= sent /\ p \notin Transit /\ fin[p] = 0
Waiting == \A d \in Dests, f \in Fifos : Waits(d, f)

(* A packet hangs in its slot until it is finalised.                       *)
Hung ==
  \A p \in Packets : p <= sent => pk[p].slot \in Slots /\ (fin[p] = 0 <=> hanger[pk[p].slot] = p)

Situated == OnWay /\ Final /\ Waiting /\ Hung

Core == Typed /\ TypedThreads /\ Placed /\ Situated

LEMMA TransitType ==
  ASSUME TypedThreads, Placed
  PROVE  Transit \subseteq Packets /\ IsFiniteSet(Transit)
<1>1. InHand \subseteq Packets
  BY DEF TypedThreads, Placed, InHand, Ids
<1>2. Transit \in SUBSET Packets
  BY <1>1 DEF Transit, TypedThreads
<1>3. IsFiniteSet(Packets)
  BY CountAssumption, FS_Interval DEF Packets
<1>4. QED
  BY <1>2, <1>3, FS_Subset

(***************************************************************************)
(* The kinds of steps, by what they do to the packets.                     *)
(***************************************************************************)

SameNames ==
  \A q \in Packets : pk'[q].mac = pk[q].mac /\ pk'[q].fifo = pk[q].fifo /\ pk'[q].slot = pk[q].slot

(* Every packet stays in its queue or on its way.                          *)
Steady == UNCHANGED << pk, sent, hanger, psq, fin >> /\ Transit' = Transit

(* A packet is taken from its queue,                                       *)
Takes(p, d, f) ==
  /\ d \in Dests /\ f \in Fifos /\ psq' \in Psqs /\ Leaves(psq', psq, d, f, p)
  /\ Transit' = Transit \cup {p}
  /\ SameNames /\ UNCHANGED << sent, hanger, fin >>

(* put back into it,                                                       *)
Requeues(p) ==
  /\ p \in Transit /\ Transit' = Transit \ {p}
  /\ psq' \in Psqs /\ Joins(psq', psq, pk[p].mac, pk[p].fifo, p)
  /\ SameNames /\ UNCHANGED << sent, hanger, fin >>

(* or finalised.                                                           *)
Tosses(p) ==
  /\ p \in Transit /\ Transit' = Transit \ {p}
  /\ Tossed(p) /\ UNCHANGED << pk, sent, psq >>

LEMMA SteadySituated ==
  ASSUME Situated, Steady
  PROVE  Situated'
<1>1. OnWay' /\ Final' /\ Hung'
  BY DEF Situated, Steady, OnWay, Final, Hung
<1>2. ASSUME NEW d \in Dests, NEW f \in Fifos PROVE Waits(d, f)'
  <2>1. Waits(d, f)
    BY DEF Situated, Waiting
  <2>2. QED
    BY <2>1 DEF Waits, Steady
<1>3. QED
  BY <1>1, <1>2 DEF Situated, Waiting

LEMMA TakesSituated ==
  ASSUME Typed, TypedThreads, Placed, Situated, NEW p, NEW d, NEW f, Takes(p, d, f)
  PROVE  /\ Situated' /\ p \in Packets /\ p \notin Transit
         /\ p \in At(psq, d, f) /\ pk[p].mac = d /\ pk[p].fifo = f /\ At(psq', d, f) = At(psq, d, f) \ {p}
         /\ \A e \in Dests, g \in Fifos : e # d \/ g # f => At(psq', e, g) = At(psq, e, g)
<1> d \in Dests /\ f \in Fifos /\ psq \in Psqs /\ psq' \in Psqs /\ Leaves(psq', psq, d, f, p)
  BY DEF Takes, Typed
<1>1. \A e \in Dests, g \in Fifos : Waits(e, g)
  BY DEF Situated, Waiting
<1>2. \A e \in Dests, g \in Fifos : Tidy(psq, e, g)
  BY <1>1 DEF Waits
<1>3. /\ p \in Packets /\ p \in At(psq, d, f) /\ At(psq', d, f) = At(psq, d, f) \ {p}
      /\ \A e \in Dests, g \in Fifos : e # d \/ g # f => At(psq', e, g) = At(psq, e, g)
      /\ \A e \in Dests, g \in Fifos : Tidy(psq', e, g)
  BY <1>2, LeavesAt
<1>4. p <= sent /\ fin[p] = 0 /\ pk[p].mac = d /\ pk[p].fifo = f /\ p \notin Transit
  BY <1>1, <1>3 DEF Waits
<1>5. OnWay' /\ Final' /\ Hung'
  BY <1>3, <1>4 DEF Situated, Takes, SameNames, OnWay, Final, Hung
<1>6. ASSUME NEW e \in Dests, NEW g \in Fifos PROVE Waits(e, g)'
  <2>1. At(psq', e, g) \subseteq At(psq, e, g) \ {p}
    <3>1. CASE e = d /\ g = f
      BY <1>3, <3>1
    <3>2. CASE e # d \/ g # f
      BY <1>1, <1>3, <1>4, <3>2 DEF Waits
    <3>3. QED
      BY <3>1, <3>2
  <2>2. At(psq, e, g) \subseteq Packets
    BY AtType
  <2>3. ASSUME NEW q \in At(psq', e, g)
        PROVE  pk'[q].mac = e /\ pk'[q].fifo = g /\ q <= sent' /\ q \notin Transit' /\ fin'[q] = 0
    <3>1. q \in Packets /\ q \in At(psq, e, g) /\ q # p
      BY <2>1, <2>2
    <3>2. QED
      BY <1>1, <3>1 DEF Waits, Takes, SameNames
  <2>4. QED
    BY <1>3, <2>3 DEF Waits
<1>7. QED
  BY <1>3, <1>4, <1>5, <1>6 DEF Situated, Waiting

LEMMA RequeuesSituated ==
  ASSUME Typed, TypedThreads, Placed, Situated, NEW p, Requeues(p)
  PROVE  LET d == pk[p].mac
             f == pk[p].fifo
         IN  /\ Situated' /\ p \in Packets /\ d \in Dests /\ f \in Fifos
             /\ \A g \in Fifos : p \notin At(psq, d, g)
             /\ At(psq', d, f) = At(psq, d, f) \cup {p}
             /\ \A e \in Dests, g \in Fifos : e # d \/ g # f => At(psq', e, g) = At(psq, e, g)
<1> DEFINE d == pk[p].mac
           f == pk[p].fifo
<1>0. p \in Packets /\ p \in Transit
  BY TransitType DEF Requeues
<1>1. d \in Dests /\ f \in Fifos /\ psq \in Psqs /\ psq' \in Psqs /\ Joins(psq', psq, d, f, p)
  BY <1>0 DEF Requeues, Typed, Descs
<1>2. \A e \in Dests, g \in Fifos : Waits(e, g) /\ Tidy(psq, e, g)
  BY DEF Situated, Waiting, Waits
<1>3. \A g \in Fifos : p \notin At(psq, d, g)
  BY <1>0, <1>1, <1>2 DEF Waits
<1> HIDE DEF d, f
<1>4. /\ At(psq', d, f) = At(psq, d, f) \cup {p}
      /\ \A e \in Dests, g \in Fifos : e # d \/ g # f => At(psq', e, g) = At(psq, e, g)
      /\ \A e \in Dests, g \in Fifos : Tidy(psq', e, g)
  BY <1>0, <1>1, <1>2, <1>3, JoinsAt
<1>5. p <= sent /\ fin[p] = 0
  BY <1>0 DEF Situated, OnWay
<1>6. OnWay' /\ Final' /\ Hung'
  BY <1>0 DEF Situated, Requeues, SameNames, OnWay, Final, Hung
<1>7. ASSUME NEW e \in Dests, NEW g \in Fifos PROVE Waits(e, g)'
  <2>1. At(psq', e, g) \subseteq Packets
    BY <1>1, AtType
  <2>2. ASSUME NEW q \in At(psq', e, g)
        PROVE  pk'[q].mac = e /\ pk'[q].fifo = g /\ q <= sent' /\ q \notin Transit' /\ fin'[q] = 0
    <3>1. CASE q = p
      <4>1. e = d /\ g = f
        BY <1>0, <1>2, <1>4, <2>2, <3>1 DEF Waits
      <4>2. QED
        BY <1>0, <1>5, <3>1, <4>1 DEF Requeues, SameNames, d, f
    <3>2. CASE q # p
      <4>1. q \in At(psq, e, g)
        BY <1>4, <2>2, <3>2
      <4>2. QED
        BY <1>2, <2>1, <4>1 DEF Waits, Requeues, SameNames
    <3>3. QED
      BY <3>1, <3>2
  <2>3. QED
    BY <1>4, <2>2 DEF Waits
<1>8. QED
  BY <1>0, <1>1, <1>3, <1>4, <1>6, <1>7 DEF Situated, Waiting, d, f

LEMMA TossesSituated ==
  ASSUME Typed, TypedThreads, Placed, Situated, NEW p, Tosses(p)
  PROVE  Situated' /\ p \in Packets
<1>1. p \in Packets /\ p \in Transit /\ p <= sent /\ fin[p] = 0
  BY TransitType DEF Tosses, Situated, OnWay
<1>2. pk[p].slot \in Slots /\ hanger[pk[p].slot] = p
  BY <1>1 DEF Situated, Hung
<1>3. /\ \A q \in Packets : fin'[q] = IF q = p THEN 1 ELSE fin[q]
      /\ \A s \in Slots : hanger'[s] = IF s = pk[p].slot THEN NoPkt ELSE hanger[s]
  BY <1>1, <1>2 DEF Tosses, Tossed, Typed
<1>4. \A q \in Packets : q # NoPkt
  BY DEF Packets, NoPkt
<1>5. UNCHANGED << pk, sent, psq >> /\ Transit' = Transit \ {p}
  BY DEF Tosses
<1>6. Transit \subseteq Packets
  BY TransitType
<1>7. OnWay' /\ Final'
  <2>1. ASSUME NEW q \in Transit' PROVE q <= sent' /\ fin'[q] = 0
    BY <1>3, <1>5, <1>6 DEF Situated, OnWay
  <2>2. ~(p > sent)
    BY <1>1, CountAssumption DEF Packets, Typed
  <2>3. ASSUME NEW q \in Packets PROVE fin'[q] <= 1 /\ (q > sent' => fin'[q] = 0)
    BY <1>3, <1>5, <2>2 DEF Situated, Final
  <2>4. QED
    BY <2>1, <2>3 DEF OnWay, Final
<1>8. Hung'
  BY <1>1, <1>2, <1>3, <1>4, <1>5 DEF Situated, Hung
<1>9. ASSUME NEW e \in Dests, NEW g \in Fifos PROVE Waits(e, g)'
  <2>1. At(psq, e, g) \subseteq Packets
    BY AtType DEF Typed
  <2>2. QED
    BY <1>1, <1>3, <1>5, <2>1 DEF Situated, Waiting, Waits
<1>10. QED
  BY <1>1, <1>7, <1>8, <1>9 DEF Situated, Waiting

(* A packet is accepted into a queue, or, without room, into its slot only.*)
LEMMA AcceptSituated ==
  ASSUME Typed, TypedThreads, Placed, Situated, NEW d \in Dests, NEW f \in Fifos, ProcessSkb(d, f)
  PROVE  LET p == sent + 1
         IN  /\ Situated' /\ p \in Packets /\ sent' = p /\ Transit' = Transit /\ fin' = fin /\ fin[p] = 0
             /\ pk'[p].mac = d /\ pk'[p].fifo = f /\ pk'[p].supp = FALSE
             /\ \A q \in Packets : q # p => pk'[q] = pk[q]
             /\ \A e \in Dests, g \in Fifos : \A q \in At(psq, e, g) : q < p
             /\ \A e \in Dests, g \in Fifos :
                  At(psq', e, g) = At(psq, e, g) \cup (IF e = d /\ g = f /\ HasRoom(d) THEN {p} ELSE {})
             /\ hanger'[pk'[p].slot] = p /\ pk' \in [Packets -> Descs] /\ psq' \in Psqs
             /\ sent' \in 0 .. NPackets /\ hanger' \in [Slots -> Ids]
<1> DEFINE p == sent + 1
<1>0. Transit' = Transit /\ UNCHANGED << fin, bus, dev, InHand >>
  BY DEF ProcessSkb, worker, device, Transit, InHand
<1>1. sent \in Nat /\ p \in Packets /\ sent' = p /\ p \in Nat /\ sent' \in 0 .. NPackets
  BY CountAssumption DEF Typed, Packets, ProcessSkb
<1>2. PICK s \in Slots :
        /\ hanger[s] = NoPkt /\ hanger' = [hanger EXCEPT ![s] = p]
        /\ pk' = [pk EXCEPT ![p] = [mac |-> d, fifo |-> f, slot |-> s, supp |-> FALSE, req |-> FALSE]]
  BY DEF ProcessSkb
<1>3. psq' = IF HasRoom(d) THEN Enq(psq, p, d, f, FALSE) ELSE psq
  BY DEF ProcessSkb
<1> HIDE DEF p
<1>4. /\ pk'[p] = [mac |-> d, fifo |-> f, slot |-> s, supp |-> FALSE, req |-> FALSE]
      /\ \A q \in Packets : q # p => pk'[q] = pk[q]
      /\ hanger'[s] = p /\ \A t \in Slots : t # s => hanger'[t] = hanger[t]
  BY <1>1, <1>2 DEF Typed
<1>5. /\ pk' \in [Packets -> Descs] /\ hanger' \in [Slots -> Ids]
  BY <1>1, <1>2 DEF Typed, Descs, Ids
<1>6. fin[p] = 0 /\ p \notin Transit /\ \A q \in Packets : q <= sent => q # p /\ q < p
  <2>1. p > sent /\ ~(p <= sent)
    BY <1>1 DEF p
  <2>2. \A q \in Packets : q <= sent => q # p /\ q < p
    BY <1>1 DEF p, Packets
  <2>3. QED
    BY <1>1, <2>1, <2>2 DEF Situated, Final, OnWay
<1>7. \A e \in Dests, g \in Fifos :
        /\ At(psq, e, g) \subseteq Packets /\ Waits(e, g)
        /\ \A q \in At(psq, e, g) : q <= sent /\ q < p /\ q # p
  BY <1>6, AtType DEF Situated, Waiting, Waits, Typed
<1>8. /\ psq' \in Psqs
      /\ \A e \in Dests, g \in Fifos :
           At(psq', e, g) = At(psq, e, g) \cup (IF e = d /\ g = f /\ HasRoom(d) THEN {p} ELSE {})
      /\ \A e \in Dests, g \in Fifos : Tidy(psq', e, g)
  <2>1. CASE HasRoom(d)
    <3>0. psq \in Psqs
      BY DEF Typed
    <3>1. psq \in Psqs /\ psq' = Enq(psq, p, d, f, FALSE) /\ FALSE \in BOOLEAN
      BY <1>3, <2>1 DEF Typed
    <3>2. psq' \in Psqs /\ Joins(psq', psq, d, f, p)
      BY <1>1, <3>1, EnqEffect
    <3>3. /\ At(psq', d, f) = At(psq, d, f) \cup {p}
          /\ \A e \in Dests, g \in Fifos : e # d \/ g # f => At(psq', e, g) = At(psq, e, g)
          /\ \A e \in Dests, g \in Fifos : Tidy(psq, e, g) => Tidy(psq', e, g)
      <4>1. p \notin At(psq, d, f)
        BY <1>7
      <4>2. QED
        BY <1>1, <3>0, <3>2, <4>1, JoinsAt
    <3>4. QED
      BY <1>7, <2>1, <3>2, <3>3 DEF Waits
  <2>2. CASE ~HasRoom(d)
    BY <1>3, <1>7, <2>2 DEF Typed, Waits
  <2>3. QED
    BY <2>1, <2>2
<1>9. OnWay' /\ Final'
  <2>1. ASSUME NEW q \in Transit PROVE q <= sent' /\ fin[q] = 0
    <3>1. q \in Packets /\ q <= sent
      BY TransitType DEF Situated, OnWay
    <3>2. QED
      BY <1>1, <3>1 DEF p, Packets, Situated, OnWay
  <2>2. ASSUME NEW q \in Packets PROVE fin[q] <= 1 /\ (q > sent' => fin[q] = 0)
    BY <1>1 DEF p, Packets, Situated, Final
  <2>3. QED
    BY <1>0, <2>1, <2>2 DEF OnWay, Final
<1>10. Hung'
  <2>1. ASSUME NEW q \in Packets, q <= sent'
        PROVE  pk'[q].slot \in Slots /\ (fin'[q] = 0 <=> hanger'[pk'[q].slot] = q)
    <3>1. CASE q = p
      BY <1>0, <1>4, <1>6, <3>1
    <3>2. CASE q # p
      <4>1. q <= sent
        BY <1>1, <2>1, <3>2 DEF p, Packets
      <4>2. pk'[q] = pk[q] /\ pk[q].slot \in Slots /\ (fin[q] = 0 <=> hanger[pk[q].slot] = q)
        BY <1>4, <3>2, <4>1 DEF Situated, Hung
      <4>3. q # NoPkt
        BY DEF Packets, NoPkt
      <4>4. QED
        BY <1>0, <1>2, <1>4, <3>2, <4>2, <4>3
    <3>3. QED
      BY <3>1, <3>2
  <2>2. QED
    BY <2>1 DEF Hung
<1>11. ASSUME NEW e \in Dests, NEW g \in Fifos PROVE Waits(e, g)'
  <2>1. ASSUME NEW q \in At(psq', e, g)
        PROVE  pk'[q].mac = e /\ pk'[q].fifo = g /\ q <= sent' /\ q \notin Transit' /\ fin'[q] = 0
    <3>1. CASE q = p
      <4>1. e = d /\ g = f
        BY <1>7, <1>8, <2>1, <3>1
      <4>2. p <= sent'
        BY <1>1
      <4>3. QED
        BY <1>0, <1>4, <1>6, <3>1, <4>1, <4>2
    <3>2. CASE q # p
      <4>1. q \in At(psq, e, g) /\ q \in Packets
        BY <1>7, <1>8, <2>1, <3>2
      <4>2. q <= sent'
        BY <1>1, <1>7, <4>1 DEF p, Packets
      <4>3. QED
        BY <1>0, <1>4, <1>7, <3>2, <4>1, <4>2 DEF Waits
    <3>3. QED
      BY <3>1, <3>2
  <2>2. QED
    BY <1>8, <2>1 DEF Waits
<1>12. QED
  BY <1>0, <1>1, <1>4, <1>5, <1>6, <1>7, <1>8, <1>9, <1>10, <1>11 DEF Situated, Waiting, p

(* A node's queue is flushed.                                              *)
LEMMA FlushSituated ==
  ASSUME Typed, TypedThreads, Placed, Situated, NEW d \in Dests, MacdescDel(d)
  PROVE  /\ Situated' /\ Transit' = Transit /\ UNCHANGED << pk, sent >>
         /\ fin' \in [Packets -> Nat] /\ hanger' \in [Slots -> Ids] /\ psq' \in Psqs
         /\ \A p \in Packets : fin'[p] = IF p \in QueuedFor(psq, d) THEN 1 ELSE fin[p]
         /\ \A e \in Dests, g \in Fifos : At(psq', e, g) = IF e = d THEN {} ELSE At(psq, e, g)
<1> DEFINE gone == QueuedFor(psq, d)
           slots == {pk[p].slot : p \in gone}
<1>0. Transit' = Transit /\ UNCHANGED << pk, sent >>
  BY DEF MacdescDel, worker, Transit, InHand
<1>1. /\ hanger' = [s \in Slots |-> IF s \in slots THEN NoPkt ELSE hanger[s]]
      /\ fin' = [p \in Packets |-> IF p \in gone THEN fin[p] + 1 ELSE fin[p]]
      /\ psq' = Flushed(psq, d)
  BY DEF MacdescDel
<1>2. gone \subseteq Packets /\ gone = UNION {At(psq, d, f) : f \in Fifos}
  BY AtType DEF Typed
<1>3. \A e \in Dests, g \in Fifos : Waits(e, g) /\ At(psq, e, g) \subseteq Packets
  BY AtType DEF Typed, Situated, Waiting
<1>4. ASSUME NEW p \in gone PROVE p \notin Transit /\ p <= sent /\ fin[p] = 0 /\ pk[p].mac = d
  BY <1>2, <1>3 DEF Waits
<1> HIDE DEF gone
<1>5. \A p \in Packets : fin'[p] = IF p \in gone THEN 1 ELSE fin[p]
  BY <1>1, <1>4
<1>6. psq' \in Psqs /\ Empties(psq', psq, d)
  <2>1. psq \in Psqs
    BY DEF Typed
  <2> HIDE DEF slots
  <2>2. psq' = Flushed(psq, d)
    BY <1>1
  <2>3. QED
    BY <2>1, <2>2, FlushedEffect
<1>7. \A e \in Dests, g \in Fifos :
        At(psq', e, g) = (IF e = d THEN {} ELSE At(psq, e, g)) /\ Tidy(psq', e, g)
  <2>1. NoDup(<< >>) /\ Elements(<< >>) = {}
    BY DEF NoDup, Elements
  <2>2. QED
    BY <1>3, <1>6, <2>1 DEF At, Tidy, Waits, Empties
<1>8. fin' \in [Packets -> Nat] /\ hanger' \in [Slots -> Ids]
  BY <1>1 DEF Typed, Ids
<1>9. OnWay' /\ Final'
  <2>1. ASSUME NEW p \in Transit PROVE p <= sent /\ fin'[p] = 0
    <3>1. p \in Packets /\ p \notin gone
      BY <1>4, TransitType
    <3>2. QED
      BY <1>5, <3>1 DEF Situated, OnWay
  <2>2. ASSUME NEW p \in Packets PROVE fin'[p] <= 1 /\ (p > sent => fin'[p] = 0)
    <3>1. p \in gone => ~(p > sent)
      BY <1>4 DEF Packets, Typed
    <3>2. QED
      BY <1>5, <3>1 DEF Situated, Final
  <2>3. QED
    BY <1>0, <2>1, <2>2 DEF OnWay, Final
<1>10. Hung'
  <2>1. ASSUME NEW q \in Packets, q <= sent
        PROVE  pk[q].slot \in Slots /\ (fin'[q] = 0 <=> hanger'[pk[q].slot] = q)
    <3>1. pk[q].slot \in Slots /\ (fin[q] = 0 <=> hanger[pk[q].slot] = q) /\ q # NoPkt
      BY <2>1 DEF Situated, Hung, Packets, NoPkt
    <3>2. CASE q \in gone
      <4>1. fin'[q] = 1 /\ hanger'[pk[q].slot] = NoPkt
        BY <1>1, <1>5, <3>1, <3>2
      <4>2. QED
        BY <3>1, <4>1
    <3>3. CASE q \notin gone /\ pk[q].slot \in slots
      <4>1. PICK p \in gone : pk[p].slot = pk[q].slot
        BY <3>3
      <4>2. hanger[pk[p].slot] = p
        BY <1>2, <1>4 DEF Situated, Hung
      <4>3. fin'[q] # 0 /\ hanger'[pk[q].slot] = NoPkt
        BY <1>1, <1>5, <3>1, <3>3, <4>1, <4>2
      <4>4. QED
        BY <3>1, <4>3
    <3>4. CASE q \notin gone /\ pk[q].slot \notin slots
      BY <1>1, <1>5, <3>1, <3>4
    <3>5. QED
      BY <3>2, <3>3, <3>4
  <2>2. QED
    BY <1>0, <2>1 DEF Hung
<1>11. ASSUME NEW e \in Dests, NEW g \in Fifos PROVE Waits(e, g)'
  <2>1. ASSUME NEW q \in At(psq', e, g)
        PROVE  pk[q].mac = e /\ pk[q].fifo = g /\ q <= sent /\ q \notin Transit /\ fin'[q] = 0
    <3>1. e # d /\ q \in At(psq, e, g) /\ q \in Packets
      BY <1>3, <1>7, <2>1
    <3>2. q \notin gone
      BY <1>3, <1>4, <3>1 DEF Waits
    <3>3. QED
      BY <1>3, <1>5, <3>1, <3>2 DEF Waits
  <2>2. QED
    BY <1>0, <1>7, <2>1 DEF Waits
<1>12. QED
  BY <1>0, <1>5, <1>6, <1>7, <1>8, <1>9, <1>10, <1>11 DEF Situated, Waiting, gone

(***************************************************************************)
(* Step by step: what each does to the packets, and that the types and the *)
(* places are kept.                                                        *)
(***************************************************************************)

Kept == Typed' /\ TypedThreads' /\ Placed'

LEMMA InitCore == Init => Core
<1> SUFFICES ASSUME Init PROVE Core
  OBVIOUS
<1>1. NoPkt \notin Packets /\ 0 \in Dests /\ 0 \in Fifos /\ 0 \in Nat
  BY CountAssumption DEF NoPkt, Packets, Dests, Fifos, ACs
<1>2. << >> \in Seq(Packets) /\ NoDup(<< >>) /\ Elements(<< >>) = {}
  BY DEF NoDup, Elements
<1>3. Transit = {}
  BY DEF Init, Transit, InHand
<1>4. psq \in Psqs
  <2> DEFINE none == [d \in Dests |-> [f \in Fifos |-> << >>]]
             zero == [f \in Fifos |-> 0]
  <2>1. none \in Queues /\ zero \in [Fifos -> Int]
    BY <1>2 DEF Queues
  <2>2. psq = [delayed |-> none, suppressed |-> none, delay_map |-> {}, enqpkt |-> zero, stop |-> FALSE]
    BY DEF Init
  <2> HIDE DEF none, zero
  <2>3. QED
    BY <2>1, <2>2 DEF Psqs
<1>5. mac \in [Dests -> Entries]
  BY DEF Init, Entries
<1>6. credits \in CreditStates
  <2> DEFINE loans == [b \in ACs |-> [l \in ACs |-> 0]]
             m == {f \in Fifos : Credits[f] > 0}
  <2>1. loans \in [ACs -> [ACs -> Nat]] /\ m \in SUBSET Fifos /\ Credits \in [Fifos -> Int]
    BY CreditAssumption
  <2>2. credits = [fifo |-> Credits, map |-> m, borrowed |-> loans]
    BY DEF Init
  <2> HIDE DEF loans, m
  <2>3. QED
    BY <2>1, <2>2 DEF CreditStates
<1>7. pk \in [Packets -> Descs]
  BY <1>1 DEF Init, Descs
<1>8. Typed
  <2>1. sent \in 0 .. NPackets
    BY CountAssumption DEF Init
  <2>2. QED
    BY <1>4, <1>5, <1>6, <1>7, <2>1 DEF Init, Typed, Ids
<1>9. TypedThreads /\ Placed
  BY <1>1 DEF Init, TypedThreads, Placed, InHand, Ids
<1>10. OnWay /\ Final /\ Hung
  <2>1. \A p \in Packets : ~(p <= sent)
    BY DEF Init, Packets
  <2>2. QED
    BY <1>3, <2>1 DEF Init, OnWay, Final, Hung
<1>11. ASSUME NEW d \in Dests, NEW f \in Fifos PROVE Waits(d, f)
  <2>1. psq.delayed[d][f] = << >> /\ psq.suppressed[d][f] = << >>
    BY DEF Init
  <2>2. QED
    BY <1>2, <2>1 DEF Waits, Tidy, At
<1>12. QED
  BY <1>8, <1>9, <1>10, <1>11 DEF Core, Situated, Waiting

LEMMA SchedulingSteps ==
  ASSUME Core, SkbSchedule \/ RxSchedule \/ MarkSuppressed \/ BusUnblocked
  PROVE  Kept /\ Steady /\ UNCHANGED << mac, credits, owed, worker, bus, dev >>
<1>1. UNCHANGED << pk, sent, hanger, psq, mac, credits, deq_node_pos, wpc, wfifo, wphase, hand, bus, dev, owed, fin >>
  BY DEF SkbSchedule, RxSchedule, MarkSuppressed, BusUnblocked, hang, worker, device
<1>2. Typed' /\ TypedThreads'
  BY <1>1 DEF Core, Typed, TypedThreads
<1>3. Placed'
  BY <1>1 DEF Core, Placed, InHand
<1>4. Steady
  BY <1>1 DEF Steady, Transit, InHand
<1>5. QED
  BY <1>1, <1>2, <1>3, <1>4 DEF Kept, worker

LEMMA IdleStep ==
  ASSUME Core, UNCHANGED vars
  PROVE  Kept /\ Steady /\ UNCHANGED << mac, credits, owed, worker, bus, dev >>
<1>1. UNCHANGED << pk, sent, hanger, psq, mac, credits, deq_node_pos, wpc, wfifo, wphase, hand, bus, dev, owed, fin >>
  BY DEF vars, hang, worker, device
<1>2. Typed' /\ TypedThreads'
  BY <1>1 DEF Core, Typed, TypedThreads
<1>3. Placed'
  BY <1>1 DEF Core, Placed, InHand
<1>4. Steady
  BY <1>1 DEF Steady, Transit, InHand
<1>5. QED
  BY <1>1, <1>2, <1>3, <1>4 DEF Kept, worker

LEMMA StartWorkerStep ==
  ASSUME Core, StartWorker
  PROVE  Kept /\ Steady /\ UNCHANGED << mac, credits, owed, bus, dev >>
<1>1. /\ UNCHANGED << pk, sent, hanger, psq, mac, credits, deq_node_pos, wphase, hand, bus, dev, owed, fin >>
      /\ wpc = "idle" /\ ((wpc' = wpc /\ wfifo' = wfifo) \/ (wpc' = "own" /\ wfifo' = BCMC))
  <2>1. UNCHANGED << pk, sent, hanger, psq, mac, credits, deq_node_pos, wphase, hand, bus, dev, owed, fin >>
    BY DEF StartWorker, hang, device
  <2>2. wpc = "idle" /\ ((wpc' = wpc /\ wfifo' = wfifo) \/ (wpc' = "own" /\ wfifo' = BCMC))
    <3>1. CASE bus_flow_blocked
      <4>1. UNCHANGED << wpc, wfifo >>
        BY <3>1 DEF StartWorker
      <4>2. wpc = "idle"
        BY DEF StartWorker
      <4>3. QED
        BY <4>1, <4>2
    <3>2. CASE ~bus_flow_blocked
      BY <3>2 DEF StartWorker
    <3>3. QED
      BY <3>1, <3>2
  <2>3. QED
    BY <2>1, <2>2
<1>2. Typed' /\ TypedThreads'
  BY <1>1 DEF Core, Typed, TypedThreads, Fifos
<1>3. Placed' /\ InHand' = InHand
  BY <1>1 DEF Core, Placed, InHand
<1>4. Steady
  BY <1>1, <1>3 DEF Steady, Transit
<1>5. QED
  BY <1>1, <1>2, <1>3, <1>4 DEF Kept

(* The worker goes on to the next lower FIFO, or borrows for this one.     *)
LEMMA OnwardType ==
  ASSUME wfifo \in Fifos, NEW c, NextFifo \/ AfterOwn(c)
  PROVE  /\ wfifo' \in Fifos /\ wpc' \in {"idle", "own", "borrow"}
         /\ wpc' = "borrow" => wfifo' \in ACs \ {0}
<1>1. ASSUME wfifo # 0 PROVE wfifo - 1 \in Fifos
  BY <1>1, CountAssumption DEF Fifos, ACs, BCMC
<1>2. QED
  BY <1>1 DEF NextFifo, AfterOwn, MayBorrow

LEMMA OwnDoneStep ==
  ASSUME Core, OwnDone
  PROVE  Kept /\ Steady /\ UNCHANGED << credits, owed, bus, dev >> /\ Calmer(mac', mac)
<1>1. /\ UNCHANGED << pk, sent, hanger, psq, credits, deq_node_pos, wphase, hand, bus, dev, owed, fin >>
      /\ wpc = "own" /\ AfterOwn(credits)
      /\ mac' = mac \/ mac' = Calmed(wfifo, Dests)
  BY DEF OwnDone, hang, device
<1>2. mac \in [Dests -> Entries] /\ wfifo \in Fifos
  BY DEF Core, Typed, TypedThreads
<1>3. mac' \in [Dests -> Entries] /\ Calmer(mac', mac)
  <2>1. Calmer(mac, mac)
    BY DEF Calmer
  <2>2. QED
    BY <1>1, <1>2, <2>1, CalmedType
<1>4. /\ wfifo' \in Fifos /\ wpc' \in {"idle", "own", "borrow"}
      /\ wpc' = "borrow" => wfifo' \in ACs \ {0}
  BY <1>1, <1>2, OnwardType
<1>5. Typed' /\ TypedThreads'
  BY <1>1, <1>3, <1>4 DEF Core, Typed, TypedThreads
<1>6. Placed' /\ InHand' = InHand
  BY <1>1, <1>4 DEF Core, Placed, InHand
<1>7. Steady
  BY <1>1, <1>6 DEF Steady, Transit
<1>8. QED
  BY <1>1, <1>3, <1>5, <1>6, <1>7 DEF Kept

LEMMA BorrowDoneStep ==
  ASSUME Core, BorrowDone
  PROVE  Kept /\ Steady /\ UNCHANGED << owed, bus, dev >> /\ Calmer(mac', mac)
<1>1. /\ UNCHANGED << pk, sent, hanger, psq, deq_node_pos, wphase, hand, bus, dev, owed, fin >>
      /\ wpc = "borrow" /\ NextFifo
      /\ \/ mac' = mac /\ credits' = [credits EXCEPT !.map = @ \ {wfifo}]
         \/ /\ mac' = Calmed(wfifo, Dests) /\ Solvent(wfifo) # {}
            /\ credits' = Return(Borrow(wfifo), wfifo)
  BY DEF BorrowDone, hang, device
<1>2. mac \in [Dests -> Entries] /\ wfifo \in Fifos /\ credits \in CreditStates /\ wfifo \in ACs \ {0}
  BY <1>1 DEF Core, Typed, TypedThreads, Placed
<1>3. mac' \in [Dests -> Entries] /\ Calmer(mac', mac)
  <2>1. Calmer(mac, mac)
    BY DEF Calmer
  <2>2. QED
    BY <1>1, <1>2, <2>1, CalmedType
<1>4. credits' \in CreditStates
  <2>1. [credits EXCEPT !.map = @ \ {wfifo}] \in CreditStates
    BY <1>2 DEF CreditStates
  <2>2. Solvent(wfifo) # {} => Return(Borrow(wfifo), wfifo) \in CreditStates
    BY <1>2, BorrowType, ReturnType
  <2>3. QED
    BY <1>1, <2>1, <2>2
<1>5. wfifo' \in Fifos /\ wpc' \in {"idle", "own"}
  <2>1. wfifo' \in Fifos
    BY <1>1, <1>2, OnwardType
  <2>2. QED
    BY <1>1, <2>1 DEF NextFifo
<1>6. Typed' /\ TypedThreads'
  BY <1>1, <1>3, <1>4, <1>5 DEF Core, Typed, TypedThreads
<1>7. Placed' /\ InHand' = InHand
  BY <1>1, <1>5 DEF Core, Placed, InHand
<1>8. Steady
  BY <1>1, <1>7 DEF Steady, Transit
<1>9. QED
  BY <1>1, <1>3, <1>6, <1>7, <1>8 DEF Kept

(* Relocking leaves the packet to the bus.                                 *)
LEMMA RelockStep ==
  ASSUME Core, Relock
  PROVE  Kept /\ Steady /\ UNCHANGED << mac, credits, owed, bus, dev >>
<1>1. /\ UNCHANGED << pk, sent, hanger, psq, mac, credits, deq_node_pos, wphase, bus, dev, owed, fin >>
      /\ wpc = "sent" /\ hand' = NoPkt /\ wpc' \in {wphase, "idle"} /\ wfifo' = wfifo
  BY DEF Relock, hang, device
<1>2. wphase \in {"own", "borrow"}
  BY DEF Core, TypedThreads
<1>3. Typed' /\ TypedThreads'
  BY <1>1, <1>2 DEF Core, Typed, TypedThreads, Ids
<1>4. Placed' /\ InHand' = InHand
  BY <1>1, <1>2 DEF Core, Placed, InHand
<1>5. Steady
  BY <1>1, <1>4 DEF Steady, Transit
<1>6. QED
  BY <1>1, <1>3, <1>4, <1>5 DEF Kept

LEMMA TxRefusedStep ==
  ASSUME Core, TxRefused
  PROVE  Kept /\ Steady /\ UNCHANGED << mac, credits, owed, bus, dev >>
<1>1. /\ UNCHANGED << pk, sent, hanger, psq, mac, credits, deq_node_pos, wfifo, wphase, hand, bus, dev, owed, fin >>
      /\ wpc = "tx" /\ wpc' = "refused"
  BY DEF TxRefused, hang
<1>2. Typed' /\ TypedThreads'
  BY <1>1 DEF Core, Typed, TypedThreads
<1>3. Placed' /\ InHand' = InHand
  BY <1>1 DEF Core, Placed, InHand
<1>4. Steady
  BY <1>1, <1>3 DEF Steady, Transit
<1>5. QED
  BY <1>1, <1>2, <1>3, <1>4 DEF Kept

(* A packet passes from the worker to the bus ...                          *)
LEMMA TxDataStep ==
  ASSUME Core, TxData
  PROVE  Kept /\ Steady /\ UNCHANGED << mac, credits, owed, dev >>
<1>1. /\ UNCHANGED << pk, sent, hanger, psq, mac, credits, deq_node_pos, wfifo, wphase, hand, dev, owed, fin >>
      /\ wpc = "tx" /\ wpc' = "sent" /\ bus' = bus \cup {hand}
  BY DEF TxData, hang, device
<1>2. InHand = {hand} /\ InHand' = {} /\ hand \in Packets
  BY <1>1 DEF InHand, Core, Placed, TypedThreads, Ids
<1>3. Typed' /\ TypedThreads'
  BY <1>1, <1>2 DEF Core, Typed, TypedThreads
<1>4. Placed'
  BY <1>1, <1>2 DEF Core, Placed
<1>5. Steady
  BY <1>1, <1>2 DEF Steady, Transit
<1>6. QED
  BY <1>1, <1>3, <1>4, <1>5 DEF Kept

(* ... and from the bus to the device.                                     *)
LEMMA BusDoneStep ==
  ASSUME Core, NEW p \in Packets, BusDone(p)
  PROVE  Kept /\ Steady /\ UNCHANGED << mac, credits >>
<1>1. /\ UNCHANGED << pk, sent, hanger, psq, mac, credits, deq_node_pos, wpc, wfifo, wphase, hand, fin >>
      /\ p \in bus /\ bus' = bus \ {p} /\ dev' = dev \cup {p}
      /\ owed' = IF Explicit /\ ~pk[p].req THEN [owed EXCEPT ![pk[p].fifo] = @ + 1] ELSE owed
  BY DEF BusDone, hang, worker
<1>2. owed' \in [Fifos -> Nat]
  <2>1. pk[p].fifo \in Fifos /\ owed \in [Fifos -> Nat]
    BY DEF Core, Typed, Descs
  <2>2. [owed EXCEPT ![pk[p].fifo] = @ + 1] \in [Fifos -> Nat]
    BY <2>1
  <2>3. QED
    BY <1>1, <2>1, <2>2
<1>3. Typed' /\ TypedThreads'
  BY <1>1, <1>2 DEF Core, Typed, TypedThreads
<1>4. Placed' /\ InHand' = InHand
  BY <1>1 DEF Core, Placed, InHand
<1>5. Steady
  BY <1>1, <1>4 DEF Steady, Transit
<1>6. QED
  BY <1>1, <1>3, <1>4, <1>5 DEF Kept

(* The device opens and closes destinations, requests packets, and adds a  *)
(* node.                                                                   *)
LEMMA EntrySteps ==
  ASSUME Core, NEW d \in Dests, MacClose(d) \/ MacOpen(d) \/ MacRequest(d) \/ MacdescAdd(d)
  PROVE  Kept /\ Steady /\ UNCHANGED << credits, owed, bus, dev >> /\ \A e \in Dests : SameCounts(mac'[e], mac[e])
<1>1. UNCHANGED << pk, sent, hanger, psq, credits, deq_node_pos, wpc, wfifo, wphase, hand, bus, dev, owed, fin >>
  BY DEF MacClose, MacOpen, SetState, MacRequest, MacdescAdd, hang, worker, device
<1>2. mac' \in [Dests -> Entries] /\ \A e \in Dests : SameCounts(mac'[e], mac[e])
  <2>0. mac \in [Dests -> Entries]
    BY DEF Core, Typed
  <2>1. \E m \in Entries : SameCounts(m, mac[d]) /\ mac' = [mac EXCEPT ![d] = m]
    <3>1. CASE MacClose(d) \/ MacOpen(d)
      <4>1. PICK c \in BOOLEAN : mac' = [mac EXCEPT ![d].closed = c, ![d].credit = 0, ![d].packet = 0]
        BY <3>1 DEF MacClose, MacOpen, SetState
      <4>2. mac' = [mac EXCEPT ![d] = [mac[d] EXCEPT !.closed = c, !.credit = 0, !.packet = 0]]
        BY <2>0, <4>1
      <4>3. /\ [mac[d] EXCEPT !.closed = c, !.credit = 0, !.packet = 0] \in Entries
            /\ SameCounts([mac[d] EXCEPT !.closed = c, !.credit = 0, !.packet = 0], mac[d])
        BY <2>0 DEF Entries, SameCounts
      <4>4. QED
        BY <4>2, <4>3
    <3>2. CASE MacRequest(d)
      <4>1. PICK n \in 1 .. MaxRequest : mac' = [mac EXCEPT ![d].credit = n] \/ mac' = [mac EXCEPT ![d].packet = n]
        BY <3>2 DEF MacRequest
      <4>2. \/ mac' = [mac EXCEPT ![d] = [mac[d] EXCEPT !.credit = n]]
            \/ mac' = [mac EXCEPT ![d] = [mac[d] EXCEPT !.packet = n]]
        BY <2>0, <4>1
      <4>3. /\ [mac[d] EXCEPT !.credit = n] \in Entries /\ [mac[d] EXCEPT !.packet = n] \in Entries
            /\ SameCounts([mac[d] EXCEPT !.credit = n], mac[d]) /\ SameCounts([mac[d] EXCEPT !.packet = n], mac[d])
        BY <2>0, CreditAssumption DEF Entries, SameCounts
      <4>4. QED
        BY <4>2, <4>3
    <3>3. CASE MacdescAdd(d)
      <4>1. mac' = [mac EXCEPT ![d].occupied = TRUE, ![d].closed = FALSE, ![d].credit = 0, ![d].packet = 0]
        BY <3>3 DEF MacdescAdd
      <4> DEFINE m == [mac[d] EXCEPT !.occupied = TRUE, !.closed = FALSE, !.credit = 0, !.packet = 0]
      <4>2. mac' = [mac EXCEPT ![d] = m]
        BY <2>0, <4>1
      <4>3. m \in Entries /\ SameCounts(m, mac[d])
        BY <2>0 DEF Entries, SameCounts
      <4>4. QED
        BY <4>2, <4>3
    <3>4. QED
      BY <3>1, <3>2, <3>3
  <2>2. PICK m \in Entries : SameCounts(m, mac[d]) /\ mac' = [mac EXCEPT ![d] = m]
    BY <2>1
  <2>3. QED
    BY <2>0, <2>2 DEF SameCounts
<1>3. Typed' /\ TypedThreads'
  BY <1>1, <1>2 DEF Core, Typed, TypedThreads
<1>4. Placed' /\ InHand' = InHand
  BY <1>1 DEF Core, Placed, InHand
<1>5. Steady
  BY <1>1, <1>4 DEF Steady, Transit
<1>6. QED
  BY <1>1, <1>2, <1>3, <1>4, <1>5 DEF Kept

LEMMA CreditBackStep ==
  ASSUME Core, NEW f \in Fifos, CreditBack(f)
  PROVE  /\ Kept /\ Steady /\ UNCHANGED << mac, bus, dev >>
         /\ \E n \in Nat : /\ n <= owed[f] /\ owed' = [owed EXCEPT ![f] = @ - n]
                           /\ credits' = ReturnMany(credits, f, n)
<1>1. UNCHANGED << pk, sent, hanger, psq, mac, deq_node_pos, wpc, wfifo, wphase, hand, bus, dev, fin >>
  BY DEF CreditBack, hang, worker
<1>2. PICK n \in 1 .. owed[f] : owed' = [owed EXCEPT ![f] = @ - n] /\ credits' = ReturnMany(credits, f, n)
  BY DEF CreditBack
<1>3. owed \in [Fifos -> Nat] /\ credits \in CreditStates /\ n \in Nat /\ n <= owed[f]
  BY DEF Core, Typed
<1>4. owed' \in [Fifos -> Nat] /\ credits' \in CreditStates
  BY <1>2, <1>3, ReturnManyType
<1>5. Typed' /\ TypedThreads'
  BY <1>1, <1>4 DEF Core, Typed, TypedThreads
<1>6. Placed' /\ InHand' = InHand
  BY <1>1 DEF Core, Placed, InHand
<1>7. Steady
  BY <1>1, <1>6 DEF Steady, Transit
<1>8. QED
  BY <1>1, <1>2, <1>3, <1>5, <1>6, <1>7 DEF Kept

(* The worker takes the next packet of the first destination that has one  *)
(* to send.                                                                *)
LEMMA TurnType ==
  ASSUME Core, NEW i \in Turn(wfifo)
  PROVE  Visit(wfifo, i) \in Dests /\ Yields(Visit(wfifo, i), wfifo)
<1>1. i \in Dests /\ Yields(Visit(wfifo, i), wfifo)
  BY DEF Turn
<1>2. NDests \in Nat \ {0} /\ deq_node_pos[wfifo] \in Dests
  BY CountAssumption DEF Core, TypedThreads
<1>3. (deq_node_pos[wfifo] + i) % NDests \in 0 .. NDests - 1
  BY <1>1, <1>2 DEF Dests
<1>4. QED
  BY <1>1, <1>3 DEF Visit, Dests

(* The next packet of destination d is taken, and counted in transit.      *)
Sends(d) ==
  /\ Takes(hand', d, wfifo) /\ UNCHANGED << owed, bus, dev >>
  /\ hand = NoPkt /\ hand' \in Packets /\ Yields(d, wfifo) /\ psq' = Deq(psq, d, wfifo)
  /\ wpc' = "tx" /\ pk'[hand'].supp = pk[hand'].supp
  /\ \A q \in Packets : q # hand' => pk'[q] = pk[q]
  /\ \A e \in Dests :
       /\ mac'[e].transit = IF e = d THEN mac[e].transit + 1 ELSE mac[e].transit
       /\ mac'[e].suppressed =>
            mac[e].suppressed /\ mac'[e].suppr = IF e = d THEN mac[e].suppr + 1 ELSE mac[e].suppr

LEMMA CommitStep ==
  ASSUME Core, NEW i \in Turn(wfifo), NEW phase \in {"own", "borrow"}, Commit(i, phase),
         wpc \in {"own", "borrow"}, phase = "borrow" => wfifo \in ACs \ {0}, credits' \in CreditStates
  PROVE  Kept /\ Situated' /\ Visit(wfifo, i) \in Dests /\ Sends(Visit(wfifo, i))
<1> DEFINE d == Visit(wfifo, i)
           f == wfifo
           m == Calmed(f, 0 .. i)
           h == Head(psq.suppressed[d][f] \o psq.delayed[d][f])
<1>1. d \in Dests /\ Yields(d, f)
  BY TurnType
<1>2. /\ psq' = Deq(psq, d, f) /\ mac' = [m EXCEPT ![d] = InTransit(UseRequest(@))]
      /\ pk' = [pk EXCEPT ![h].req = mac[d].credit > 0]
      /\ hand' = h /\ wphase' = phase /\ wpc' = "tx" /\ wfifo' = wfifo
      /\ deq_node_pos' = [deq_node_pos EXCEPT ![f] = (d + 1) % NDests]
      /\ UNCHANGED << sent, hanger, bus, dev, owed, fin >>
  BY DEF Commit, HeadOf, hang, device
<1>3. /\ mac \in [Dests -> Entries] /\ psq \in Psqs /\ f \in Fifos /\ pk \in [Packets -> Descs]
      /\ deq_node_pos \in [Fifos -> Dests]
  BY DEF Core, Typed, TypedThreads
<1> HIDE DEF d
<1>4. psq' \in Psqs /\ Leaves(psq', psq, d, f, h)
  <2>1. psq.suppressed[d][f] # << >> \/ psq.delayed[d][f] # << >>
    BY <1>1 DEF Yields
  <2>2. QED
    BY <1>1, <1>2, <1>3, <2>1, DeqEffect
<1> HIDE DEF h
<1>5. InHand = {} /\ InHand' = {h} /\ hand = NoPkt
  BY <1>2 DEF InHand, Core, Placed
<1>6. Transit' = Transit \cup {h}
  BY <1>2, <1>5 DEF Transit
<1>7. SameNames /\ pk'[h].supp = pk[h].supp /\ \A q \in Packets : q # h => pk'[q] = pk[q]
  <2>1. ASSUME NEW q \in Packets
        PROVE  pk'[q] = IF q = h THEN [pk[q] EXCEPT !.req = mac[d].credit > 0] ELSE pk[q]
    BY <1>2, <1>3
  <2>2. ASSUME NEW q \in Packets
        PROVE  pk'[q].mac = pk[q].mac /\ pk'[q].fifo = pk[q].fifo /\ pk'[q].slot = pk[q].slot /\ pk'[q].supp = pk[q].supp
    BY <1>3, <2>1 DEF Descs
  <2>3. h \in Packets
    BY <1>1, <1>3, <1>4, LeavesAt DEF Core, Situated, Waiting, Waits
  <2>4. QED
    BY <2>1, <2>2, <2>3 DEF SameNames
<1>8. Takes(h, d, f)
  BY <1>1, <1>2, <1>3, <1>4, <1>6, <1>7 DEF Takes
<1>9. Situated' /\ h \in Packets /\ h \notin Transit /\ pk[h].fifo = f
  BY <1>8, TakesSituated DEF Core
<1>10. m \in [Dests -> Entries] /\ Calmer(m, mac)
  BY <1>3, CalmedType
<1> HIDE DEF m
<1>11. /\ UseRequest(m[d]) \in Entries /\ SameCounts(UseRequest(m[d]), m[d])
       /\ InTransit(UseRequest(m[d])) \in Entries
       /\ InTransit(UseRequest(m[d])).transit = UseRequest(m[d]).transit + 1
       /\ InTransit(UseRequest(m[d])).suppressed = UseRequest(m[d]).suppressed
       /\ UseRequest(m[d]).suppressed => InTransit(UseRequest(m[d])).suppr = UseRequest(m[d]).suppr + 1
  <2>1. m[d] \in Entries
    BY <1>1, <1>10
  <2>2. UseRequest(m[d]) \in Entries /\ SameCounts(UseRequest(m[d]), m[d])
    BY <2>1, EntryRequests
  <2>3. QED
    BY <2>2, EntryCounts
<1>12. mac' \in [Dests -> Entries]
  BY <1>2, <1>10, <1>11
<1>13. \A e \in Dests :
         /\ mac'[e].transit = IF e = d THEN mac[e].transit + 1 ELSE mac[e].transit
         /\ mac'[e].suppressed =>
              mac[e].suppressed /\ mac'[e].suppr = IF e = d THEN mac[e].suppr + 1 ELSE mac[e].suppr
  <2>1. \A e \in Dests : mac'[e] = IF e = d THEN InTransit(UseRequest(m[d])) ELSE m[e]
    BY <1>2, <1>10
  <2>2. QED
    BY <1>10, <1>11, <2>1 DEF Calmer, SameCounts
<1>14. pk' \in [Packets -> Descs]
  <2>1. (mac[d].credit > 0) \in BOOLEAN
    OBVIOUS
  <2>2. QED
    BY <1>2, <1>3, <2>1 DEF Descs
<1>15. deq_node_pos' \in [Fifos -> Dests]
  <2>1. (d + 1) % NDests \in Dests
    BY <1>1, CountAssumption DEF Dests
  <2>2. QED
    BY <1>2, <1>3, <2>1
<1>16. Typed' /\ TypedThreads'
  BY <1>2, <1>4, <1>9, <1>12, <1>14, <1>15 DEF Core, Typed, TypedThreads, Ids
<1>17. Placed'
  <2>1. hand' # NoPkt
    BY <1>2, <1>9 DEF Packets, NoPkt
  <2>2. h \notin bus \cup dev
    BY <1>9 DEF Transit
  <2>3. QED
    BY <1>2, <1>5, <2>1, <2>2 DEF Core, Placed
<1>18. Sends(d)
  BY <1>1, <1>2, <1>5, <1>7, <1>8, <1>9, <1>13 DEF Sends
<1>19. QED
  BY <1>1, <1>9, <1>16, <1>17, <1>18 DEF Kept, d

(* The worker spends a credit of the FIFO it serves, or one it borrows.    *)
LEMMA SendOwnStep ==
  ASSUME Core, SendOwn
  PROVE  /\ Kept /\ Situated' /\ \E d \in Dests : Sends(d)
         /\ credits \in CreditStates /\ credits' \in CreditStates /\ wfifo \in Fifos
         /\ credits.fifo[wfifo] # 0 /\ credits'.fifo = [credits.fifo EXCEPT ![wfifo] = @ - 1]
         /\ credits'.borrowed = credits.borrowed
<1> DEFINE have == [credits.fifo EXCEPT ![wfifo] = @ - 1]
<1>1. /\ credits' = [credits EXCEPT !.fifo[wfifo] = @ - 1]
      /\ credits.fifo[wfifo] # 0 /\ wpc = "own"
  BY DEF SendOwn, HasCredit
<1>2. credits \in CreditStates /\ wfifo \in Fifos
  BY DEF Core, Typed, TypedThreads
<1>3. have \in [Fifos -> Int] /\ credits' = [credits EXCEPT !.fifo = have]
  BY <1>1, <1>2 DEF CreditStates
<1> HIDE DEF have
<1>4. credits' \in CreditStates /\ credits'.fifo = have /\ credits'.borrowed = credits.borrowed
  BY <1>2, <1>3 DEF CreditStates
<1>5. PICK i \in Turn(wfifo) : Commit(i, "own")
  BY DEF SendOwn
<1>6. Kept /\ Situated' /\ \E d \in Dests : Sends(d)
  BY <1>1, <1>4, <1>5, CommitStep
<1>7. QED
  BY <1>1, <1>2, <1>4, <1>6 DEF have

LEMMA SendBorrowedStep ==
  ASSUME Core, SendBorrowed
  PROVE  /\ Kept /\ Situated' /\ (\E d \in Dests : Sends(d)) /\ wfifo \in ACs \ {0}
         /\ credits' = Borrow(wfifo) /\ credits' \in CreditStates /\ Solvent(wfifo) # {}
<1>1. credits' = Borrow(wfifo) /\ Solvent(wfifo) # {} /\ wpc = "borrow"
  BY DEF SendBorrowed
<1>2. credits \in CreditStates /\ wfifo \in ACs \ {0}
  BY <1>1 DEF Core, Typed, Placed
<1>3. credits' \in CreditStates
  BY <1>1, <1>2, BorrowType
<1>4. PICK i \in Turn(wfifo) : Commit(i, "borrow")
  BY DEF SendBorrowed
<1>5. Kept /\ Situated' /\ \E d \in Dests : Sends(d)
  BY <1>1, <1>2, <1>3, <1>4, CommitStep
<1>6. QED
  BY <1>1, <1>2, <1>3, <1>5

(* One packet less is in transit to a destination, and awaited if that is  *)
(* suppressed.                                                             *)
Uncounts(n, m) ==
  /\ n.transit = m.transit - 1
  /\ n.suppressed =>
       IF m.suppressed THEN m.suppr # 0 => n.suppr = m.suppr - 1 ELSE n.suppr = n.transit
Uncounted(d) ==
  /\ \A e \in Dests : e # d => mac'[e] = mac[e]
  /\ Uncounts(mac'[d], mac[d])

LEMMA EntryAnswers ==
  ASSUME NEW m \in Entries, NEW p
  PROVE  /\ ReturnRequest(Answered(m), p) \in Entries /\ Uncounts(ReturnRequest(Answered(m), p), m)
         /\ Suppressed(ReturnRequest(Answered(m), p)) \in Entries
         /\ Uncounts(Suppressed(ReturnRequest(Answered(m), p)), m)
         /\ ReturnRequest(Untransit(m), p) \in Entries
         /\ ReturnRequest(Answered(Untransit(m)), p) \in Entries
<1> DEFINE a == Answered(m)
           r == ReturnRequest(a, p)
           s == Suppressed(r)
<1>1. /\ a \in Entries /\ a.transit = m.transit - 1 /\ a.suppressed = m.suppressed
      /\ m.suppressed /\ m.suppr # 0 => a.suppr = m.suppr - 1
  BY EntryCounts
<1> HIDE DEF a
<1>2. r \in Entries /\ SameCounts(r, a)
  BY <1>1, EntryRequests
<1> HIDE DEF r
<1>3. s \in Entries /\ s.transit = r.transit /\ s.suppr = IF r.suppressed THEN r.suppr ELSE r.transit
  BY <1>2, EntryCounts
<1> HIDE DEF s
<1>4. m.suppressed \in BOOLEAN
  BY DEF Entries
<1>5. Uncounts(r, m)
  BY <1>1, <1>2, <1>4 DEF Uncounts, SameCounts
<1>6. Uncounts(s, m)
  BY <1>1, <1>2, <1>3, <1>4 DEF Uncounts, SameCounts
<1>7. Untransit(m) \in Entries
  BY EntryCounts
<1>8. ReturnRequest(Untransit(m), p) \in Entries
  BY <1>7, EntryRequests
<1>9. Answered(Untransit(m)) \in Entries
  BY <1>7, EntryCounts
<1>10. ReturnRequest(Answered(Untransit(m)), p) \in Entries
  BY <1>9, EntryRequests
<1>11. QED
  BY <1>2, <1>3, <1>5, <1>6, <1>8, <1>10 DEF a, r, s

LEMMA PickUpType ==
  ASSUME Core, NEW p \in Packets, NEW tossed, PickUp(p, tossed)
  PROVE  /\ credits' \in CreditStates
         /\ IF CreditOf(p, tossed) THEN credits' = Return(credits, pk[p].fifo) ELSE credits' = credits
<1>1. pk[p].fifo \in Fifos /\ credits \in CreditStates
  BY DEF Core, Typed, Descs
<1>2. CASE CreditOf(p, tossed)
  <2>1. credits' = Return(credits, pk[p].fifo)
    BY <1>2 DEF PickUp
  <2>2. QED
    BY <1>1, <1>2, <2>1, ReturnType
<1>3. CASE ~CreditOf(p, tossed)
  BY <1>1, <1>3 DEF PickUp
<1>4. QED
  BY <1>2, <1>3

LEMMA TossedType ==
  ASSUME Core, NEW p \in Transit, Tossed(p)
  PROVE  fin' \in [Packets -> Nat] /\ hanger' \in [Slots -> Ids]
<1>1. p \in Packets /\ fin \in [Packets -> Nat] /\ hanger \in [Slots -> Ids] /\ NoPkt \in Ids
  BY TransitType DEF Core, Typed, Ids
<1>2. fin' = [fin EXCEPT ![p] = @ + 1] /\ hanger' = [hanger EXCEPT ![pk[p].slot] = NoPkt]
  BY DEF Tossed
<1>3. fin[p] + 1 \in Nat
  BY <1>1
<1>4. fin' \in [Packets -> Nat]
  BY <1>1, <1>2, <1>3
<1>5. hanger' \in [Slots -> Ids]
  BY <1>1, <1>2
<1>6. QED
  BY <1>4, <1>5

(* The device or the bus is done with a packet.                            *)
LEMMA AnswersStep ==
  ASSUME Core, NEW p \in Packets, TxStatus(p) \/ TxSuppressedFull(p) \/ BusFailed(p)
  PROVE  /\ Kept /\ Situated' /\ Tosses(p) /\ UNCHANGED << worker, owed >>
         /\ Uncounted(pk[p].mac)
         /\ \/ p \in dev /\ dev' = dev \ {p} /\ bus' = bus /\ PickUp(p, FALSE)
            \/ p \in bus /\ bus' = bus \ {p} /\ dev' = dev /\ PickUp(p, TRUE)
<1> DEFINE d == pk[p].mac
           a == ReturnRequest(Answered(mac[d]), p)
<1>1. /\ UNCHANGED << pk, sent, psq, deq_node_pos, wpc, wfifo, wphase, hand, owed >>
      /\ \/ p \in dev /\ dev' = dev \ {p} /\ bus' = bus /\ PickUp(p, FALSE)
         \/ p \in bus /\ bus' = bus \ {p} /\ dev' = dev /\ PickUp(p, TRUE)
      /\ Tossed(p)
  BY DEF TxStatus, TxSuppressedFull, BusFailed, worker
<1>2. mac' = [mac EXCEPT ![d] = a] \/ mac' = [mac EXCEPT ![d] = Suppressed(a)]
  BY DEF TxStatus, TxSuppressedFull, BusFailed
<1>3. mac \in [Dests -> Entries] /\ d \in Dests /\ mac[d] \in Entries
  BY DEF Core, Typed, Descs
<1>4. a \in Entries /\ Uncounts(a, mac[d]) /\ Suppressed(a) \in Entries /\ Uncounts(Suppressed(a), mac[d])
  BY <1>3, EntryAnswers
<1> HIDE DEF a, d
<1>5. mac' \in [Dests -> Entries] /\ Uncounted(d)
  BY <1>2, <1>3, <1>4 DEF Uncounted
<1>6. p \in Transit /\ InHand' = InHand /\ p \notin InHand /\ ~(p \in bus /\ p \in dev)
  BY <1>1 DEF Transit, InHand, Core, Placed
<1>7. Transit' = Transit \ {p}
  BY <1>1, <1>6 DEF Transit
<1>8. Tosses(p)
  BY <1>1, <1>6, <1>7 DEF Tosses
<1>9. Situated'
  BY <1>8, TossesSituated DEF Core
<1>10. credits' \in CreditStates
  BY <1>1, PickUpType
<1>11. Typed' /\ TypedThreads'
  BY <1>1, <1>5, <1>6, <1>10, TossedType DEF Core, Typed, TypedThreads
<1>12. Placed'
  BY <1>1, <1>6 DEF Core, Placed
<1>13. QED
  BY <1>1, <1>5, <1>8, <1>9, <1>11, <1>12 DEF Kept, d, worker

(* The rollback fails and the packet is finalised.                         *)
LEMMA RollbackFailsStep ==
  ASSUME Core, RollbackFails
  PROVE  /\ Kept /\ Situated' /\ Tosses(hand) /\ hand \in Packets /\ UNCHANGED << owed, bus, dev >>
         /\ PickUp(hand, TRUE)
<1> DEFINE p == hand
           d == pk[p].mac
           a == ReturnRequest(Answered(Untransit(mac[d])), p)
<1>1. /\ UNCHANGED << pk, sent, psq, deq_node_pos, wphase, owed, bus, dev >>
      /\ wpc = "refused" /\ hand' = NoPkt /\ mac' = [mac EXCEPT ![d] = a]
      /\ PickUp(p, TRUE) /\ Tossed(p)
  BY DEF RollbackFails, device
<1>2. AfterOwn(credits') \/ NextFifo
  BY DEF RollbackFails
<1>3. p \in Packets /\ InHand = {p} /\ p \in Transit
  BY <1>1 DEF Core, Placed, TypedThreads, Ids, InHand, Transit
<1>4. mac \in [Dests -> Entries] /\ d \in Dests /\ mac[d] \in Entries /\ wfifo \in Fifos
  BY <1>3 DEF Core, Typed, TypedThreads, Descs
<1>5. a \in Entries
  BY <1>4, EntryAnswers
<1> HIDE DEF a, d
<1>6. mac' \in [Dests -> Entries]
  BY <1>1, <1>4, <1>5
<1>7. wfifo' \in Fifos /\ wpc' \in {"idle", "own", "borrow"} /\ (wpc' = "borrow" => wfifo' \in ACs \ {0})
  BY <1>2, <1>4, OnwardType
<1>8. InHand' = {} /\ p \notin bus \cup dev
  BY <1>3, <1>7 DEF InHand, Core, Placed
<1>9. Transit' = Transit \ {p}
  BY <1>1, <1>3, <1>8 DEF Transit
<1>10. Tosses(p)
  BY <1>1, <1>3, <1>9 DEF Tosses
<1>11. Situated'
  BY <1>10, TossesSituated DEF Core
<1>12. credits' \in CreditStates
  BY <1>1, <1>3, PickUpType
<1>13. Typed' /\ TypedThreads'
  BY <1>1, <1>3, <1>6, <1>7, <1>12, TossedType DEF Core, Typed, TypedThreads, Ids
<1>14. Placed'
  BY <1>1, <1>7, <1>8 DEF Core, Placed
<1>15. QED
  BY <1>1, <1>3, <1>10, <1>11, <1>13, <1>14 DEF Kept

(* The packet the bus refused goes back to its queue.                      *)
LEMMA RollbackStep ==
  ASSUME Core, Rollback
  PROVE  /\ Kept /\ Situated' /\ Requeues(hand) /\ hand \in Packets /\ UNCHANGED << owed, bus, dev, pk >>
         /\ HasRoom(pk[hand].mac) /\ credits' = Return(credits, pk[hand].fifo)
         /\ psq'.stop = psq.stop
<1> DEFINE p == hand
           d == pk[p].mac
           a == ReturnRequest(Untransit(mac[d]), p)
<1>1. /\ UNCHANGED << pk, sent, hanger, deq_node_pos, wphase, owed, bus, dev, fin >>
      /\ wpc = "refused" /\ hand' = NoPkt /\ mac' = [mac EXCEPT ![d] = a]
      /\ psq' = PutBack(psq, p) /\ HasRoom(d) /\ credits' = Return(credits, pk[p].fifo)
  BY DEF Rollback, hang, device
<1>2. AfterOwn(credits') \/ NextFifo
  BY DEF Rollback
<1>3. p \in Packets /\ InHand = {p} /\ p \in Transit
  BY <1>1 DEF Core, Placed, TypedThreads, Ids, InHand, Transit
<1>4. /\ mac \in [Dests -> Entries] /\ d \in Dests /\ mac[d] \in Entries /\ wfifo \in Fifos
      /\ pk[p].fifo \in Fifos /\ psq \in Psqs /\ credits \in CreditStates
  BY <1>3 DEF Core, Typed, TypedThreads, Descs
<1>5. a \in Entries
  BY <1>4, EntryAnswers
<1> HIDE DEF a
<1>6. mac' \in [Dests -> Entries]
  BY <1>1, <1>4, <1>5
<1>7. wfifo' \in Fifos /\ wpc' \in {"idle", "own", "borrow"} /\ (wpc' = "borrow" => wfifo' \in ACs \ {0})
  BY <1>2, <1>4, OnwardType
<1>8. InHand' = {} /\ p \notin bus \cup dev
  BY <1>3, <1>7 DEF InHand, Core, Placed
<1>9. Transit' = Transit \ {p}
  BY <1>1, <1>3, <1>8 DEF Transit
<1>10. psq' \in Psqs /\ Joins(psq', psq, d, pk[p].fifo, p) /\ psq'.stop = psq.stop
  BY <1>1, <1>3, <1>4, PutBackEffect
<1>11. Requeues(p)
  BY <1>1, <1>3, <1>9, <1>10 DEF Requeues, SameNames
<1>12. Situated'
  BY <1>11, RequeuesSituated DEF Core
<1>13. credits' \in CreditStates
  BY <1>1, <1>4, ReturnType
<1>14. Typed' /\ TypedThreads'
  BY <1>1, <1>6, <1>7, <1>10, <1>13 DEF Core, Typed, TypedThreads, Ids
<1>15. Placed'
  BY <1>1, <1>7, <1>8 DEF Core, Placed
<1>16. QED
  BY <1>1, <1>3, <1>10, <1>11, <1>12, <1>14, <1>15 DEF Kept

(* A suppressed packet is queued again.                                    *)
LEMMA TxSuppressedStep ==
  ASSUME Core, NEW p \in Packets, TxSuppressed(p)
  PROVE  LET d == pk[p].mac
             f == pk[p].fifo
         IN  /\ Kept /\ Situated' /\ Requeues(p) /\ UNCHANGED << worker, owed, bus >>
             /\ Uncounted(d) /\ p \in dev /\ dev' = dev \ {p} /\ PickUp(p, FALSE) /\ HasRoom(d)
             /\ psq' = Enq(psq, p, d, f, TRUE)
             /\ pk'[p].supp = TRUE /\ pk'[p].req = pk[p].req /\ \A q \in Packets : q # p => pk'[q] = pk[q]
<1> DEFINE d == pk[p].mac
           f == pk[p].fifo
           a == ReturnRequest(Answered(mac[d]), p)
<1>1. /\ UNCHANGED << sent, hanger, deq_node_pos, wpc, wfifo, wphase, hand, owed, bus, fin >>
      /\ p \in dev /\ dev' = dev \ {p} /\ PickUp(p, FALSE) /\ HasRoom(d)
      /\ psq' = Enq(psq, p, d, f, TRUE) /\ pk' = [pk EXCEPT ![p].supp = TRUE]
      /\ mac' = [mac EXCEPT ![d] = Suppressed(a)]
  BY DEF TxSuppressed, worker
<1>2. /\ mac \in [Dests -> Entries] /\ d \in Dests /\ mac[d] \in Entries
      /\ f \in Fifos /\ psq \in Psqs /\ credits \in CreditStates /\ pk \in [Packets -> Descs]
  BY DEF Core, Typed, Descs
<1>3. Suppressed(a) \in Entries /\ Uncounts(Suppressed(a), mac[d])
  BY <1>2, EntryAnswers
<1> HIDE DEF a
<1>4. mac' \in [Dests -> Entries] /\ Uncounted(d)
  <2> HIDE DEF d
  <2>1. QED
    BY <1>1, <1>2, <1>3 DEF Uncounted
<1>5. p \in Transit /\ InHand' = InHand /\ p \notin InHand /\ p \notin bus
  BY <1>1 DEF Transit, InHand, Core, Placed
<1>6. Transit' = Transit \ {p}
  BY <1>1, <1>5 DEF Transit
<1>7. psq' \in Psqs /\ Joins(psq', psq, d, f, p)
  <2>1. TRUE \in BOOLEAN
    OBVIOUS
  <2>2. QED
    BY <1>1, <1>2, <2>1, EnqEffect
<1>8. /\ pk'[p] = [pk[p] EXCEPT !.supp = TRUE] /\ \A q \in Packets : q # p => pk'[q] = pk[q]
      /\ pk' \in [Packets -> Descs]
  BY <1>1, <1>2 DEF Descs
<1>9. /\ pk'[p].supp = TRUE /\ pk'[p].req = pk[p].req
      /\ pk'[p].mac = pk[p].mac /\ pk'[p].fifo = pk[p].fifo /\ pk'[p].slot = pk[p].slot
  <2>1. pk[p] \in Descs
    BY <1>2
  <2>2. QED
    BY <1>8, <2>1 DEF Descs
<1>10. SameNames
  BY <1>8, <1>9 DEF SameNames
<1>11. Requeues(p)
  BY <1>1, <1>5, <1>6, <1>7, <1>10 DEF Requeues
<1>12. Situated'
  BY <1>11, RequeuesSituated DEF Core
<1>13. credits' \in CreditStates
  BY <1>1, PickUpType
<1>14. Typed' /\ TypedThreads'
  BY <1>1, <1>4, <1>7, <1>8, <1>13 DEF Core, Typed, TypedThreads
<1>15. Placed'
  BY <1>1, <1>5 DEF Core, Placed
<1>16. QED
  BY <1>1, <1>4, <1>8, <1>9, <1>11, <1>12, <1>14, <1>15 DEF Kept, worker

(* The stack hands over a packet.                                          *)
LEMMA AcceptStep ==
  ASSUME Core, NEW d \in Dests, NEW f \in Fifos, ProcessSkb(d, f)
  PROVE  Kept /\ Situated' /\ UNCHANGED << mac, credits, worker, bus, dev, owed >>
<1>1. UNCHANGED << mac, credits, deq_node_pos, wpc, wfifo, wphase, hand, bus, dev, owed >>
  BY DEF ProcessSkb, worker, device
<1>2. /\ Situated' /\ Transit' = Transit /\ fin' = fin /\ pk' \in [Packets -> Descs] /\ psq' \in Psqs
      /\ sent' \in 0 .. NPackets /\ hanger' \in [Slots -> Ids]
  BY AcceptSituated DEF Core
<1>3. Typed' /\ TypedThreads'
  BY <1>1, <1>2 DEF Core, Typed, TypedThreads
<1>4. Placed'
  BY <1>1 DEF Core, Placed, InHand
<1>5. QED
  BY <1>1, <1>2, <1>3, <1>4 DEF Kept, worker

(* The device deletes a node.                                              *)
LEMMA FlushStep ==
  ASSUME Core, NEW d \in Dests, MacdescDel(d)
  PROVE  /\ Kept /\ Situated' /\ UNCHANGED << credits, worker, bus, dev, owed >>
         /\ Deletes /\ psq' = Flushed(psq, d) /\ \A e \in Dests : SameCounts(mac'[e], mac[e])
<1> DEFINE m == [mac[d] EXCEPT !.occupied = FALSE, !.closed = TRUE, !.credit = 0, !.packet = 0]
<1>1. /\ UNCHANGED << credits, deq_node_pos, wpc, wfifo, wphase, hand, bus, dev, owed >>
      /\ Deletes /\ psq' = Flushed(psq, d)
      /\ mac' = [mac EXCEPT ![d].occupied = FALSE, ![d].closed = TRUE, ![d].credit = 0, ![d].packet = 0]
  BY DEF MacdescDel, worker
<1>2. /\ Situated' /\ Transit' = Transit /\ UNCHANGED << pk, sent >>
      /\ fin' \in [Packets -> Nat] /\ hanger' \in [Slots -> Ids] /\ psq' \in Psqs
  BY FlushSituated DEF Core
<1>3. mac \in [Dests -> Entries] /\ mac[d] \in Entries
  BY DEF Core, Typed
<1>4. mac' = [mac EXCEPT ![d] = m]
  BY <1>1, <1>3
<1>5. m \in Entries /\ SameCounts(m, mac[d])
  BY <1>3 DEF Entries, SameCounts
<1> HIDE DEF m
<1>6. mac' \in [Dests -> Entries] /\ \A e \in Dests : SameCounts(mac'[e], mac[e])
  BY <1>3, <1>4, <1>5 DEF SameCounts
<1>7. Typed' /\ TypedThreads'
  BY <1>1, <1>2, <1>6 DEF Core, Typed, TypedThreads
<1>8. Placed'
  BY <1>1 DEF Core, Placed, InHand
<1>9. QED
  BY <1>1, <1>2, <1>6, <1>7, <1>8 DEF Kept, worker

(***************************************************************************)
(* The core of the invariant.                                              *)
(***************************************************************************)

(* What a property must hold across: each kind of step in turn.            *)
LEMMA CoreStep ==
  ASSUME Core, [Next]_vars
  PROVE  Core'
<1>1. CASE StackStep
  <2>1. CASE SkbSchedule
    BY <2>1, SchedulingSteps, SteadySituated DEF Kept, Core
  <2>2. ASSUME NEW t \in Traffic, ProcessSkb(t[1], t[2]) PROVE Core'
    <3>1. t[1] \in Dests /\ t[2] \in Fifos
      BY TrafficAssumption
    <3>2. QED
      BY <2>2, <3>1, AcceptStep DEF Kept, Core
  <2>3. QED
    BY <1>1, <2>1, <2>2 DEF StackStep
<1>2. CASE WorkerStep
  <2>1. CASE StartWorker
    BY <2>1, StartWorkerStep, SteadySituated DEF Kept, Core
  <2>2. CASE SendOwn
    BY <2>2, SendOwnStep DEF Kept, Core
  <2>3. CASE OwnDone
    BY <2>3, OwnDoneStep, SteadySituated DEF Kept, Core
  <2>4. CASE SendBorrowed
    BY <2>4, SendBorrowedStep DEF Kept, Core
  <2>5. CASE BorrowDone
    BY <2>5, BorrowDoneStep, SteadySituated DEF Kept, Core
  <2>6. CASE TxData
    BY <2>6, TxDataStep, SteadySituated DEF Kept, Core
  <2>7. CASE TxRefused
    BY <2>7, TxRefusedStep, SteadySituated DEF Kept, Core
  <2>8. CASE Relock
    BY <2>8, RelockStep, SteadySituated DEF Kept, Core
  <2>9. CASE Rollback
    BY <2>9, RollbackStep DEF Kept, Core
  <2>10. CASE RollbackFails
    BY <2>10, RollbackFailsStep DEF Kept, Core
  <2>11. QED
    BY <1>2, <2>1, <2>2, <2>3, <2>4, <2>5, <2>6, <2>7, <2>8, <2>9, <2>10 DEF WorkerStep
<1>3. CASE SignalStep
  <2>1. ASSUME NEW p \in Packets, TxStatus(p) \/ TxSuppressed(p) \/ TxSuppressedFull(p) PROVE Core'
    BY <2>1, AnswersStep, TxSuppressedStep DEF Kept, Core
  <2>2. ASSUME NEW d \in Dests, MacClose(d) \/ MacOpen(d) \/ MacRequest(d) \/ MacdescAdd(d) PROVE Core'
    BY <2>2, EntrySteps, SteadySituated DEF Kept, Core
  <2>3. ASSUME NEW d \in Dests, MacdescDel(d) PROVE Core'
    BY <2>3, FlushStep DEF Kept, Core
  <2>4. ASSUME NEW f \in Fifos, CreditBack(f) PROVE Core'
    BY <2>4, CreditBackStep, SteadySituated DEF Kept, Core
  <2>5. CASE MarkSuppressed \/ RxSchedule
    BY <2>5, SchedulingSteps, SteadySituated DEF Kept, Core
  <2>6. QED
    BY <1>3, <2>1, <2>2, <2>3, <2>4, <2>5 DEF SignalStep
<1>4. CASE BusStep
  <2>1. CASE BusUnblocked
    BY <2>1, SchedulingSteps, SteadySituated DEF Kept, Core
  <2>2. ASSUME NEW p \in Packets, BusDone(p) PROVE Core'
    BY <2>2, BusDoneStep, SteadySituated DEF Kept, Core
  <2>3. ASSUME NEW p \in Packets, BusFailed(p) PROVE Core'
    BY <2>3, AnswersStep DEF Kept, Core
  <2>4. QED
    BY <1>4, <2>1, <2>2, <2>3 DEF BusStep
<1>5. CASE UNCHANGED vars
  BY <1>5, IdleStep, SteadySituated DEF Kept, Core
<1>6. QED
  BY <1>1, <1>2, <1>3, <1>4, <1>5 DEF Next

THEOREM CoreAlways == Spec => []Core
<1>1. Init => Core
  BY InitCore
<1>2. Core /\ [Next]_vars => Core'
  BY CoreStep
<1>3. QED
  BY <1>1, <1>2, PTL DEF Spec

(***************************************************************************)
(* The network queue is stopped for a reason.                              *)
(***************************************************************************)

LEMMA RecheckedReason ==
  ASSUME Core, psq' \in Psqs, NEW d \in Dests, Rechecked(psq', psq, d)
  PROVE  StopHasAReason'
<1>1. psq.stop \in BOOLEAN /\ PsqCount(psq', d) \in Nat
  BY AtType DEF Core, Typed, Psqs
<1>2. psq'.stop => PsqCount(psq', d) > Low
  BY <1>1, FlowCheckType DEF Rechecked
<1>3. QED
  BY <1>2 DEF StopHasAReason

(* Nothing leaves the queues, or a queue is emptied.                       *)
LEMMA GrownReason ==
  ASSUME Core, StopHasAReason, psq' \in Psqs, psq'.stop = psq.stop,
         \A e \in Dests, g \in Fifos : At(psq, e, g) \subseteq At(psq', e, g)
  PROVE  StopHasAReason'
<1>1. SUFFICES ASSUME psq.stop PROVE \E d \in Dests : PsqCount(psq', d) > Low
  BY DEF StopHasAReason
<1>2. PICK d \in Dests : PsqCount(psq, d) > Low
  BY <1>1 DEF StopHasAReason
<1>3. psq \in Psqs
  BY DEF Core, Typed
<1>4. QueuedFor(psq, d) \subseteq QueuedFor(psq', d) /\ IsFiniteSet(QueuedFor(psq', d))
  BY <1>3, AtType
<1>5. PsqCount(psq, d) <= PsqCount(psq', d)
  BY <1>4, FS_Subset DEF PsqCount
<1>6. PsqCount(psq, d) \in Nat /\ PsqCount(psq', d) \in Nat /\ Low \in Nat
  BY <1>3, AtType, WaterAssumption
<1>7. QED
  BY <1>2, <1>5, <1>6

LEMMA FlushedReason ==
  ASSUME Core, StopHasAReason, NEW d \in Dests, MacdescDel(d)
  PROVE  StopHasAReason'
<1>1. psq \in Psqs
  BY DEF Core, Typed
<1>2. /\ psq' \in Psqs /\ psq'.stop = (IF QueuedFor(psq, d) = {} THEN psq.stop ELSE FALSE)
      /\ \A e \in Dests, g \in Fifos : At(psq', e, g) = IF e = d THEN {} ELSE At(psq, e, g)
  <2>1. psq' = Flushed(psq, d)
    BY DEF MacdescDel
  <2>2. psq' \in Psqs /\ psq'.stop = (IF QueuedFor(psq, d) = {} THEN psq.stop ELSE FALSE)
    BY <1>1, <2>1, FlushedEffect
  <2>3. QED
    BY <2>2, FlushSituated DEF Core
<1>3. ASSUME QueuedFor(psq, d) = {}, NEW e \in Dests, NEW g \in Fifos PROVE At(psq, e, g) \subseteq At(psq', e, g)
  <2>1. QueuedFor(psq, d) = UNION {At(psq, d, f) : f \in Fifos}
    BY <1>1, AtType
  <2>2. QED
    BY <1>2, <1>3, <2>1
<1>4. CASE QueuedFor(psq, d) = {}
  BY <1>2, <1>3, <1>4, GrownReason
<1>5. CASE QueuedFor(psq, d) # {}
  BY <1>2, <1>5 DEF StopHasAReason
<1>6. QED
  BY <1>4, <1>5

LEMMA ReasonStep ==
  ASSUME Core, StopHasAReason, [Next]_vars
  PROVE  StopHasAReason'
<1>0. Core' /\ psq \in Psqs /\ psq' \in Psqs
  BY CoreStep DEF Core, Typed
<1>1. ASSUME Steady PROVE StopHasAReason'
  BY <1>1 DEF Steady, StopHasAReason
<1>2. ASSUME NEW d \in Dests, Sends(d) PROVE StopHasAReason'
  <2>1. wfifo \in Fifos /\ (psq.suppressed[d][wfifo] # << >> \/ psq.delayed[d][wfifo] # << >>)
    BY <1>2 DEF Sends, Yields, Core, TypedThreads
  <2>2. Rechecked(psq', psq, d)
    <3>1. psq' = Deq(psq, d, wfifo)
      BY <1>2 DEF Sends
    <3>2. Rechecked(Deq(psq, d, wfifo), psq, d)
      BY <1>0, <2>1, DeqEffect
    <3>3. QED
      BY <3>1, <3>2
  <2>3. QED
    BY <1>0, <2>2, RecheckedReason
<1>3. CASE StackStep
  <2>1. CASE SkbSchedule
    BY <1>1, <2>1, SchedulingSteps
  <2>2. ASSUME NEW t \in Traffic, ProcessSkb(t[1], t[2]) PROVE StopHasAReason'
    <3> DEFINE d == t[1]
    <3>1. d \in Dests /\ t[2] \in Fifos /\ sent + 1 \in Packets
      BY <2>2, TrafficAssumption, AcceptSituated DEF Core
    <3>2. CASE HasRoom(d)
      <4>1. psq' = Enq(psq, sent + 1, d, t[2], FALSE) /\ FALSE \in BOOLEAN
        BY <2>2, <3>2 DEF ProcessSkb
      <4> DEFINE r == Enq(psq, sent + 1, d, t[2], FALSE)
      <4>2. Rechecked(r, psq, d)
        BY <1>0, <3>1, EnqEffect
      <4>3. Rechecked(psq', psq, d)
        BY <4>1, <4>2
      <4>4. QED
        BY <1>0, <3>1, <4>3, RecheckedReason
    <3>3. CASE ~HasRoom(d)
      BY <2>2, <3>3 DEF ProcessSkb, StopHasAReason
    <3>4. QED
      BY <3>2, <3>3
  <2>3. QED
    BY <1>3, <2>1, <2>2 DEF StackStep
<1>4. CASE WorkerStep
  <2>1. CASE SendOwn \/ SendBorrowed
    BY <1>2, <2>1, SendOwnStep, SendBorrowedStep
  <2>2. CASE StartWorker \/ OwnDone \/ BorrowDone \/ TxData \/ TxRefused \/ Relock
    BY <1>1, <2>2, StartWorkerStep, OwnDoneStep, BorrowDoneStep, TxDataStep, TxRefusedStep, RelockStep
  <2>3. CASE Rollback
    <3>1. Requeues(hand) /\ psq'.stop = psq.stop
      BY <2>3, RollbackStep
    <3>2. \A e \in Dests, g \in Fifos : At(psq, e, g) \subseteq At(psq', e, g)
      BY <3>1, RequeuesSituated DEF Core
    <3>3. QED
      BY <1>0, <3>1, <3>2, GrownReason
  <2>4. CASE RollbackFails
    BY <2>4 DEF RollbackFails, StopHasAReason
  <2>5. QED
    BY <1>4, <2>1, <2>2, <2>3, <2>4 DEF WorkerStep
<1>5. CASE SignalStep
  <2>1. ASSUME NEW p \in Packets, TxStatus(p) \/ TxSuppressedFull(p) PROVE StopHasAReason'
    BY <2>1 DEF TxStatus, TxSuppressedFull, StopHasAReason
  <2>2. ASSUME NEW p \in Packets, TxSuppressed(p) PROVE StopHasAReason'
    <3>1. psq' = Enq(psq, p, pk[p].mac, pk[p].fifo, TRUE) /\ pk[p].mac \in Dests /\ pk[p].fifo \in Fifos
      BY <2>2 DEF TxSuppressed, Core, Typed, Descs
    <3> DEFINE r == Enq(psq, p, pk[p].mac, pk[p].fifo, TRUE)
    <3>2. Rechecked(r, psq, pk[p].mac)
      BY <1>0, <3>1, EnqEffect
    <3>3. Rechecked(psq', psq, pk[p].mac)
      BY <3>1, <3>2
    <3>4. QED
      BY <1>0, <3>1, <3>3, RecheckedReason
  <2>3. ASSUME NEW d \in Dests, MacClose(d) \/ MacOpen(d) \/ MacRequest(d) \/ MacdescAdd(d) PROVE StopHasAReason'
    BY <1>1, <2>3, EntrySteps
  <2>4. ASSUME NEW d \in Dests, MacdescDel(d) PROVE StopHasAReason'
    BY <2>4, FlushedReason
  <2>5. ASSUME NEW f \in Fifos, CreditBack(f) PROVE StopHasAReason'
    BY <1>1, <2>5, CreditBackStep
  <2>6. CASE MarkSuppressed \/ RxSchedule
    BY <1>1, <2>6, SchedulingSteps
  <2>7. QED
    BY <1>5, <2>1, <2>2, <2>3, <2>4, <2>5, <2>6 DEF SignalStep
<1>6. CASE BusStep
  <2>1. ASSUME NEW p \in Packets, BusFailed(p) PROVE StopHasAReason'
    BY <2>1 DEF BusFailed, StopHasAReason
  <2>2. QED
    BY <1>1, <1>6, <2>1, BusDoneStep, SchedulingSteps DEF BusStep
<1>7. CASE UNCHANGED vars
  BY <1>1, <1>7, IdleStep
<1>8. QED
  BY <1>3, <1>4, <1>5, <1>6, <1>7 DEF Next

(* The network queue is stopped only while some power save queue is above  *)
(* the low water mark: whatever leaves a queue, and a flush too, checks it *)
(* again.                                                                  *)
THEOREM StopReasoned == Spec => []StopHasAReason
<1>1. Init => StopHasAReason
  BY DEF Init, StopHasAReason
<1>2. Core /\ StopHasAReason /\ [Next]_vars => StopHasAReason'
  BY ReasonStep
<1>3. QED
  BY <1>1, <1>2, CoreAlways, PTL DEF Spec

(***************************************************************************)
(* No credit is lost or made up.                                           *)
(***************************************************************************)

(* The packets on their way that hold a credit of FIFO f, and what all     *)
(* FIFOs' packets hold.                                                    *)
Holds(p, f) == pk[p].fifo = f /\ (~Explicit \/ pk[p].req \/ p \notin dev)
Holding(f) == {p \in Transit : Holds(p, f)}
AllHeld == [f \in Fifos |-> Held(f)]
Funded == Balanced(credits, AllHeld)

LEMMA HeldType ==
  ASSUME Core, NEW f \in Fifos
  PROVE  /\ IsFiniteSet(Holding(f)) /\ Cardinality(Holding(f)) \in Nat
         /\ Held(f) = Cardinality(Holding(f)) + owed[f] /\ owed[f] \in Nat /\ Held(f) \in Nat
<1>1. IsFiniteSet(Holding(f))
  BY TransitType, FS_Subset DEF Core, Holding
<1>2. Held(f) = Cardinality(Holding(f)) + owed[f] /\ owed[f] \in Nat
  BY DEF Held, Holding, Holds, Core, Typed
<1>3. Cardinality(Holding(f)) \in Nat
  BY <1>1, FS_CardinalityType
<1>4. QED
  BY <1>1, <1>2, <1>3

(* Nothing changes; or packet p begins, or ceases, to hold a credit of f.  *)
HoldsStill == \A g \in Fifos : Holding(g)' = Holding(g)
HoldsMore(p, f) ==
  /\ f \in Fifos /\ p \notin Holding(f)
  /\ \A g \in Fifos : Holding(g)' = IF g = f THEN Holding(g) \cup {p} ELSE Holding(g)
HoldsLess(p, f) ==
  /\ f \in Fifos /\ p \in Holding(f)
  /\ \A g \in Fifos : Holding(g)' = IF g = f THEN Holding(g) \ {p} ELSE Holding(g)

LEMMA HeldSame ==
  ASSUME HoldsStill, owed' = owed
  PROVE  AllHeld' = AllHeld
<1>1. \A g \in Fifos : Held(g)' = Held(g)
  <2>1. \A g \in Fifos : Held(g) = Cardinality(Holding(g)) + owed[g]
    BY DEF Held, Holding, Holds
  <2>2. \A g \in Fifos : Held(g)' = Cardinality(Holding(g)') + owed'[g]
    BY DEF Held, Holding, Holds
  <2>3. QED
    BY <2>1, <2>2 DEF HoldsStill
<1>2. QED
  BY <1>1 DEF AllHeld

LEMMA HeldMore ==
  ASSUME Core, NEW p, NEW f, HoldsMore(p, f), owed' = owed
  PROVE  AllHeld' = Plus(AllHeld, f, 1)
<1>1. ASSUME NEW g \in Fifos PROVE Held(g)' = IF g = f THEN Held(g) + 1 ELSE Held(g)
  <2>1. /\ IsFiniteSet(Holding(g)) /\ Cardinality(Holding(g)) \in Nat
        /\ Held(g) = Cardinality(Holding(g)) + owed[g] /\ owed[g] \in Nat
    BY HeldType
  <2>2. Held(g)' = Cardinality(Holding(g)') + owed'[g]
    BY DEF Held, Holding, Holds
  <2>3. CASE g = f
    <3>1. Holding(g)' = Holding(g) \cup {p} /\ p \notin Holding(g)
      BY <2>3 DEF HoldsMore
    <3>2. Cardinality(Holding(g)') = Cardinality(Holding(g)) + 1
      BY <2>1, <3>1, FS_AddElement
    <3>3. QED
      BY <2>1, <2>2, <2>3, <3>2
  <2>4. CASE g # f
    BY <2>1, <2>2, <2>4 DEF HoldsMore
  <2>5. QED
    BY <2>3, <2>4
<1>2. QED
  BY <1>1 DEF AllHeld, Plus

LEMMA HeldLess ==
  ASSUME Core, NEW p, NEW f, HoldsLess(p, f), owed' = owed
  PROVE  AllHeld' = Plus(AllHeld, f, -1) /\ Held(f) > 0
<1>1. f \in Fifos
  BY DEF HoldsLess
<1>2. ASSUME NEW g \in Fifos
      PROVE  /\ Held(g)' = IF g = f THEN Held(g) - 1 ELSE Held(g)
             /\ g = f => Held(g) > 0
  <2>1. /\ IsFiniteSet(Holding(g)) /\ Cardinality(Holding(g)) \in Nat
        /\ Held(g) = Cardinality(Holding(g)) + owed[g] /\ owed[g] \in Nat
    BY HeldType
  <2>2. Held(g)' = Cardinality(Holding(g)') + owed'[g]
    BY DEF Held, Holding, Holds
  <2>3. CASE g = f
    <3>1. Holding(g)' = Holding(g) \ {p} /\ p \in Holding(g)
      BY <2>3 DEF HoldsLess
    <3>2. Cardinality(Holding(g)') = Cardinality(Holding(g)) - 1
      BY <2>1, <3>1, FS_RemoveElement
    <3>3. Cardinality(Holding(g)) # 0
      BY <2>1, <3>1, FS_EmptySet
    <3>4. QED
      BY <2>1, <2>2, <2>3, <3>2, <3>3
  <2>4. CASE g # f
    BY <2>1, <2>2, <2>4 DEF HoldsLess
  <2>5. QED
    BY <2>3, <2>4
<1>3. \A g \in Fifos : Held(g)' = IF g = f THEN Held(g) + -1 ELSE Held(g)
  BY <1>2, HeldType
<1>4. QED
  BY <1>1, <1>2, <1>3 DEF AllHeld, Plus

(* A packet in transit was transmitted: the device owes its credit, unless *)
(* it is to return it with its answer.                                     *)
LEMMA HeldOwed ==
  ASSUME Core, NEW p \in Packets, BusDone(p)
  PROVE  AllHeld' = AllHeld
<1>0. PICK f \in Fifos : f = pk[p].fifo
  BY DEF Core, Typed, Descs
<1>1. Steady /\ p \in bus /\ dev' = dev \cup {p} /\ p \in Transit /\ p \notin dev
  BY BusDoneStep DEF BusDone, Transit, Core, Placed
<1>2. owed' = IF Explicit /\ ~pk[p].req THEN [owed EXCEPT ![f] = @ + 1] ELSE owed
  BY <1>0 DEF BusDone
<1>3. f \in Fifos /\ owed \in [Fifos -> Nat]
  BY DEF Core, Typed, Descs
<1>4. CASE Explicit /\ ~pk[p].req
  <2>1. \A q : Holds(q, f)' <=> Holds(q, f) /\ q # p
    BY <1>1, <1>4 DEF Holds, Steady
  <2>2. p \in Holding(f) /\ Holding(f)' = Holding(f) \ {p}
    BY <1>0, <1>1, <2>1 DEF Holding, Holds, Steady
  <2>3. \A g \in Fifos : g # f => Holding(g)' = Holding(g)
    BY <1>0, <1>1 DEF Holding, Holds, Steady
  <2>4. ASSUME NEW g \in Fifos PROVE Held(g)' = Held(g)
    <3>1. /\ IsFiniteSet(Holding(g)) /\ Cardinality(Holding(g)) \in Nat
          /\ Held(g) = Cardinality(Holding(g)) + owed[g] /\ owed[g] \in Nat
      BY HeldType
    <3>2. Held(g)' = Cardinality(Holding(g)') + owed'[g]
      BY DEF Held, Holding, Holds
    <3>3. CASE g = f
      <4>1. Cardinality(Holding(g)') = Cardinality(Holding(g)) - 1
        <5>1. Holding(g)' = Holding(g) \ {p} /\ p \in Holding(g)
          BY <2>2, <3>3
        <5>2. QED
          BY <3>1, <5>1, FS_RemoveElement
      <4>2. owed'[g] = owed[g] + 1
        BY <1>2, <1>3, <1>4, <3>3
      <4>3. QED
        BY <3>1, <3>2, <4>1, <4>2
    <3>4. CASE g # f
      BY <1>2, <1>3, <1>4, <2>3, <3>1, <3>2, <3>4
    <3>5. QED
      BY <3>3, <3>4
  <2>5. QED
    BY <2>4 DEF AllHeld
<1>5. CASE ~(Explicit /\ ~pk[p].req)
  <2>1. HoldsStill
    BY <1>1, <1>5 DEF HoldsStill, Holding, Holds, Steady
  <2>2. owed' = owed
    BY <1>2, <1>5
  <2>3. QED
    BY <2>1, <2>2, HeldSame
<1>6. QED
  BY <1>4, <1>5

(* A packet leaves the way, and its credit is picked up if it held one.    *)
LEMMA PickedUpFunded ==
  ASSUME Core, Funded, NEW p \in Transit, owed' = owed, Transit' = Transit \ {p}, dev' = dev \ {p},
         IF Holds(p, pk[p].fifo) THEN credits' = Return(credits, pk[p].fifo) ELSE credits' = credits,
         \A q \in Packets : pk'[q].fifo = pk[q].fifo /\ pk'[q].req = pk[q].req
  PROVE  Funded'
<1> DEFINE f == pk[p].fifo
<1>1. p \in Packets /\ f \in Fifos /\ Transit \subseteq Packets
  BY TransitType DEF Core, Typed, Descs
<1>2. \A q \in Transit, g \in Fifos : q # p => (Holds(q, g)' <=> Holds(q, g))
  BY <1>1 DEF Holds
<1>3. \A g \in Fifos : Holding(g)' = Holding(g) \ {p}
  BY <1>2 DEF Holding
<1>4. \A g \in Fifos : g # f => p \notin Holding(g)
  BY DEF Holding, Holds
<1>5. CASE Holds(p, f)
  <2>1. HoldsLess(p, f)
    BY <1>1, <1>3, <1>4, <1>5 DEF HoldsLess, Holding
  <2>2. AllHeld' = Plus(AllHeld, f, -1) /\ Held(f) > 0
    BY <2>1, HeldLess
  <2>3. AllHeld[f] > 0
    BY <1>1, <2>2 DEF AllHeld
  <2>4. credits' = Return(credits, f)
    BY <1>5
  <2>5. Balanced(Return(credits, f), Plus(AllHeld, f, -1))
    BY <1>1, <2>3, ReturnBalanced DEF Funded
  <2>6. QED
    BY <2>2, <2>4, <2>5 DEF Funded
<1>6. CASE ~Holds(p, f)
  <2>1. HoldsStill
    BY <1>1, <1>3, <1>4, <1>6 DEF HoldsStill, Holding
  <2>2. AllHeld' = AllHeld
    BY <2>1, HeldSame
  <2>3. credits' = credits
    BY <1>6
  <2>4. QED
    BY <2>2, <2>3 DEF Funded
<1>7. QED
  BY <1>5, <1>6

(* The worker sends on a credit of its own, or on a borrowed one.          *)
LEMMA SentFunded ==
  ASSUME Core, Funded, SendOwn \/ SendBorrowed
  PROVE  Funded'
<1> DEFINE f == wfifo
<1>1. PICK d \in Dests : Sends(d)
  BY SendOwnStep, SendBorrowedStep
<1>0. PICK p \in Packets : p = hand'
  BY <1>1 DEF Sends
<1>2. /\ Takes(p, d, f) /\ p \in Packets /\ owed' = owed /\ dev' = dev
      /\ \A q \in Packets : q # p => pk'[q] = pk[q]
  BY <1>0, <1>1 DEF Sends
<1>3. p \notin Transit /\ pk[p].fifo = f /\ f \in Fifos /\ Transit \subseteq Packets
  <2>1. p \notin Transit /\ pk[p].fifo = f
    BY <1>2, TakesSituated DEF Core
  <2>2. QED
    BY <2>1, TransitType DEF Core, TypedThreads
<1>4. Transit' = Transit \cup {p} /\ pk'[p].fifo = f /\ p \notin dev
  BY <1>2, <1>3 DEF Takes, SameNames, Transit
<1> HIDE DEF f
<1>5. HoldsMore(p, f)
  <2>1. \A q \in Transit, g \in Fifos : Holds(q, g)' <=> Holds(q, g)
    BY <1>2, <1>3 DEF Holds
  <2>2. \A g \in Fifos : Holds(p, g)' <=> g = f
    BY <1>2, <1>4 DEF Holds
  <2>3. QED
    BY <1>3, <1>4, <2>1, <2>2 DEF HoldsMore, Holding
<1>6. AllHeld' = Plus(AllHeld, f, 1)
  BY <1>2, <1>5, HeldMore
<1>7. CASE SendOwn
  <2>1. /\ credits \in CreditStates /\ credits' \in CreditStates /\ credits.fifo[f] # 0
        /\ Spends(credits', credits, f, 1)
    BY <1>7, SendOwnStep DEF Spends, f
  <2>2. credits.fifo[f] >= 0 /\ credits.fifo[f] \in Int /\ credits.fifo \in [Fifos -> Int]
    BY <1>3, <2>1 DEF Funded, Balanced, CreditStates
  <2>3. credits'.fifo[f] >= 0
    BY <1>3, <2>1, <2>2 DEF Spends
  <2>4. LoansIn(credits, f) <= AllHeld[f] + 1
    <3>1. LoansIn(credits, f) <= AllHeld[f] /\ AllHeld[f] \in Int
      BY <1>3 DEF Funded, Balanced
    <3>2. LoansIn(credits, f) \in Nat
      BY <1>3, <2>1, LoansType
    <3>3. QED
      BY <3>1, <3>2
  <2>5. Balanced(credits', Plus(AllHeld, f, 1))
    BY <1>3, <2>1, <2>3, <2>4, OwnBalanced DEF Funded
  <2>6. QED
    BY <1>6, <2>5 DEF Funded
<1>8. CASE SendBorrowed
  <2>1. f \in ACs \ {0} /\ Solvent(f) # {} /\ credits' = Borrow(f)
    BY <1>8, SendBorrowedStep DEF f
  <2>2. Balanced(Borrow(f), Plus(AllHeld, f, 1))
    BY <2>1, BorrowBalanced DEF Funded
  <2>3. QED
    BY <1>6, <2>1, <2>2 DEF Funded
<1>9. QED
  BY <1>7, <1>8

(* It finds nothing to send on a borrowed credit, and returns it.          *)
LEMMA UnsentFunded ==
  ASSUME Core, Funded, BorrowDone
  PROVE  Funded'
<1> DEFINE f == wfifo
<1>1. Steady /\ owed' = owed /\ dev' = dev /\ credits' \in CreditStates
  BY BorrowDoneStep DEF Kept, Typed
<1>2. AllHeld' = AllHeld
  <2>1. HoldsStill
    BY <1>1 DEF HoldsStill, Holding, Holds, Steady
  <2>2. QED
    BY <1>1, <2>1, HeldSame
<1>3. f \in ACs \ {0} /\ f \in Fifos /\ AllHeld \in [Fifos -> Int] /\ credits \in CreditStates
  <2>1. wpc = "borrow"
    BY DEF BorrowDone
  <2>2. QED
    BY <2>1 DEF Core, Placed, TypedThreads, Funded, Balanced
<1>4. CASE credits' = [credits EXCEPT !.map = @ \ {f}]
  <2>1. credits'.fifo = credits.fifo /\ credits'.borrowed = credits.borrowed
    BY <1>3, <1>4 DEF CreditStates
  <2>2. \A g \in Fifos : LentIn(credits', g) = LentIn(credits, g) /\ LoansIn(credits', g) = LoansIn(credits, g)
    BY <2>1 DEF LentIn, LoansIn
  <2>3. QED
    BY <1>1, <1>2, <2>1, <2>2 DEF Funded, Balanced
<1>5. CASE Solvent(f) # {} /\ credits' = Return(Borrow(f), f)
  <2>1. Balanced(Borrow(f), Plus(AllHeld, f, 1))
    BY <1>3, <1>5, BorrowBalanced DEF Funded
  <2>2. Plus(AllHeld, f, 1)[f] > 0
    <3>1. AllHeld[f] >= 0
      BY <1>3, HeldType DEF AllHeld
    <3>2. Plus(AllHeld, f, 1)[f] = AllHeld[f] + 1 /\ AllHeld[f] \in Int
      BY <1>3 DEF Plus
    <3>3. QED
      BY <3>1, <3>2
  <2>3. Balanced(Return(Borrow(f), f), Plus(Plus(AllHeld, f, 1), f, -1))
    BY <1>3, <2>1, <2>2, ReturnBalanced
  <2>4. Plus(Plus(AllHeld, f, 1), f, -1) = AllHeld
    <3>1. ASSUME NEW h \in [Fifos -> Int] PROVE Plus(Plus(h, f, 1), f, -1) = h
      <4>1. Plus(h, f, 1) \in [Fifos -> Int] /\ \A g \in Fifos : Plus(h, f, 1)[g] = IF g = f THEN h[g] + 1 ELSE h[g]
        BY <1>3 DEF Plus
      <4>2. ASSUME NEW k \in [Fifos -> Int], \A g \in Fifos : k[g] = IF g = f THEN h[g] + 1 ELSE h[g]
            PROVE  Plus(k, f, -1) = h
        BY <1>3, <4>2 DEF Plus
      <4>3. QED
        BY <4>1, <4>2
    <3>2. QED
      BY <1>3, <3>1
  <2>5. QED
    BY <1>2, <1>5, <2>3, <2>4 DEF Funded
<1>6. QED
  BY <1>4, <1>5 DEF BorrowDone

(* The device gives back credits it owes.                                  *)
LEMMA BackFunded ==
  ASSUME Core, Funded, NEW f \in Fifos, CreditBack(f)
  PROVE  Funded'
<1>1. Steady /\ dev' = dev
  BY CreditBackStep
<1>2. PICK n \in Nat : /\ n <= owed[f] /\ owed' = [owed EXCEPT ![f] = @ - n]
                       /\ credits' = ReturnMany(credits, f, n)
  BY CreditBackStep
<1>3. HoldsStill
  BY <1>1 DEF HoldsStill, Holding, Holds, Steady
<1>4. ASSUME NEW g \in Fifos
      PROVE  Held(g)' = (IF g = f THEN Held(g) + -n ELSE Held(g)) /\ n <= Held(f)
  <2>1. /\ Cardinality(Holding(g)) \in Nat /\ Held(g) = Cardinality(Holding(g)) + owed[g] /\ owed[g] \in Nat
        /\ Cardinality(Holding(f)) \in Nat /\ Held(f) = Cardinality(Holding(f)) + owed[f] /\ owed[f] \in Nat
    BY HeldType
  <2>2. Held(g)' = Cardinality(Holding(g)') + owed'[g] /\ Holding(g)' = Holding(g)
    BY <1>3 DEF Held, Holding, Holds, HoldsStill
  <2>3. owed'[g] = IF g = f THEN owed[g] - n ELSE owed[g]
    BY <1>2 DEF Core, Typed
  <2>4. QED
    BY <1>2, <2>1, <2>2, <2>3
<1>5. AllHeld' = Plus(AllHeld, f, -n) /\ n <= AllHeld[f]
  BY <1>4 DEF AllHeld, Plus
<1>6. Balanced(ReturnMany(credits, f, n), Plus(AllHeld, f, -n))
  BY <1>2, <1>5, ReturnManyBalanced DEF Funded
<1>7. QED
  BY <1>2, <1>5, <1>6 DEF Funded

LEMMA FundedStep ==
  ASSUME Core, Funded, [Next]_vars
  PROVE  Funded'
<1>1. ASSUME Steady, UNCHANGED << credits, owed, dev >> PROVE Funded'
  <2>1. HoldsStill
    BY <1>1 DEF HoldsStill, Holding, Holds, Steady
  <2>2. QED
    BY <1>1, <2>1, HeldSame DEF Funded
<1>2. ASSUME NEW d \in Dests, NEW f \in Fifos, ProcessSkb(d, f) PROVE Funded'
  <2>1. /\ Transit' = Transit /\ UNCHANGED << credits, owed, dev >>
        /\ \A q \in Packets : q # sent + 1 => pk'[q] = pk[q]
    BY <1>2, AcceptStep, AcceptSituated DEF Core
  <2>2. ASSUME NEW q \in Transit PROVE pk'[q] = pk[q]
    <3>1. q \in Packets /\ q <= sent /\ sent \in Nat
      BY TransitType DEF Core, Situated, OnWay, Typed
    <3>2. q # sent + 1
      BY <3>1 DEF Packets
    <3>3. QED
      BY <2>1, <3>1, <3>2
  <2>3. HoldsStill
    BY <2>1, <2>2 DEF HoldsStill, Holding, Holds
  <2>4. QED
    BY <2>1, <2>3, HeldSame DEF Funded
<1>3. ASSUME NEW d \in Dests, MacdescDel(d) PROVE Funded'
  <2>1. Transit' = Transit /\ UNCHANGED << pk, credits, owed, dev >>
    BY <1>3, FlushStep, FlushSituated DEF Core
  <2>2. HoldsStill
    BY <2>1 DEF HoldsStill, Holding, Holds
  <2>3. QED
    BY <2>1, <2>2, HeldSame DEF Funded
<1>4. ASSUME NEW p \in Packets, TxStatus(p) \/ TxSuppressedFull(p) \/ BusFailed(p) PROVE Funded'
  <2>1. /\ Tosses(p) /\ owed' = owed
        /\ \/ p \in dev /\ dev' = dev \ {p} /\ bus' = bus /\ PickUp(p, FALSE)
           \/ p \in bus /\ bus' = bus \ {p} /\ dev' = dev /\ PickUp(p, TRUE)
    BY <1>4, AnswersStep
  <2>2. p \in Transit /\ Transit' = Transit \ {p} /\ pk' = pk
    BY <2>1 DEF Tosses
  <2>3. CASE p \in dev /\ dev' = dev \ {p} /\ PickUp(p, FALSE)
    <3>1. CreditOf(p, FALSE) <=> Holds(p, pk[p].fifo)
      BY <2>3 DEF CreditOf, Holds
    <3>2. IF Holds(p, pk[p].fifo) THEN credits' = Return(credits, pk[p].fifo) ELSE credits' = credits
      BY <2>3, <3>1, PickUpType
    <3>3. QED
      BY <2>1, <2>2, <2>3, <3>2, PickedUpFunded
  <2>4. CASE p \in bus /\ dev' = dev /\ PickUp(p, TRUE)
    <3>1. p \notin dev /\ dev' = dev \ {p}
      BY <2>4 DEF Core, Placed
    <3>2. CreditOf(p, TRUE) <=> Holds(p, pk[p].fifo)
      BY <3>1 DEF CreditOf, Holds
    <3>3. IF Holds(p, pk[p].fifo) THEN credits' = Return(credits, pk[p].fifo) ELSE credits' = credits
      BY <2>4, <3>2, PickUpType
    <3>4. QED
      BY <2>1, <2>2, <3>1, <3>3, PickedUpFunded
  <2>5. QED
    BY <2>1, <2>3, <2>4
<1>5. ASSUME NEW p \in Packets, TxSuppressed(p) PROVE Funded'
  <2>1. /\ p \in dev /\ dev' = dev \ {p} /\ PickUp(p, FALSE) /\ owed' = owed /\ Requeues(p)
        /\ pk'[p].req = pk[p].req /\ \A q \in Packets : q # p => pk'[q] = pk[q]
    BY <1>5, TxSuppressedStep
  <2>2. /\ p \in Transit /\ Transit' = Transit \ {p}
        /\ \A q \in Packets : pk'[q].fifo = pk[q].fifo /\ pk'[q].req = pk[q].req
    BY <2>1 DEF Requeues, SameNames
  <2>3. CreditOf(p, FALSE) <=> Holds(p, pk[p].fifo)
    BY <2>1 DEF CreditOf, Holds
  <2>4. IF Holds(p, pk[p].fifo) THEN credits' = Return(credits, pk[p].fifo) ELSE credits' = credits
    BY <2>1, <2>3, PickUpType
  <2>5. QED
    BY <2>1, <2>2, <2>4, PickedUpFunded
<1>6. ASSUME Rollback \/ RollbackFails PROVE Funded'
  <2>1. /\ hand \in Packets /\ owed' = owed /\ dev' = dev /\ pk' = pk
        /\ hand \in Transit /\ Transit' = Transit \ {hand}
    BY <1>6, RollbackStep, RollbackFailsStep DEF Requeues, Tosses
  <2>2. hand \notin dev /\ dev' = dev \ {hand}
    <3>1. InHand = {hand}
      BY <1>6 DEF Rollback, RollbackFails, InHand
    <3>2. QED
      BY <2>1, <3>1 DEF Core, Placed
  <2>3. CreditOf(hand, TRUE) /\ Holds(hand, pk[hand].fifo)
    BY <2>2 DEF CreditOf, Holds
  <2>4. credits' = Return(credits, pk[hand].fifo)
    <3>1. CASE RollbackFails
      BY <2>3, <3>1, RollbackFailsStep, PickUpType
    <3>2. CASE Rollback
      BY <3>2, RollbackStep
    <3>3. QED
      BY <1>6, <3>1, <3>2
  <2>5. QED
    BY <2>1, <2>2, <2>3, <2>4, PickedUpFunded
<1>7. CASE StackStep
  <2>1. ASSUME NEW t \in Traffic, ProcessSkb(t[1], t[2]) PROVE Funded'
    BY <1>2, <2>1, TrafficAssumption
  <2>2. QED
    BY <1>1, <1>7, <2>1, SchedulingSteps DEF StackStep
<1>8. CASE WorkerStep
  <2>1. CASE SendOwn \/ SendBorrowed
    BY <2>1, SentFunded
  <2>2. CASE BorrowDone
    BY <2>2, UnsentFunded
  <2>3. CASE StartWorker \/ OwnDone \/ TxData \/ TxRefused \/ Relock
    BY <1>1, <2>3, StartWorkerStep, OwnDoneStep, TxDataStep, TxRefusedStep, RelockStep
  <2>4. QED
    BY <1>6, <1>8, <2>1, <2>2, <2>3 DEF WorkerStep
<1>9. CASE SignalStep
  <2>1. ASSUME NEW d \in Dests, MacClose(d) \/ MacOpen(d) \/ MacRequest(d) \/ MacdescAdd(d) PROVE Funded'
    BY <1>1, <2>1, EntrySteps
  <2>2. CASE MarkSuppressed \/ RxSchedule
    BY <1>1, <2>2, SchedulingSteps
  <2>3. QED
    BY <1>3, <1>4, <1>5, <1>9, <2>1, <2>2, BackFunded DEF SignalStep
<1>10. CASE BusStep
  <2>1. ASSUME NEW p \in Packets, BusDone(p) PROVE Funded'
    BY <2>1, HeldOwed, BusDoneStep DEF Funded
  <2>2. CASE BusUnblocked
    BY <1>1, <2>2, SchedulingSteps
  <2>3. QED
    BY <1>4, <1>10, <2>1, <2>2 DEF BusStep
<1>11. CASE UNCHANGED vars
  BY <1>1, <1>11, IdleStep
<1>12. QED
  BY <1>7, <1>8, <1>9, <1>10, <1>11 DEF Next

LEMMA InitFunded == Init => Funded
<1> SUFFICES ASSUME Init PROVE Funded
  OBVIOUS
<1>1. Core
  BY InitCore
<1>2. \A f \in Fifos : Holding(f) = {}
  BY DEF Init, Holding, Transit, InHand
<1>3. \A f \in Fifos : Held(f) = 0
  <2>1. \A f \in Fifos : Held(f) = Cardinality(Holding(f)) + owed[f] /\ owed[f] = 0
    BY DEF Held, Holding, Holds, Init
  <2>2. QED
    BY <1>2, <2>1, FS_EmptySet
<1>4. credits \in CreditStates /\ credits.fifo = Credits /\ credits.borrowed = [b \in ACs |-> [l \in ACs |-> 0]]
  BY <1>1 DEF Core, Typed, Init
<1>5. \A f \in Fifos : LentIn(credits, f) = 0 /\ LoansIn(credits, f) = 0
  <2>1. Sum([l \in ACs |-> 0]) = 0
    <3> DEFINE g == [l \in ACs |-> 0]
    <3>1. g \in [ACs -> Nat] /\ \A l \in ACs : g[l] = 0
      OBVIOUS
    <3> HIDE DEF g
    <3>2. Sum(g) = 0
      BY <3>1, SumNat
    <3>3. QED
      BY <3>2 DEF g
  <2>2. \A f \in ACs : [b \in ACs |-> credits.borrowed[b][f]] = [l \in ACs |-> 0] /\ credits.borrowed[f] = [l \in ACs |-> 0]
    BY <1>4
  <2>3. QED
    BY <2>1, <2>2 DEF LentIn, LoansIn
<1>6. AllHeld \in [Fifos -> Int] /\ \A f \in Fifos : AllHeld[f] = 0
  BY <1>3 DEF AllHeld
<1>7. \A f \in Fifos : Credits[f] \in Nat
  BY CreditAssumption
<1>8. 0 \in ACs
  BY CountAssumption DEF ACs
<1>9. QED
  BY <1>4, <1>5, <1>6, <1>7, <1>8 DEF Funded, Balanced

LEMMA FundedBalance == Funded => CreditBalance
<1> SUFFICES ASSUME Funded, NEW f \in Fifos
             PROVE  /\ credits.fifo[f] + Lent(f) - Loans(f) + Held(f) = Credits[f]
                    /\ credits.fifo[f] >= 0 /\ Loans(f) <= Held(f)
  BY DEF CreditBalance
<1>1. Lent(f) = LentIn(credits, f) /\ Loans(f) = LoansIn(credits, f) /\ AllHeld[f] = Held(f)
  BY DEF Lent, Loans, LentIn, LoansIn, AllHeld
<1>2. QED
  BY <1>1 DEF Funded, Balanced

(* No credit is lost or made up by any of the ways a packet may come back: *)
(* what a FIFO has, has lent less what it borrowed, and what its packets   *)
(* hold, is always what the device gave it, and it never goes below zero.  *)
THEOREM CreditsBalanced == Spec => []CreditBalance
<1>1. Core /\ Funded /\ [Next]_vars => Funded'
  BY FundedStep
<1>2. QED
  BY <1>1, InitFunded, FundedBalance, CoreAlways, PTL DEF Spec

(***************************************************************************)
(* The counts are exact while the bus does not fail.                       *)
(***************************************************************************)

(* The bus refuses a packet only if it may fail.                           *)
LEMMA RefusedStep ==
  ASSUME Core, ~BusFails, wpc # "refused", [Next]_vars
  PROVE  wpc' # "refused"
<1>0. wpc' # "refused" \/ wpc' # wpc
  OBVIOUS
<1>1. CASE StackStep
  BY <1>0, <1>1 DEF StackStep, SkbSchedule, ProcessSkb, worker
<1>2. CASE WorkerStep
  <2>1. CASE StartWorker
    BY <1>0, <2>1 DEF StartWorker
  <2>2. CASE SendOwn \/ SendBorrowed
    BY <2>2 DEF SendOwn, SendBorrowed, Commit
  <2>3. CASE OwnDone \/ BorrowDone
    <3>1. wfifo \in Fifos
      BY DEF Core, TypedThreads
    <3>2. NextFifo \/ AfterOwn(credits)
      BY <2>3 DEF OwnDone, BorrowDone
    <3>3. QED
      BY <3>1, <3>2, OnwardType
  <2>4. CASE TxData \/ TxRefused
    BY <2>4 DEF TxData, TxRefused
  <2>5. CASE Relock
    <3>1. wphase \in {"own", "borrow"}
      BY DEF Core, TypedThreads
    <3>2. QED
      BY <2>5, <3>1 DEF Relock
  <2>6. CASE Rollback \/ RollbackFails
    BY <2>6 DEF Rollback, RollbackFails
  <2>7. QED
    BY <1>2, <2>1, <2>2, <2>3, <2>4, <2>5, <2>6 DEF WorkerStep
<1>3. CASE SignalStep
  <2>1. wpc' = wpc
    BY <1>3 DEF SignalStep, TxStatus, TxSuppressed, TxSuppressedFull, MacClose, MacOpen, SetState, MacRequest,
                MacdescDel, MacdescAdd, CreditBack, MarkSuppressed, RxSchedule, worker
  <2>2. QED
    BY <2>1
<1>4. CASE BusStep
  <2>1. wpc' = wpc
    BY <1>4 DEF BusStep, BusUnblocked, BusDone, BusFailed, worker
  <2>2. QED
    BY <2>1
<1>5. CASE UNCHANGED vars
  BY <1>5 DEF vars, worker
<1>6. QED
  BY <1>1, <1>2, <1>3, <1>4, <1>5 DEF Next

(* The packets on their way to destination d.                              *)
Towards(d) == {p \in Transit : pk[p].mac = d}
Counted(d) ==
  /\ mac[d].transit = Cardinality(Towards(d))
  /\ mac[d].suppressed => mac[d].suppr = mac[d].transit
TransitCounted == \A d \in Dests : Counted(d)

LEMMA TowardsType ==
  ASSUME Core, NEW d \in Dests
  PROVE  IsFiniteSet(Towards(d)) /\ Cardinality(Towards(d)) \in Nat /\ mac[d] \in Entries
<1>1. IsFiniteSet(Towards(d))
  BY TransitType, FS_Subset DEF Core, Towards
<1>2. QED
  BY <1>1, FS_CardinalityType DEF Core, Typed

(* The counts stay while the packets on their way are the same, ...        *)
LEMMA CountedSame ==
  ASSUME Core, TransitCounted, Transit' = Transit, \A p \in Transit : pk'[p].mac = pk[p].mac,
         Calmer(mac', mac)
  PROVE  TransitCounted'
<1>1. \A d \in Dests : Towards(d)' = Towards(d)
  BY DEF Towards
<1>2. QED
  BY <1>1 DEF TransitCounted, Counted, Calmer

(* ... one more is counted when it is sent, ...                            *)
LEMMA CountedSent ==
  ASSUME Core, TransitCounted, NEW d \in Dests, Sends(d)
  PROVE  TransitCounted'
<1>1. PICK p \in Packets : p = hand'
  BY DEF Sends
<1>2. Takes(p, d, wfifo)
  BY <1>1 DEF Sends
<1>3. p \notin Transit /\ pk[p].mac = d
  BY <1>2, TakesSituated DEF Core
<1>4. Transit' = Transit \cup {p} /\ SameNames /\ Transit \subseteq Packets
  BY <1>2, TransitType DEF Takes, Core
<1>5. \A e \in Dests : Towards(e)' = IF e = d THEN Towards(e) \cup {p} ELSE Towards(e)
  BY <1>3, <1>4 DEF Towards, SameNames
<1>6. ASSUME NEW e \in Dests PROVE Counted(e)'
  <2>1. /\ mac'[e].transit = IF e = d THEN mac[e].transit + 1 ELSE mac[e].transit
        /\ mac'[e].suppressed =>
             mac[e].suppressed /\ mac'[e].suppr = IF e = d THEN mac[e].suppr + 1 ELSE mac[e].suppr
    BY DEF Sends
  <2>2. IsFiniteSet(Towards(e)) /\ Counted(e)
    BY TowardsType DEF TransitCounted
  <2>3. CASE e = d
    <3>1. Towards(e)' = Towards(e) \cup {p} /\ p \notin Towards(e)
      BY <1>3, <1>5, <2>3 DEF Towards
    <3>2. Cardinality(Towards(e)') = Cardinality(Towards(e)) + 1
      BY <2>2, <3>1, FS_AddElement
    <3>3. QED
      BY <2>1, <2>2, <2>3, <3>2 DEF Counted
  <2>4. CASE e # d
    <3>1. Towards(e)' = Towards(e)
      BY <1>5, <2>4
    <3>2. QED
      BY <2>1, <2>2, <2>4, <3>1 DEF Counted
  <2>5. QED
    BY <2>3, <2>4
<1>7. QED
  BY <1>6 DEF TransitCounted

(* ... and one less when it is answered.                                   *)
LEMMA CountedAnswered ==
  ASSUME Core, TransitCounted, NEW p \in Transit, Transit' = Transit \ {p}, SameNames,
         Uncounted(pk[p].mac)
  PROVE  TransitCounted'
<1>1. PICK d \in Dests : d = pk[p].mac
  BY TransitType DEF Core, Typed, Descs
<1>2. \A e \in Dests : Towards(e)' = IF e = d THEN Towards(e) \ {p} ELSE Towards(e)
  BY <1>1, TransitType DEF Towards, SameNames, Core
<1>3. ASSUME NEW e \in Dests PROVE Counted(e)'
  <2>1. IsFiniteSet(Towards(e)) /\ Counted(e) /\ Cardinality(Towards(e)) \in Nat
    BY TowardsType DEF TransitCounted
  <2>2. CASE e = d
    <3>1. Towards(e)' = Towards(e) \ {p} /\ p \in Towards(e)
      BY <1>1, <1>2, <2>2 DEF Towards
    <3>2. Cardinality(Towards(e)') = Cardinality(Towards(e)) - 1 /\ Cardinality(Towards(e)) # 0
      BY <2>1, <3>1, FS_RemoveElement, FS_EmptySet
    <3>3. Uncounts(mac'[e], mac[e])
      BY <1>1, <2>2 DEF Uncounted
    <3>4. QED
      BY <2>1, <3>2, <3>3 DEF Counted, Uncounts
  <2>3. CASE e # d
    <3>1. Towards(e)' = Towards(e) /\ mac'[e] = mac[e]
      BY <1>1, <1>2, <2>3 DEF Uncounted
    <3>2. QED
      BY <2>1, <3>1 DEF Counted
  <2>4. QED
    BY <2>2, <2>3
<1>4. QED
  BY <1>3 DEF TransitCounted

LEMMA CountedStep ==
  ASSUME Core, TransitCounted, ~BusFails, wpc # "refused", [Next]_vars
  PROVE  TransitCounted'
<1>1. ASSUME Steady, Calmer(mac', mac) PROVE TransitCounted'
  BY <1>1, CountedSame DEF Steady
<1>2. ASSUME mac' = mac \/ \A e \in Dests : SameCounts(mac'[e], mac[e]) PROVE Calmer(mac', mac)
  BY <1>2 DEF Calmer, SameCounts
<1>3. CASE StackStep
  <2>1. ASSUME NEW d \in Dests, NEW f \in Fifos, ProcessSkb(d, f) PROVE TransitCounted'
    <3>1. Transit' = Transit /\ mac' = mac /\ \A q \in Packets : q # sent + 1 => pk'[q] = pk[q]
      BY <2>1, AcceptStep, AcceptSituated DEF Core
    <3>2. ASSUME NEW q \in Transit PROVE pk'[q] = pk[q]
      <4>1. q \in Packets /\ q <= sent /\ sent \in Nat
        BY TransitType DEF Core, Situated, OnWay, Typed
      <4>2. q # sent + 1
        BY <4>1 DEF Packets
      <4>3. QED
        BY <3>1, <4>1, <4>2
    <3>3. QED
      BY <1>2, <3>1, <3>2, CountedSame
  <2>2. ASSUME NEW t \in Traffic, ProcessSkb(t[1], t[2]) PROVE TransitCounted'
    BY <2>1, <2>2, TrafficAssumption
  <2>3. QED
    BY <1>1, <1>2, <1>3, <2>2, SchedulingSteps DEF StackStep
<1>4. CASE WorkerStep
  <2>1. CASE SendOwn \/ SendBorrowed
    BY <2>1, SendOwnStep, SendBorrowedStep, CountedSent
  <2>2. CASE StartWorker \/ TxData \/ TxRefused \/ Relock
    BY <1>1, <1>2, <2>2, StartWorkerStep, TxDataStep, TxRefusedStep, RelockStep
  <2>3. CASE OwnDone \/ BorrowDone
    BY <1>1, <2>3, OwnDoneStep, BorrowDoneStep
  <2>4. CASE Rollback \/ RollbackFails
    BY <2>4 DEF Rollback, RollbackFails
  <2>5. QED
    BY <1>4, <2>1, <2>2, <2>3, <2>4 DEF WorkerStep
<1>5. ASSUME NEW p \in Packets, TxStatus(p) \/ TxSuppressedFull(p) \/ BusFailed(p) PROVE TransitCounted'
  <2>1. Tosses(p) /\ Uncounted(pk[p].mac)
    BY <1>5, AnswersStep
  <2>2. p \in Transit /\ Transit' = Transit \ {p} /\ SameNames
    BY <2>1 DEF Tosses, SameNames
  <2>3. QED
    BY <2>1, <2>2, CountedAnswered
<1>6. CASE SignalStep
  <2>1. ASSUME NEW p \in Packets, TxSuppressed(p) PROVE TransitCounted'
    <3>1. Requeues(p) /\ Uncounted(pk[p].mac)
      BY <2>1, TxSuppressedStep
    <3>2. p \in Transit /\ Transit' = Transit \ {p} /\ SameNames
      BY <3>1 DEF Requeues
    <3>3. QED
      BY <3>1, <3>2, CountedAnswered
  <2>2. ASSUME NEW d \in Dests, MacClose(d) \/ MacOpen(d) \/ MacRequest(d) \/ MacdescAdd(d) PROVE TransitCounted'
    BY <1>1, <1>2, <2>2, EntrySteps
  <2>3. ASSUME NEW d \in Dests, MacdescDel(d) PROVE TransitCounted'
    <3>1. Transit' = Transit /\ pk' = pk /\ Calmer(mac', mac)
      BY <1>2, <2>3, FlushStep, FlushSituated DEF Core
    <3>2. QED
      BY <3>1, CountedSame
  <2>4. ASSUME NEW f \in Fifos, CreditBack(f) PROVE TransitCounted'
    BY <1>1, <1>2, <2>4, CreditBackStep
  <2>5. CASE MarkSuppressed \/ RxSchedule
    BY <1>1, <1>2, <2>5, SchedulingSteps
  <2>6. QED
    BY <1>5, <1>6, <2>1, <2>2, <2>3, <2>4, <2>5 DEF SignalStep
<1>7. CASE BusStep
  BY <1>1, <1>2, <1>5, <1>7, BusDoneStep, SchedulingSteps DEF BusStep
<1>8. CASE UNCHANGED vars
  BY <1>1, <1>2, <1>8, IdleStep
<1>9. QED
  BY <1>3, <1>4, <1>6, <1>7, <1>8 DEF Next

(* The packets that wait for FIFO f, of any destination, and their count.  *)
Queued(q, f) == UNION {At(q, d, f) : d \in Dests}
EnqExact(q, f) ==
  q.enqpkt[f] = Cardinality(Queued(q, f)) /\ (f \in q.delay_map <=> q.enqpkt[f] # 0)
EnqCounted == \A f \in Fifos : EnqExact(psq, f)

LEMMA QueuedType ==
  ASSUME NEW q \in Psqs, NEW f \in Fifos
  PROVE  IsFiniteSet(Queued(q, f)) /\ Cardinality(Queued(q, f)) \in Nat /\ q.enqpkt[f] \in Int
<1>1. Queued(q, f) \subseteq Packets
  BY AtType DEF Queued
<1>2. IsFiniteSet(Packets)
  BY CountAssumption, FS_Interval DEF Packets
<1>3. QED
  BY <1>1, <1>2, FS_Subset, FS_CardinalityType DEF Psqs

(* Packet p is queued for f and counted, or dequeued and counted no more.  *)
LEMMA EnqCountsUp ==
  ASSUME NEW q \in Psqs, NEW r \in Psqs, NEW d \in Dests, NEW f \in Fifos, NEW p, CountsUp(r, q, f),
         At(r, d, f) = At(q, d, f) \cup {p}, \A e \in Dests : p \notin At(q, e, f),
         \A e \in Dests, g \in Fifos : e # d \/ g # f => At(r, e, g) = At(q, e, g),
         \A g \in Fifos : EnqExact(q, g), NEW g \in Fifos
  PROVE  EnqExact(r, g)
<1>1. /\ IsFiniteSet(Queued(q, g)) /\ Cardinality(Queued(q, g)) \in Nat
      /\ EnqExact(q, g) /\ q.enqpkt \in [Fifos -> Int]
  BY QueuedType DEF Psqs
<1>2. r.enqpkt[g] = (IF g = f THEN q.enqpkt[g] + 1 ELSE q.enqpkt[g]) /\ r.delay_map = q.delay_map \cup {f}
  BY <1>1 DEF CountsUp
<1>3. CASE g = f
  <2>1. Queued(r, g) = Queued(q, g) \cup {p} /\ p \notin Queued(q, g)
    BY <1>3 DEF Queued
  <2>2. Cardinality(Queued(r, g)) = Cardinality(Queued(q, g)) + 1
    BY <1>1, <2>1, FS_AddElement
  <2>3. QED
    BY <1>1, <1>2, <1>3, <2>2 DEF EnqExact
<1>4. CASE g # f
  <2>1. Queued(r, g) = Queued(q, g)
    BY <1>4 DEF Queued
  <2>2. QED
    BY <1>1, <1>2, <1>4, <2>1 DEF EnqExact
<1>5. QED
  BY <1>3, <1>4

LEMMA EnqCountsDown ==
  ASSUME NEW q \in Psqs, NEW r \in Psqs, NEW d \in Dests, NEW f \in Fifos, NEW p, CountsDown(r, q, f),
         p \in At(q, d, f), At(r, d, f) = At(q, d, f) \ {p}, \A e \in Dests : e # d => p \notin At(q, e, f),
         \A e \in Dests, g \in Fifos : e # d \/ g # f => At(r, e, g) = At(q, e, g),
         \A g \in Fifos : EnqExact(q, g), NEW g \in Fifos
  PROVE  EnqExact(r, g)
<1>1. /\ IsFiniteSet(Queued(q, g)) /\ Cardinality(Queued(q, g)) \in Nat
      /\ EnqExact(q, g) /\ q.enqpkt \in [Fifos -> Int]
  BY QueuedType DEF Psqs
<1>2. /\ r.enqpkt[g] = IF g = f THEN q.enqpkt[g] - 1 ELSE q.enqpkt[g]
      /\ r.delay_map = IF q.enqpkt[f] = 1 THEN q.delay_map \ {f} ELSE q.delay_map
  BY <1>1 DEF CountsDown
<1>3. CASE g = f
  <2>1. Queued(r, g) = Queued(q, g) \ {p} /\ p \in Queued(q, g)
    BY <1>3 DEF Queued
  <2>2. Cardinality(Queued(r, g)) = Cardinality(Queued(q, g)) - 1 /\ Cardinality(Queued(q, g)) # 0
    BY <1>1, <2>1, FS_RemoveElement, FS_EmptySet
  <2>3. QED
    BY <1>1, <1>2, <1>3, <2>2 DEF EnqExact
<1>4. CASE g # f
  <2>1. Queued(r, g) = Queued(q, g)
    BY <1>4 DEF Queued
  <2>2. g \in r.delay_map <=> g \in q.delay_map
    BY <1>2, <1>4
  <2>3. QED
    BY <1>1, <1>2, <1>4, <2>1, <2>2 DEF EnqExact
<1>5. QED
  BY <1>3, <1>4

(* A packet that waits, waits for one destination and FIFO only.           *)
LEMMA WaitsOnce ==
  ASSUME Core, NEW d \in Dests, NEW f \in Fifos, NEW p \in At(psq, d, f)
  PROVE  /\ pk[p].mac = d /\ pk[p].fifo = f /\ p \in Packets /\ p <= sent /\ p \notin Transit
         /\ \A e \in Dests, g \in Fifos : p \in At(psq, e, g) => e = d /\ g = f
  BY AtType DEF Core, Typed, Situated, Waiting, Waits

LEMMA EnqStep ==
  ASSUME Core, EnqCounted, ~BusFails, ~Deletes, wpc # "refused", [Next]_vars
  PROVE  EnqCounted'
<1>0. psq \in Psqs /\ psq' \in Psqs
  BY CoreStep DEF Core, Typed
<1>1. ASSUME psq' = psq PROVE EnqCounted'
  BY <1>1 DEF EnqCounted
<1>2. ASSUME NEW d \in Dests, Sends(d) PROVE EnqCounted'
  <2>1. PICK p \in Packets : p = hand'
    BY <1>2 DEF Sends
  <2>2. Takes(p, d, wfifo) /\ wfifo \in Fifos
    BY <1>2, <2>1 DEF Sends, Core, TypedThreads
  <2>3. /\ p \in At(psq, d, wfifo) /\ At(psq', d, wfifo) = At(psq, d, wfifo) \ {p}
        /\ \A e \in Dests, g \in Fifos : e # d \/ g # wfifo => At(psq', e, g) = At(psq, e, g)
    BY <2>2, TakesSituated DEF Core
  <2>4. \A e \in Dests : e # d => p \notin At(psq, e, wfifo)
    BY <2>2, <2>3, WaitsOnce
  <2>5. CountsDown(psq', psq, wfifo)
    <3>1. psq' = Deq(psq, d, wfifo) /\ (psq.suppressed[d][wfifo] # << >> \/ psq.delayed[d][wfifo] # << >>)
      BY <1>2 DEF Sends, Yields
    <3>2. CountsDown(Deq(psq, d, wfifo), psq, wfifo)
      BY <1>0, <2>2, <3>1, DeqEffect
    <3>3. QED
      BY <3>1, <3>2
  <2>6. QED
    BY <1>0, <2>2, <2>3, <2>4, <2>5, EnqCountsDown DEF EnqCounted
<1>3. ASSUME NEW d \in Dests, NEW f \in Fifos, ProcessSkb(d, f) PROVE EnqCounted'
  <2> DEFINE p == sent + 1
  <2>1. /\ p \in Packets /\ p > sent /\ ~(p <= sent)
        /\ \A e \in Dests, g \in Fifos :
             At(psq', e, g) = At(psq, e, g) \cup (IF e = d /\ g = f /\ HasRoom(d) THEN {p} ELSE {})
    <3>1. sent \in Nat /\ p > sent /\ ~(p <= sent)
      BY DEF Core, Typed
    <3>2. QED
      BY <1>3, <3>1, AcceptSituated DEF Core
  <2>2. CASE HasRoom(d)
    <3>1. psq' = Enq(psq, p, d, f, FALSE) /\ FALSE \in BOOLEAN
      BY <1>3, <2>2 DEF ProcessSkb
    <3>2. CountsUp(Enq(psq, p, d, f, FALSE), psq, f)
      BY <1>0, <2>1, EnqEffect
    <3>3. CountsUp(psq', psq, f)
      BY <3>1, <3>2
    <3>4. \A e \in Dests : p \notin At(psq, e, f)
      BY <2>1, WaitsOnce
    <3>5. /\ At(psq', d, f) = At(psq, d, f) \cup {p}
          /\ \A e \in Dests, g \in Fifos : e # d \/ g # f => At(psq', e, g) = At(psq, e, g)
      BY <2>1, <2>2
    <3> HIDE DEF p
    <3>6. QED
      BY <1>0, <3>3, <3>4, <3>5, EnqCountsUp DEF EnqCounted
  <2>3. CASE ~HasRoom(d)
    BY <1>1, <1>3, <2>3 DEF ProcessSkb
  <2>4. QED
    BY <2>2, <2>3
<1>4. ASSUME NEW p \in Packets, TxSuppressed(p) PROVE EnqCounted'
  <2>1. PICK d \in Dests, f \in Fifos : d = pk[p].mac /\ f = pk[p].fifo
    BY DEF Core, Typed, Descs
  <2>2. Requeues(p) /\ psq' = Enq(psq, p, d, f, TRUE)
    BY <1>4, <2>1, TxSuppressedStep
  <2>3. /\ At(psq', d, f) = At(psq, d, f) \cup {p}
        /\ \A e \in Dests, g \in Fifos : e # d \/ g # f => At(psq', e, g) = At(psq, e, g)
    <3>1. Requeues(p)
      BY <2>2
    <3>2. /\ At(psq', pk[p].mac, pk[p].fifo) = At(psq, pk[p].mac, pk[p].fifo) \cup {p}
          /\ \A e \in Dests, g \in Fifos : e # pk[p].mac \/ g # pk[p].fifo => At(psq', e, g) = At(psq, e, g)
      BY <3>1, RequeuesSituated DEF Core
    <3>3. QED
      BY <2>1, <3>2
  <2>4. \A e \in Dests : p \notin At(psq, e, f)
    BY <2>2, WaitsOnce DEF Requeues
  <2>5. CountsUp(Enq(psq, p, d, f, TRUE), psq, f)
    BY <1>0, EnqEffect
  <2>6. CountsUp(psq', psq, f)
    BY <2>2, <2>5
  <2>7. QED
    BY <1>0, <2>3, <2>4, <2>6, EnqCountsUp DEF EnqCounted
<1>5. CASE StackStep
  <2>1. ASSUME NEW t \in Traffic, ProcessSkb(t[1], t[2]) PROVE EnqCounted'
    BY <1>3, <2>1, TrafficAssumption
  <2>2. QED
    BY <1>1, <1>5, <2>1 DEF StackStep, SkbSchedule
<1>6. CASE WorkerStep
  <2>1. CASE SendOwn \/ SendBorrowed
    BY <1>2, <2>1, SendOwnStep, SendBorrowedStep
  <2>2. CASE StartWorker \/ OwnDone \/ BorrowDone \/ TxData \/ TxRefused \/ Relock
    BY <1>1, <2>2 DEF StartWorker, OwnDone, BorrowDone, TxData, TxRefused, Relock
  <2>3. CASE Rollback \/ RollbackFails
    BY <2>3 DEF Rollback, RollbackFails
  <2>4. QED
    BY <1>6, <2>1, <2>2, <2>3 DEF WorkerStep
<1>7. CASE SignalStep
  <2>1. ASSUME NEW p \in Packets, TxStatus(p) \/ TxSuppressedFull(p) PROVE EnqCounted'
    BY <1>1, <2>1 DEF TxStatus, TxSuppressedFull
  <2>2. ASSUME NEW d \in Dests, MacClose(d) \/ MacOpen(d) \/ MacRequest(d) \/ MacdescAdd(d) PROVE EnqCounted'
    BY <1>1, <2>2 DEF MacClose, MacOpen, SetState, MacRequest, MacdescAdd
  <2>3. ASSUME NEW d \in Dests, MacdescDel(d) PROVE EnqCounted'
    BY <2>3 DEF MacdescDel
  <2>4. CASE MarkSuppressed \/ RxSchedule \/ \E f \in Fifos : CreditBack(f)
    BY <1>1, <2>4 DEF MarkSuppressed, RxSchedule, CreditBack
  <2>5. QED
    BY <1>4, <1>7, <2>1, <2>2, <2>3, <2>4 DEF SignalStep
<1>8. CASE BusStep
  BY <1>1, <1>8 DEF BusStep, BusUnblocked, BusDone, BusFailed
<1>9. CASE UNCHANGED vars
  BY <1>1, <1>9 DEF vars
<1>10. QED
  BY <1>5, <1>6, <1>7, <1>8, <1>9 DEF Next

LEMMA InitCounted == Init => TransitCounted /\ EnqCounted /\ wpc # "refused"
<1> SUFFICES ASSUME Init PROVE TransitCounted /\ EnqCounted /\ wpc # "refused"
  OBVIOUS
<1>1. TransitCounted
  <2>1. \A d \in Dests : Towards(d) = {}
    BY DEF Init, Towards, Transit, InHand
  <2>2. QED
    BY <2>1, FS_EmptySet DEF Init, TransitCounted, Counted
<1>2. EnqCounted
  <2>1. ASSUME NEW f \in Fifos PROVE Queued(psq, f) = {}
    <3>1. Elements(<< >>) = {}
      BY DEF Elements
    <3>2. \A d \in Dests : At(psq, d, f) = {}
      BY <3>1 DEF Init, At
    <3>3. QED
      BY <3>2 DEF Queued
  <2>2. QED
    BY <2>1, FS_EmptySet DEF Init, EnqCounted, EnqExact
<1>3. QED
  BY <1>1, <1>2 DEF Init

LEMMA CountedExact == TransitCounted /\ EnqCounted => CountsExact
<1>1. \A d \in Dests : Towards(d) = {p \in Transit : pk[p].mac = d}
  BY DEF Towards
<1>2. \A f \in Fifos : Queued(psq, f) = UNION {QueuedAt(d, f) : d \in Dests}
  BY DEF Queued, At, QueuedAt
<1>3. QED
  BY <1>1, <1>2 DEF TransitCounted, Counted, EnqCounted, EnqExact, CountsExact

(* While the bus takes and transmits every packet and no node is deleted,  *)
(* what is counted of the packets in transit and in the queues is their    *)
(* number, whatever destinations close and whatever is suppressed.         *)
THEOREM CountedTrue ==
  ASSUME ~BusFails, ~Deletes
  PROVE  Spec => []CountsExact
<1> DEFINE Inv == TransitCounted /\ EnqCounted /\ wpc # "refused"
<1>1. Core /\ Inv /\ [Next]_vars => Inv'
  BY CountedStep, EnqStep, RefusedStep
<1>2. Inv => CountsExact
  BY CountedExact
<1>3. Init => Inv
  BY InitCounted
<1> HIDE DEF Inv
<1>4. QED
  BY <1>1, <1>2, <1>3, CoreAlways, PTL DEF Spec

(***************************************************************************)
(* Packets are sent in turn.                                               *)
(***************************************************************************)

(* A set of numbers from 1 with none left out is an interval.              *)
LEMMA Downwards ==
  ASSUME NEW n \in Nat, NEW S, S \subseteq 1 .. n, \A i \in S, j \in 1 .. n : j <= i => j \in S
  PROVE  S = 1 .. Cardinality(S)
<1>1. CASE S = {}
  <2>1. Cardinality(S) = 0
    BY <1>1, FS_EmptySet
  <2>2. QED
    BY <1>1, <2>1
<1>2. CASE S # {}
  <2>0. S \subseteq 0 .. n
    OBVIOUS
  <2>1. PICK m \in S : \A k \in S : k <= m
    BY <1>2, <2>0, Largest
  <2>2. S = 1 .. m /\ m \in Nat
    <3>1. m \in 1 .. n /\ \A j \in 1 .. n : j <= m => j \in S
      BY <2>1
    <3>2. ASSUME NEW j \in S PROVE j \in 1 .. m
      <4>1. j \in 1 .. n /\ j <= m
        BY <2>1
      <4>2. QED
        BY <3>1, <4>1
    <3>3. ASSUME NEW j \in 1 .. m PROVE j \in S
      <4>1. j \in 1 .. n /\ j <= m
        BY <3>1
      <4>2. QED
        BY <3>1, <4>1
    <3>4. S \subseteq 1 .. m
      BY <3>2
    <3>5. 1 .. m \subseteq S
      BY <3>3
    <3>6. S = 1 .. m
      BY <3>4, <3>5, Zenon
    <3>7. QED
      BY <3>1, <3>6
  <2>3. Cardinality(1 .. m) = m
    BY <2>2, FS_Interval
  <2>4. QED
    BY <2>2, <2>3
<1>3. QED
  BY <1>1, <1>2

LEMMA InsertRising ==
  ASSUME NEW s \in Seq(Packets), NEW p \in Packets, Rising(s), p \notin Elements(s)
  PROVE  Rising(Insert(s, p)) /\ Elements(Insert(s, p)) = Elements(s) \cup {p}
<1> DEFINE I == {i \in DOMAIN s : s[i] < p}
           n == Cardinality(I)
<1>1. n \in 0 .. Len(s) /\ Spliced(Insert(s, p), s, n, p)
  BY InsertSplices
<1>2. Len(s) \in Nat /\ DOMAIN s = 1 .. Len(s) /\ \A i \in DOMAIN s : s[i] \in Packets /\ s[i] \in Int
  <2>1. Len(s) \in Nat /\ DOMAIN s = 1 .. Len(s) /\ \A i \in DOMAIN s : s[i] \in Packets
    OBVIOUS
  <2>2. \A q \in Packets : q \in Int
    BY DEF Packets
  <2>3. QED
    BY <2>1, <2>2
<1>3. I = 1 .. n
  <2>1. I \subseteq 1 .. Len(s)
    BY <1>2
  <2>2. ASSUME NEW i \in I, NEW j \in 1 .. Len(s), j <= i PROVE j \in I
    <3>1. j = i \/ s[j] < s[i]
      BY <1>2, <2>2 DEF Rising
    <3>2. s[i] < p /\ p \in Int
      BY DEF Packets
    <3>3. QED
      BY <1>2, <3>1, <3>2
  <2> HIDE DEF I
  <2>3. QED
    BY <1>2, <2>1, <2>2, Downwards
<1>4. ASSUME NEW i \in 1 .. n PROVE s[i] < p
  <2>1. i \in I
    BY <1>3
  <2>2. QED
    BY <2>1
<1>5. ASSUME NEW i \in n + 1 .. Len(s) PROVE p < s[i]
  <2>1. i \in DOMAIN s /\ i \notin 1 .. n
    BY <1>1, <1>2
  <2>2. ~(s[i] < p)
    BY <1>3, <2>1
  <2>3. s[i] # p
    BY <2>1 DEF Elements
  <2>4. QED
    BY <1>2, <2>1, <2>2, <2>3 DEF Packets
<1> HIDE DEF n
<1>6. Rising(Insert(s, p))
  BY <1>1, <1>4, <1>5, SplicedRising
<1>7. Elements(Insert(s, p)) = Elements(s) \cup {p}
  BY <1>1, SplicedElements
<1>8. QED
  BY <1>6, <1>7

LEMMA AppendRising ==
  ASSUME NEW s \in Seq(Packets), NEW p \in Packets, Rising(s), \A q \in Elements(s) : q < p
  PROVE  Rising(Append(s, p)) /\ Elements(Append(s, p)) = Elements(s) \cup {p}
<1>1. Len(s) \in 0 .. Len(s) /\ Spliced(Append(s, p), s, Len(s), p)
  BY AppendSplices
<1>2. \A i \in 1 .. Len(s) : s[i] < p
  BY DEF Elements
<1>3. \A i \in Len(s) + 1 .. Len(s) : p < s[i]
  OBVIOUS
<1>4. Rising(Append(s, p))
  BY <1>1, <1>2, <1>3, SplicedRising
<1>5. QED
  BY <1>1, <1>4, SplicedElements

(* Of a destination and FIFO, the suppressed packets come before those     *)
(* never sent, both in the order of their acceptance, and so do the ones   *)
(* on their way.                                                           *)
OrderedAt(d, f) ==
  /\ Rising(psq.delayed[d][f]) /\ Rising(psq.suppressed[d][f])
  /\ \A p \in Elements(psq.suppressed[d][f]) : pk[p].supp
  /\ \A q \in Elements(psq.delayed[d][f]) :
       /\ ~pk[q].supp
       /\ \A p \in Elements(psq.suppressed[d][f]) : p < q
       /\ \A p \in Transit : pk[p].mac = d /\ pk[p].fifo = f => p < q
Ordered == \A d \in Dests, f \in Fifos : OrderedAt(d, f)

LEMMA OrderKept ==
  ASSUME NEW d \in Dests, NEW f \in Fifos, OrderedAt(d, f),
         psq'.delayed[d][f] = psq.delayed[d][f], psq'.suppressed[d][f] = psq.suppressed[d][f],
         \A q \in At(psq, d, f) : pk'[q].supp = pk[q].supp,
         \A p \in Transit' : pk'[p].mac = d /\ pk'[p].fifo = f =>
                               p \in Transit /\ pk[p].mac = d /\ pk[p].fifo = f
  PROVE  OrderedAt(d, f)'
  BY DEF OrderedAt, At

(* The worker takes the first packet.                                      *)
LEMMA OrderSent ==
  ASSUME Core, Ordered, NEW d \in Dests, Sends(d)
  PROVE  Ordered'
<1>0. PICK f \in Fifos : f = wfifo
  BY DEF Core, TypedThreads
<1>1. PICK p \in Packets : p = hand'
  BY DEF Sends
<1>2. f \in Fifos /\ psq \in Psqs
  BY DEF Core, Typed, TypedThreads
<1>3. Takes(p, d, f)
  BY <1>0, <1>1 DEF Sends
<1>4. /\ p \notin Transit /\ p \in At(psq, d, f) /\ pk[p].mac = d /\ pk[p].fifo = f
  BY <1>3, TakesSituated DEF Core
<1>5. Transit' = Transit \cup {p} /\ SameNames /\ Transit \subseteq Packets /\ Leaves(psq', psq, d, f, p)
  BY <1>3, TransitType DEF Takes, Core
<1>6. \A q \in Packets : pk'[q].supp = pk[q].supp
  BY <1>1 DEF Sends
<1>7. ASSUME NEW e \in Dests, NEW g \in Fifos, e # d \/ g # f PROVE OrderedAt(e, g)'
  <2>1. OrderedAt(e, g)
    BY DEF Ordered
  <2>2. psq'.delayed[e][g] = psq.delayed[e][g] /\ psq'.suppressed[e][g] = psq.suppressed[e][g]
    BY <1>5, <1>7 DEF Leaves, Elsewhere
  <2>3. \A q \in At(psq, e, g) : pk'[q].supp = pk[q].supp
    BY <1>2, <1>6, AtType
  <2>4. \A q \in Transit' : pk'[q].mac = e /\ pk'[q].fifo = g => q \in Transit /\ pk[q].mac = e /\ pk[q].fifo = g
    BY <1>4, <1>5, <1>7 DEF SameNames
  <2>5. QED
    BY <2>1, <2>2, <2>3, <2>4, OrderKept
<1>8. OrderedAt(d, f)'
  <2> DEFINE u == psq.suppressed[d][f]
             w == psq.delayed[d][f]
  <2>1. u \in Seq(Packets) /\ w \in Seq(Packets) /\ Elements(u) \subseteq Packets /\ Elements(w) \subseteq Packets
    BY <1>2, QueuesType, ElementsType
  <2>2. OrderedAt(d, f)
    BY <1>2 DEF Ordered
  <2>3. \A q \in Transit' : pk'[q].mac = d /\ pk'[q].fifo = f =>
          q = p \/ (q \in Transit /\ pk[q].mac = d /\ pk[q].fifo = f)
    BY <1>5 DEF SameNames
  <2>4. CASE u # << >> /\ p = Head(u) /\ psq'.suppressed[d][f] = Tail(u) /\ psq'.delayed[d][f] = w
    <3>1. Rising(Tail(u)) /\ Elements(u) = Elements(Tail(u)) \cup {p}
      BY <2>1, <2>2, <2>4, Beheaded DEF OrderedAt
    <3>2. \A q \in Elements(w) : p < q
      BY <2>2, <3>1 DEF OrderedAt
    <3> HIDE DEF u, w
    <3>3. QED
      BY <1>6, <2>1, <2>2, <2>3, <2>4, <3>1, <3>2 DEF OrderedAt, u, w
  <2>5. CASE w # << >> /\ p = Head(w) /\ psq'.delayed[d][f] = Tail(w) /\ psq'.suppressed[d][f] = u
    <3>1. Rising(Tail(w)) /\ Elements(w) = Elements(Tail(w)) \cup {p} /\ \A q \in Elements(Tail(w)) : p < q
      BY <2>1, <2>2, <2>5, Beheaded DEF OrderedAt
    <3> HIDE DEF u, w
    <3>2. QED
      BY <1>6, <2>1, <2>2, <2>3, <2>5, <3>1 DEF OrderedAt, u, w
  <2>6. QED
    BY <1>5, <2>4, <2>5 DEF Leaves
<1>9. QED
  BY <1>7, <1>8 DEF Ordered

(* A new packet comes last.                                                *)
LEMMA OrderAccepted ==
  ASSUME Core, Ordered, NEW d \in Dests, NEW f \in Fifos, ProcessSkb(d, f)
  PROVE  Ordered'
<1>1. PICK p \in Packets : p = sent + 1
  BY AcceptSituated DEF Core
<1>2. /\ Transit' = Transit /\ \A q \in Packets : q # p => pk'[q] = pk[q]
      /\ pk'[p].supp = FALSE /\ Transit \subseteq Packets /\ psq \in Psqs
  BY <1>1, AcceptSituated, TransitType DEF Core, Typed
<1>3. \A q \in Packets : q <= sent => q < p /\ q # p
  BY <1>1 DEF Packets, Core, Typed
<1>4. \A q \in Transit : q < p /\ q # p
  BY <1>2, <1>3 DEF Core, Situated, OnWay
<1>5. \A e \in Dests, g \in Fifos : \A q \in At(psq, e, g) : q \in Packets /\ q < p /\ q # p
  BY <1>3, WaitsOnce
<1>6. ASSUME NEW e \in Dests, NEW g \in Fifos,
             psq'.delayed[e][g] = psq.delayed[e][g], psq'.suppressed[e][g] = psq.suppressed[e][g]
      PROVE  OrderedAt(e, g)'
  <2>1. OrderedAt(e, g)
    BY DEF Ordered
  <2>2. \A q \in At(psq, e, g) : pk'[q].supp = pk[q].supp
    BY <1>2, <1>5
  <2>3. \A q \in Transit' : pk'[q] = pk[q] /\ q \in Transit
    BY <1>2, <1>4
  <2>4. QED
    BY <1>6, <2>1, <2>2, <2>3, OrderKept
<1>7. CASE ~HasRoom(d)
  <2>1. psq' = psq
    BY <1>7 DEF ProcessSkb
  <2>2. QED
    BY <1>6, <2>1 DEF Ordered
<1>8. CASE HasRoom(d)
  <2>1. psq' = Enq(psq, p, d, f, FALSE) /\ FALSE \in BOOLEAN
    BY <1>1, <1>8 DEF ProcessSkb
  <2>2. Joins(Enq(psq, p, d, f, FALSE), psq, d, f, p) /\ Sorts(Enq(psq, p, d, f, FALSE), psq, d, f, p, FALSE)
    BY <1>2, EnqEffect
  <2>3. Joins(psq', psq, d, f, p) /\ Sorts(psq', psq, d, f, p, FALSE)
    BY <2>1, <2>2
  <2>4. ASSUME NEW e \in Dests, NEW g \in Fifos, e # d \/ g # f PROVE OrderedAt(e, g)'
    BY <1>6, <2>3, <2>4 DEF Joins, Elsewhere
  <2>5. OrderedAt(d, f)'
    <3> DEFINE u == psq.suppressed[d][f]
               w == psq.delayed[d][f]
    <3>1. w \in Seq(Packets) /\ Elements(u) \subseteq At(psq, d, f) /\ Elements(w) \subseteq At(psq, d, f)
      BY <1>2, QueuesType DEF At
    <3>2. psq'.suppressed[d][f] = u /\ psq'.delayed[d][f] = Append(w, p)
      BY <2>3 DEF Sorts
    <3>3. OrderedAt(d, f)
      BY DEF Ordered
    <3>4. Rising(Append(w, p)) /\ Elements(Append(w, p)) = Elements(w) \cup {p}
      <4>1. Rising(w) /\ \A q \in Elements(w) : q < p
        BY <1>5, <3>1, <3>3 DEF OrderedAt
      <4> HIDE DEF w
      <4>2. QED
        BY <3>1, <4>1, AppendRising
    <3>5. \A q \in Transit' : q \in Transit /\ pk'[q] = pk[q] /\ q < p
      BY <1>2, <1>4
    <3>6. \A q \in At(psq, d, f) : pk'[q].supp = pk[q].supp /\ q < p
      BY <1>2, <1>5
    <3> HIDE DEF u, w
    <3>7. QED
      BY <1>2, <3>1, <3>2, <3>3, <3>4, <3>5, <3>6 DEF OrderedAt, u, w
  <2>6. QED
    BY <2>4, <2>5 DEF Ordered
<1>9. QED
  BY <1>7, <1>8

(* A suppressed packet goes where it belongs.                              *)
LEMMA OrderSuppressed ==
  ASSUME Core, Ordered, NEW p \in Packets, TxSuppressed(p)
  PROVE  Ordered'
<1>1. PICK d \in Dests, f \in Fifos : d = pk[p].mac /\ f = pk[p].fifo
  BY DEF Core, Typed, Descs
<1>2. /\ Requeues(p) /\ psq' = Enq(psq, p, d, f, TRUE)
      /\ pk'[p].supp = TRUE /\ \A q \in Packets : q # p => pk'[q] = pk[q]
  BY <1>1, TxSuppressedStep
<1>3. p \in Transit /\ Transit' = Transit \ {p} /\ SameNames /\ Transit \subseteq Packets /\ psq \in Psqs
  BY <1>2, TransitType DEF Requeues, Core, Typed
<1>4. \A e \in Dests, g \in Fifos : \A q \in At(psq, e, g) : q \in Packets /\ q # p
  BY <1>3, WaitsOnce
<1>5. Joins(psq', psq, d, f, p) /\ Sorts(psq', psq, d, f, p, TRUE)
  <2>1. Joins(Enq(psq, p, d, f, TRUE), psq, d, f, p) /\ Sorts(Enq(psq, p, d, f, TRUE), psq, d, f, p, TRUE)
    BY <1>3, EnqEffect
  <2>2. QED
    BY <1>2, <2>1
<1>6. ASSUME NEW e \in Dests, NEW g \in Fifos, e # d \/ g # f PROVE OrderedAt(e, g)'
  <2>1. OrderedAt(e, g) /\ psq'.delayed[e][g] = psq.delayed[e][g] /\ psq'.suppressed[e][g] = psq.suppressed[e][g]
    BY <1>5, <1>6 DEF Ordered, Joins, Elsewhere
  <2>2. \A q \in At(psq, e, g) : pk'[q].supp = pk[q].supp
    BY <1>2, <1>4
  <2>3. \A q \in Transit' : pk'[q].mac = e /\ pk'[q].fifo = g => q \in Transit /\ pk[q].mac = e /\ pk[q].fifo = g
    BY <1>3 DEF SameNames
  <2>4. QED
    BY <2>1, <2>2, <2>3, OrderKept
<1>7. OrderedAt(d, f)'
  <2> DEFINE u == psq.suppressed[d][f]
             w == psq.delayed[d][f]
  <2>1. u \in Seq(Packets) /\ Elements(u) \subseteq At(psq, d, f) /\ Elements(w) \subseteq At(psq, d, f)
    BY <1>3, QueuesType DEF At
  <2>2. psq'.suppressed[d][f] = Insert(u, p) /\ psq'.delayed[d][f] = w
    BY <1>5 DEF Sorts
  <2>3. OrderedAt(d, f)
    BY DEF Ordered
  <2>4. Rising(Insert(u, p)) /\ Elements(Insert(u, p)) = Elements(u) \cup {p}
    <3>1. Rising(u) /\ p \notin Elements(u)
      BY <1>4, <2>1, <2>3 DEF OrderedAt
    <3> HIDE DEF u
    <3>2. QED
      BY <2>1, <3>1, InsertRising
  <2>5. \A q \in Transit' : q \in Transit /\ pk'[q].mac = pk[q].mac /\ pk'[q].fifo = pk[q].fifo
    BY <1>3 DEF SameNames
  <2>6. \A q \in At(psq, d, f) : pk'[q].supp = pk[q].supp
    BY <1>2, <1>4
  <2>7. \A q \in Elements(w) : p < q
    BY <1>1, <1>3, <2>3 DEF OrderedAt
  <2>8. Rising(psq'.delayed[d][f]) /\ Rising(psq'.suppressed[d][f])
    BY <2>2, <2>3, <2>4 DEF OrderedAt
  <2>9. ASSUME NEW q \in Elements(psq'.suppressed[d][f]) PROVE pk'[q].supp
    <3>1. q = p \/ (q \in Elements(u) /\ q \in At(psq, d, f))
      BY <2>1, <2>2, <2>4
    <3>2. QED
      BY <1>2, <2>3, <2>6, <3>1 DEF OrderedAt
  <2>10. ASSUME NEW q \in Elements(psq'.delayed[d][f])
         PROVE  /\ ~pk'[q].supp
                /\ \A r \in Elements(psq'.suppressed[d][f]) : r < q
                /\ \A r \in Transit' : pk'[r].mac = d /\ pk'[r].fifo = f => r < q
    <3>1. q \in Elements(w) /\ q \in At(psq, d, f)
      BY <2>1, <2>2
    <3>2. ~pk'[q].supp
      BY <2>3, <2>6, <3>1 DEF OrderedAt
    <3>3. \A r \in Elements(psq'.suppressed[d][f]) : r < q
      BY <2>2, <2>3, <2>4, <2>7, <3>1 DEF OrderedAt
    <3>4. \A r \in Transit' : pk'[r].mac = d /\ pk'[r].fifo = f => r < q
      BY <2>3, <2>5, <3>1 DEF OrderedAt
    <3>5. QED
      BY <3>2, <3>3, <3>4
  <2>11. QED
    BY <2>8, <2>9, <2>10 DEF OrderedAt
<1>8. QED
  BY <1>6, <1>7 DEF Ordered

LEMMA OrderStep ==
  ASSUME Core, Ordered, ~BusFails, wpc # "refused", [Next]_vars
  PROVE  Ordered'
<1>1. ASSUME psq' = psq, pk' = pk, Transit' \subseteq Transit PROVE Ordered'
  <2>1. ASSUME NEW d \in Dests, NEW f \in Fifos PROVE OrderedAt(d, f)'
    <3>1. OrderedAt(d, f)
      BY DEF Ordered
    <3>2. QED
      BY <1>1, <3>1, OrderKept
  <2>2. QED
    BY <2>1 DEF Ordered
<1>2. ASSUME Steady PROVE Ordered'
  BY <1>1, <1>2 DEF Steady
<1>3. ASSUME NEW p \in Packets, TxStatus(p) \/ TxSuppressedFull(p) \/ BusFailed(p) PROVE Ordered'
  <2>1. Tosses(p)
    BY <1>3, AnswersStep
  <2>2. QED
    BY <1>1, <2>1 DEF Tosses
<1>4. ASSUME NEW d \in Dests, MacdescDel(d) PROVE Ordered'
  <2>1. psq \in Psqs /\ psq' = Flushed(psq, d)
    BY <1>4, FlushStep DEF Core, Typed
  <2>2. Empties(psq', psq, d)
    BY <2>1, FlushedEffect
  <2>3. pk' = pk /\ Transit' = Transit
    BY <1>4, FlushSituated DEF Core
  <2>4. ASSUME NEW e \in Dests, NEW f \in Fifos PROVE OrderedAt(e, f)'
    <3>1. CASE e = d
      <4>1. psq'.delayed[e][f] = << >> /\ psq'.suppressed[e][f] = << >>
        BY <2>2, <3>1 DEF Empties
      <4>2. Rising(<< >>) /\ Elements(<< >>) = {}
        BY DEF Rising, Elements
      <4>3. QED
        BY <4>1, <4>2 DEF OrderedAt
    <3>2. CASE e # d
      <4>1. psq'.delayed[e][f] = psq.delayed[e][f] /\ psq'.suppressed[e][f] = psq.suppressed[e][f] /\ OrderedAt(e, f)
        BY <2>2, <3>2 DEF Empties, Ordered
      <4>2. QED
        BY <2>3, <4>1, OrderKept
    <3>3. QED
      BY <3>1, <3>2
  <2>5. QED
    BY <2>4 DEF Ordered
<1>5. CASE StackStep
  <2>1. ASSUME NEW t \in Traffic, ProcessSkb(t[1], t[2]) PROVE Ordered'
    BY <2>1, OrderAccepted, TrafficAssumption
  <2>2. QED
    BY <1>2, <1>5, <2>1, SchedulingSteps DEF StackStep
<1>6. CASE WorkerStep
  <2>1. CASE SendOwn \/ SendBorrowed
    BY <2>1, SendOwnStep, SendBorrowedStep, OrderSent
  <2>2. CASE StartWorker \/ OwnDone \/ BorrowDone \/ TxData \/ TxRefused \/ Relock
    BY <1>2, <2>2, StartWorkerStep, OwnDoneStep, BorrowDoneStep, TxDataStep, TxRefusedStep, RelockStep
  <2>3. CASE Rollback \/ RollbackFails
    BY <2>3 DEF Rollback, RollbackFails
  <2>4. QED
    BY <1>6, <2>1, <2>2, <2>3 DEF WorkerStep
<1>7. CASE SignalStep
  <2>1. ASSUME NEW d \in Dests, MacClose(d) \/ MacOpen(d) \/ MacRequest(d) \/ MacdescAdd(d) PROVE Ordered'
    BY <1>2, <2>1, EntrySteps
  <2>2. ASSUME NEW f \in Fifos, CreditBack(f) PROVE Ordered'
    BY <1>2, <2>2, CreditBackStep
  <2>3. CASE MarkSuppressed \/ RxSchedule
    BY <1>2, <2>3, SchedulingSteps
  <2>4. QED
    BY <1>3, <1>4, <1>7, <2>1, <2>2, <2>3, OrderSuppressed DEF SignalStep
<1>8. CASE BusStep
  BY <1>2, <1>3, <1>8, BusDoneStep, SchedulingSteps DEF BusStep
<1>9. CASE UNCHANGED vars
  BY <1>2, <1>9, IdleStep
<1>10. QED
  BY <1>5, <1>6, <1>7, <1>8, <1>9 DEF Next

LEMMA InitOrdered == Init => Ordered
<1> SUFFICES ASSUME Init, NEW d \in Dests, NEW f \in Fifos PROVE OrderedAt(d, f)
  BY DEF Ordered
<1>1. Rising(<< >>) /\ Elements(<< >>) = {}
  BY DEF Rising, Elements
<1>2. psq.delayed[d][f] = << >> /\ psq.suppressed[d][f] = << >>
  BY DEF Init
<1>3. QED
  BY <1>1, <1>2 DEF OrderedAt

(* The hand is filled by a send only.                                      *)
LEMMA DequeuesSends ==
  ASSUME Core, [Next]_vars, Dequeues
  PROVE  \E d \in Dests : Sends(d)
<1>1. hand = NoPkt /\ hand' # NoPkt
  BY DEF Dequeues
<1>2. CASE StackStep
  BY <1>1, <1>2 DEF StackStep, SkbSchedule, ProcessSkb, worker
<1>3. CASE WorkerStep
  BY <1>1, <1>3, SendOwnStep, SendBorrowedStep
     DEF WorkerStep, StartWorker, OwnDone, BorrowDone, TxData, TxRefused, Relock, Rollback, RollbackFails
<1>4. CASE SignalStep
  <2>1. hand' = hand
    BY <1>4 DEF SignalStep, TxStatus, TxSuppressed, TxSuppressedFull, MacClose, MacOpen, SetState, MacRequest,
                MacdescDel, MacdescAdd, CreditBack, MarkSuppressed, RxSchedule, worker
  <2>2. QED
    BY <1>1, <2>1
<1>5. CASE BusStep
  BY <1>1, <1>5 DEF BusStep, BusUnblocked, BusDone, BusFailed, worker
<1>6. CASE UNCHANGED vars
  BY <1>1, <1>6 DEF vars, worker
<1>7. QED
  BY <1>2, <1>3, <1>4, <1>5, <1>6 DEF Next

LEMMA SendsInTurn ==
  ASSUME Core, Ordered, TransitCounted, NEW d \in Dests, Sends(d)
  PROVE  InTurn(hand', pk[hand'].mac, pk[hand'].fifo)
<1>0. PICK f \in Fifos : f = wfifo
  BY DEF Core, TypedThreads
<1>1. PICK p \in Packets : p = hand'
  BY DEF Sends
<1>2. Takes(p, d, f) /\ Yields(d, f) /\ psq \in Psqs
  BY <1>0, <1>1 DEF Sends, Core, Typed
<1>3. p \notin Transit /\ p \in At(psq, d, f) /\ pk[p].mac = d /\ pk[p].fifo = f
  BY <1>2, TakesSituated DEF Core
<1> DEFINE u == psq.suppressed[d][f]
           w == psq.delayed[d][f]
<1>4. /\ u \in Seq(Packets) /\ w \in Seq(Packets)
      /\ (u = << >> <=> Elements(u) = {}) /\ Elements(u) \subseteq Packets /\ Elements(w) \subseteq Packets
  BY <1>2, QueuesType, ElementsType
<1>5. OrderedAt(d, f)
  BY DEF Ordered
<1>6. \/ u # << >> /\ p = Head(u)
      \/ u = << >> /\ w # << >> /\ p = Head(w)
  BY <1>2 DEF Takes, Leaves
<1>7. \A q \in QueuedAt(d, f) : p <= q
  <2>1. CASE u # << >> /\ p = Head(u)
    <3>1. Elements(u) = Elements(Tail(u)) \cup {p} /\ \A q \in Elements(Tail(u)) : p < q
      BY <1>4, <1>5, <2>1, Beheaded DEF OrderedAt
    <3>2. \A q \in Elements(w) : p < q
      BY <1>5, <3>1 DEF OrderedAt
    <3>3. \A q \in Packets : p < q \/ q = p => p <= q
      BY DEF Packets
    <3> HIDE DEF u, w
    <3>4. QED
      BY <1>4, <3>1, <3>2, <3>3 DEF QueuedAt, u, w
  <2>2. CASE u = << >> /\ w # << >> /\ p = Head(w)
    <3>1. Elements(w) = Elements(Tail(w)) \cup {p} /\ \A q \in Elements(Tail(w)) : p < q
      BY <1>4, <1>5, <2>2, Beheaded DEF OrderedAt
    <3>2. Elements(u) = {}
      BY <1>4, <2>2
    <3>3. \A q \in Packets : p < q \/ q = p => p <= q
      BY DEF Packets
    <3> HIDE DEF u, w
    <3>4. QED
      BY <1>4, <3>1, <3>2, <3>3 DEF QueuedAt, u, w
  <2>3. QED
    BY <1>6, <2>1, <2>2
<1>8. ASSUME mac[d].suppressed, ~pk[p].supp, NEW q \in Transit PROVE pk[q].mac # d
  <2>1. u = << >>
    <3>1. ASSUME u # << >> PROVE p \in Elements(u)
      <4>1. Elements(u) = Elements(Tail(u)) \cup {p}
        BY <1>4, <1>6, <3>1, Beheaded
      <4>2. QED
        BY <4>1
    <3>2. QED
      BY <1>5, <1>8, <3>1 DEF OrderedAt
  <2>2. mac[d].suppr = 0
    BY <1>2, <1>8, <2>1 DEF Yields, HoldsNew
  <2>3. Cardinality(Towards(d)) = 0 /\ IsFiniteSet(Towards(d))
    BY <1>8, <2>2, TowardsType DEF TransitCounted, Counted
  <2>4. Towards(d) = {}
    BY <2>3, FS_EmptySet
  <2>5. QED
    BY <2>4 DEF Towards
<1>9. QED
  BY <1>1, <1>3, <1>7, <1>8 DEF InTurn

(* While the bus takes every packet, the worker sends the earliest packet  *)
(* of a destination and FIFO, suppressed or new, and no new one of a       *)
(* suppressed destination that still awaits answers; nodes may come and go.*)
THEOREM SentInTurn ==
  ASSUME ~BusFails
  PROVE  Spec => EarliestFirst
<1> DEFINE Inv == Ordered /\ TransitCounted /\ wpc # "refused"
           Turned == Dequeues => InTurn(hand', pk[hand'].mac, pk[hand'].fifo)
<1>1. Core /\ Inv /\ [Next]_vars => Inv'
  BY CountedStep, OrderStep, RefusedStep
<1>2. Init => Inv
  BY InitCounted, InitOrdered
<1>3. Core /\ Inv /\ [Next]_vars => [Turned]_vars
  BY DequeuesSends, SendsInTurn
<1> HIDE DEF Inv
<1>4. QED
  BY <1>1, <1>2, <1>3, CoreAlways, PTL DEF Spec, EarliestFirst

(***************************************************************************)
(* No packet is lost.                                                      *)
(***************************************************************************)

(* A packet that is not finalised is on its way or waits.                  *)
Found(p) == fin[p] = 0 => p \in Transit \/ p \in At(psq, pk[p].mac, pk[p].fifo)
NoneLost == \A p \in Packets : p <= sent => Found(p)

(* A packet is accepted only while its queue has room.                     *)
Fits == sent' # sent => HasRoom(pk'[sent'].mac)

LEMMA FoundConserved == Core /\ NoneLost => PacketsConserved
<1> SUFFICES ASSUME Core, NoneLost, NEW p \in 1 .. sent
             PROVE  /\ Cardinality({q \in Dests \X Fifos : p \in QueuedAt(q[1], q[2])})
                         + (IF p \in InHand THEN 1 ELSE 0) + (IF p \in bus THEN 1 ELSE 0)
                         + (IF p \in dev THEN 1 ELSE 0) + fin[p] = 1
                    /\ fin[p] = 0 <=> hanger[pk[p].slot] = p
  BY DEF PacketsConserved
<1>1. p \in Packets /\ p <= sent /\ fin[p] \in {0, 1}
  <2>1. p \in Packets /\ p <= sent
    BY CountAssumption DEF Packets, Core, Typed
  <2>2. fin[p] \in Nat /\ fin[p] <= 1
    BY <2>1 DEF Core, Typed, Situated, Final
  <2>3. QED
    BY <2>1, <2>2
<1>2. fin[p] = 0 <=> hanger[pk[p].slot] = p
  BY <1>1 DEF Core, Situated, Hung
<1> DEFINE S == {q \in Dests \X Fifos : p \in QueuedAt(q[1], q[2])}
           here == (IF p \in InHand THEN 1 ELSE 0) + (IF p \in bus THEN 1 ELSE 0) + (IF p \in dev THEN 1 ELSE 0)
<1>3. \A d \in Dests, f \in Fifos : QueuedAt(d, f) = At(psq, d, f)
  BY DEF QueuedAt, At
<1>4. ASSUME NEW q \in S PROVE q = << pk[p].mac, pk[p].fifo >> /\ p \notin Transit /\ fin[p] = 0
  <2>1. PICK d \in Dests, f \in Fifos : q = << d, f >> /\ p \in At(psq, d, f)
    BY <1>3
  <2>2. Waits(d, f)
    BY DEF Core, Situated, Waiting
  <2>3. QED
    BY <2>1, <2>2 DEF Waits
<1>5. p \in Transit => fin[p] = 0 /\ here = 1
  <2>1. p \in Transit => fin[p] = 0
    BY DEF Core, Situated, OnWay
  <2>2. p \in Transit => here = 1
    BY DEF Core, Placed, Transit
  <2>3. QED
    BY <2>1, <2>2
<1>6. p \notin Transit => here = 0
  BY DEF Transit
<1>7. pk[p].mac \in Dests /\ pk[p].fifo \in Fifos
  BY <1>1 DEF Core, Typed, Descs
<1> DEFINE n == Cardinality(S)
           Once == n + (IF p \in InHand THEN 1 ELSE 0) + (IF p \in bus THEN 1 ELSE 0)
                     + (IF p \in dev THEN 1 ELSE 0) + fin[p] = 1
<1>8. ASSUME p \in Transit \/ fin[p] = 1 PROVE n + here + fin[p] = 1
  <2>1. S = {}
    BY <1>4, <1>8
  <2>2. Cardinality(S) = 0
    BY <2>1, FS_EmptySet
  <2>3. QED
    BY <1>5, <1>6, <1>8, <2>2
<1>9. ASSUME p \notin Transit, fin[p] = 0 PROVE n + here + fin[p] = 1
  <2>1. p \in At(psq, pk[p].mac, pk[p].fifo)
    BY <1>1, <1>9 DEF NoneLost, Found
  <2>2. << pk[p].mac, pk[p].fifo >> \in S
    BY <1>3, <1>7, <2>1
  <2>3. S = {<< pk[p].mac, pk[p].fifo >>}
    BY <1>4, <2>2
  <2>4. Cardinality(S) = 1
    BY <2>3, FS_Singleton
  <2>5. QED
    BY <1>6, <1>9, <2>4
<1>10. n \in Nat
  <2>1. IsFiniteSet(S)
    <3> DEFINE x == << pk[p].mac, pk[p].fifo >>
    <3>1. \A q \in S : q \in {x}
      BY <1>4
    <3> HIDE DEF S, x
    <3>2. S \subseteq {x} /\ IsFiniteSet({x})
      BY <3>1, FS_Singleton
    <3>3. QED
      BY <3>2, FS_Subset
  <2> HIDE DEF S
  <2>2. QED
    BY <2>1, FS_CardinalityType
<1>11. Once
  <2> HIDE DEF n
  <2>1. n + here + fin[p] = 1
    BY <1>1, <1>8, <1>9
  <2>2. QED
    BY <1>1, <1>10, <2>1
<1>12. QED
  BY <1>2, <1>11, Zenon

LEMMA NoneLostStep ==
  ASSUME Core, NoneLost, Fits, [Next]_vars
  PROVE  NoneLost'
<1>1. ASSUME Steady PROVE NoneLost'
  BY <1>1 DEF Steady, NoneLost, Found
<1>2. ASSUME NEW d \in Dests, Sends(d) PROVE NoneLost'
  <2>0. PICK f \in Fifos : f = wfifo
    BY DEF Core, TypedThreads
  <2>1. PICK p \in Packets : p = hand'
    BY <1>2 DEF Sends
  <2>2. Takes(p, d, f)
    BY <1>2, <2>0, <2>1 DEF Sends
  <2>3. /\ At(psq', d, f) = At(psq, d, f) \ {p}
        /\ \A e \in Dests, g \in Fifos : e # d \/ g # f => At(psq', e, g) = At(psq, e, g)
    BY <2>2, TakesSituated DEF Core
  <2>4. Transit' = Transit \cup {p} /\ SameNames /\ sent' = sent /\ fin' = fin
    BY <2>2 DEF Takes
  <2>5. ASSUME NEW q \in Packets, q <= sent', fin'[q] = 0
        PROVE  q \in Transit' \/ q \in At(psq', pk'[q].mac, pk'[q].fifo)
    <3>1. q \in Transit \/ q \in At(psq, pk[q].mac, pk[q].fifo)
      BY <2>4, <2>5 DEF NoneLost, Found
    <3>2. pk[q].mac \in Dests /\ pk[q].fifo \in Fifos
      BY DEF Core, Typed, Descs
    <3>3. pk'[q].mac = pk[q].mac /\ pk'[q].fifo = pk[q].fifo
      BY <2>4 DEF SameNames
    <3>4. QED
      BY <2>3, <2>4, <3>1, <3>2, <3>3
  <2>6. QED
    BY <2>5 DEF NoneLost, Found
<1>3. ASSUME NEW p \in Packets, Requeues(p) PROVE NoneLost'
  <2>1. /\ At(psq', pk[p].mac, pk[p].fifo) = At(psq, pk[p].mac, pk[p].fifo) \cup {p}
        /\ \A e \in Dests, g \in Fifos : e # pk[p].mac \/ g # pk[p].fifo => At(psq', e, g) = At(psq, e, g)
    BY <1>3, RequeuesSituated DEF Core
  <2>2. Transit' = Transit \ {p} /\ SameNames /\ sent' = sent /\ fin' = fin
    BY <1>3 DEF Requeues
  <2>3. ASSUME NEW q \in Packets, q <= sent', fin'[q] = 0
        PROVE  q \in Transit' \/ q \in At(psq', pk'[q].mac, pk'[q].fifo)
    <3>1. q \in Transit \/ q \in At(psq, pk[q].mac, pk[q].fifo)
      BY <2>2, <2>3 DEF NoneLost, Found
    <3>2. pk[q].mac \in Dests /\ pk[q].fifo \in Fifos
      BY DEF Core, Typed, Descs
    <3>3. pk'[q].mac = pk[q].mac /\ pk'[q].fifo = pk[q].fifo
      BY <2>2 DEF SameNames
    <3>4. QED
      BY <2>1, <2>2, <3>1, <3>2, <3>3
  <2>4. QED
    BY <2>3 DEF NoneLost, Found
<1>4. ASSUME NEW p \in Packets, Tosses(p) PROVE NoneLost'
  <2>1. Transit' = Transit \ {p} /\ UNCHANGED << pk, sent, psq >>
    BY <1>4 DEF Tosses
  <2>2. fin' = [fin EXCEPT ![p] = @ + 1] /\ fin \in [Packets -> Nat]
    BY <1>4 DEF Tosses, Tossed, Core, Typed
  <2>3. ASSUME NEW q \in Packets, q <= sent, fin'[q] = 0 PROVE q # p /\ Found(q) /\ fin[q] = 0
    <3>1. fin'[p] # 0
      BY <2>2
    <3>2. QED
      BY <2>2, <2>3, <3>1 DEF NoneLost
  <2>4. QED
    BY <2>1, <2>3 DEF NoneLost, Found
<1>5. ASSUME NEW d \in Dests, NEW f \in Fifos, ProcessSkb(d, f) PROVE NoneLost'
  <2>0. /\ sent' = sent + 1 /\ Transit' = Transit /\ fin' = fin
        /\ pk'[sent + 1].mac = d /\ pk'[sent + 1].fifo = f
        /\ \A q \in Packets : q # sent + 1 => pk'[q] = pk[q]
        /\ \A e \in Dests, g \in Fifos :
             At(psq', e, g) = At(psq, e, g) \cup (IF e = d /\ g = f /\ HasRoom(d) THEN {sent + 1} ELSE {})
    BY <1>5, AcceptSituated DEF Core
  <2>1. PICK p \in Packets : p = sent + 1
    BY <1>5, AcceptSituated DEF Core
  <2>2. /\ sent' = p /\ Transit' = Transit /\ fin' = fin /\ pk'[p].mac = d /\ pk'[p].fifo = f
        /\ \A q \in Packets : q # p => pk'[q] = pk[q]
        /\ \A e \in Dests, g \in Fifos :
             At(psq', e, g) = At(psq, e, g) \cup (IF e = d /\ g = f /\ HasRoom(d) THEN {p} ELSE {})
    BY <2>0, <2>1
  <2>3. HasRoom(d)
    <3>1. sent' # sent
      BY <2>1, <2>2 DEF Core, Typed
    <3>2. QED
      BY <2>2, <3>1 DEF Fits
  <2>4. ASSUME NEW q \in Packets, q <= sent', fin'[q] = 0
        PROVE  q \in Transit' \/ q \in At(psq', pk'[q].mac, pk'[q].fifo)
    <3>1. CASE q = p
      BY <2>2, <2>3, <3>1
    <3>2. CASE q # p
      <4>1. q <= sent
        BY <2>1, <2>2, <2>4, <3>2 DEF Packets, Core, Typed
      <4>2. q \in Transit \/ q \in At(psq, pk[q].mac, pk[q].fifo)
        BY <2>2, <2>4, <4>1 DEF NoneLost, Found
      <4>3. pk[q].mac \in Dests /\ pk[q].fifo \in Fifos
        BY DEF Core, Typed, Descs
      <4>4. QED
        BY <2>2, <3>2, <4>2, <4>3
    <3>3. QED
      BY <3>1, <3>2
  <2>5. QED
    BY <2>4 DEF NoneLost, Found
<1>6. ASSUME NEW d \in Dests, MacdescDel(d) PROVE NoneLost'
  <2>1. /\ Transit' = Transit /\ UNCHANGED << pk, sent >>
        /\ \A p \in Packets : fin'[p] = IF p \in QueuedFor(psq, d) THEN 1 ELSE fin[p]
        /\ \A e \in Dests, g \in Fifos : At(psq', e, g) = IF e = d THEN {} ELSE At(psq, e, g)
    BY <1>6, FlushSituated DEF Core
  <2>2. QueuedFor(psq, d) = UNION {At(psq, d, f) : f \in Fifos}
    BY AtType DEF Core, Typed
  <2>3. ASSUME NEW q \in Packets, q <= sent, fin'[q] = 0
        PROVE  q \in Transit \/ q \in At(psq', pk[q].mac, pk[q].fifo)
    <3>1. q \notin QueuedFor(psq, d) /\ fin[q] = 0
      BY <2>1, <2>3
    <3>2. q \in Transit \/ q \in At(psq, pk[q].mac, pk[q].fifo)
      BY <2>3, <3>1 DEF NoneLost, Found
    <3>3. pk[q].mac \in Dests /\ pk[q].fifo \in Fifos
      BY DEF Core, Typed, Descs
    <3>4. QED
      BY <2>1, <2>2, <3>1, <3>2, <3>3
  <2>4. QED
    BY <2>1, <2>3 DEF NoneLost, Found
<1>7. CASE StackStep
  <2>1. ASSUME NEW t \in Traffic, ProcessSkb(t[1], t[2]) PROVE NoneLost'
    BY <1>5, <2>1, TrafficAssumption
  <2>2. QED
    BY <1>1, <1>7, <2>1, SchedulingSteps DEF StackStep
<1>8. CASE WorkerStep
  <2>1. CASE SendOwn \/ SendBorrowed
    BY <1>2, <2>1, SendOwnStep, SendBorrowedStep
  <2>2. CASE StartWorker \/ OwnDone \/ BorrowDone \/ TxData \/ TxRefused \/ Relock
    BY <1>1, <2>2, StartWorkerStep, OwnDoneStep, BorrowDoneStep, TxDataStep, TxRefusedStep, RelockStep
  <2>3. CASE Rollback
    BY <1>3, <2>3, RollbackStep
  <2>4. CASE RollbackFails
    BY <1>4, <2>4, RollbackFailsStep
  <2>5. QED
    BY <1>8, <2>1, <2>2, <2>3, <2>4 DEF WorkerStep
<1>9. ASSUME NEW p \in Packets, TxStatus(p) \/ TxSuppressedFull(p) \/ BusFailed(p) PROVE NoneLost'
  BY <1>4, <1>9, AnswersStep
<1>10. CASE SignalStep
  <2>1. ASSUME NEW p \in Packets, TxSuppressed(p) PROVE NoneLost'
    BY <1>3, <2>1, TxSuppressedStep
  <2>2. ASSUME NEW d \in Dests, MacClose(d) \/ MacOpen(d) \/ MacRequest(d) \/ MacdescAdd(d) PROVE NoneLost'
    BY <1>1, <2>2, EntrySteps
  <2>3. ASSUME NEW f \in Fifos, CreditBack(f) PROVE NoneLost'
    BY <1>1, <2>3, CreditBackStep
  <2>4. CASE MarkSuppressed \/ RxSchedule
    BY <1>1, <2>4, SchedulingSteps
  <2>5. QED
    BY <1>6, <1>9, <1>10, <2>1, <2>2, <2>3, <2>4 DEF SignalStep
<1>11. CASE BusStep
  BY <1>1, <1>9, <1>11, BusDoneStep, SchedulingSteps DEF BusStep
<1>12. CASE UNCHANGED vars
  BY <1>1, <1>12, IdleStep
<1>13. QED
  BY <1>7, <1>8, <1>10, <1>11, <1>12 DEF Next

LEMMA InitNoneLost == Init => NoneLost
  BY CountAssumption DEF Init, NoneLost, Packets

(* A packet that its queue has no room for is lost: nothing holds it, and  *)
(* it is never finalised.  None is lost while none is accepted so.         *)
THEOREM KeptWithRoom == Spec /\ [][Fits]_vars => []PacketsConserved
<1>1. Core /\ NoneLost /\ [Fits]_vars /\ [Next]_vars => NoneLost'
  <2>1. ASSUME Core, NoneLost, UNCHANGED vars PROVE NoneLost'
    <3>1. Steady
      BY <2>1, IdleStep
    <3>2. QED
      BY <2>1, <3>1 DEF Steady, NoneLost, Found
  <2>2. QED
    BY <2>1, NoneLostStep
<1>2. QED
  BY <1>1, InitNoneLost, FoundConserved, CoreAlways, PTL DEF Spec

(***************************************************************************)
(* One destination: the high water mark leaves room, as the queue that is  *)
(* checked is the one that packets are accepted into.  A packet in hand    *)
(* may come back without a check.                                          *)
(***************************************************************************)

AllFor(d) == \A p \in Packets : p <= sent => pk[p].mac = d
Within(d) == ~psq.stop => PsqCount(psq, d) <= (IF InHand = {} THEN Hi ELSE Hi - 1)
OneFor(d) == AllFor(d) /\ Within(d)

LEMMA FlowCheckBelow ==
  ASSUME NEW stop \in BOOLEAN, NEW n \in Nat
  PROVE  ~FlowCheck(stop, n) => n < Hi
<1>1. Hi \in Nat /\ Low \in Nat /\ Low < Hi
  BY WaterAssumption
<1>2. CASE stop = TRUE
  BY <1>1, <1>2 DEF FlowCheck
<1>3. CASE stop = FALSE
  BY <1>1, <1>3 DEF FlowCheck
<1>4. QED
  BY <1>2, <1>3

LEMMA RecheckedWithin ==
  ASSUME Core, psq' \in Psqs, NEW d \in Dests, Rechecked(psq', psq, d)
  PROVE  Within(d)'
<1>1. psq.stop \in BOOLEAN /\ PsqCount(psq', d) \in Nat /\ Hi \in Nat /\ Low \in Nat /\ Low < Hi
  BY AtType, WaterAssumption DEF Core, Typed, Psqs
<1>2. ~psq'.stop => PsqCount(psq', d) < Hi
  BY <1>1, FlowCheckBelow DEF Rechecked
<1>3. ~psq'.stop => PsqCount(psq', d) <= Hi /\ PsqCount(psq', d) <= Hi - 1
  BY <1>1, <1>2
<1>4. QED
  BY <1>3 DEF Within

LEMMA WithinKept ==
  ASSUME NEW d \in Dests, Within(d), QueuedFor(psq', d) = QueuedFor(psq, d), psq'.stop = psq.stop,
         InHand = {} => InHand' = {}, Core
  PROVE  Within(d)'
<1>1. PsqCount(psq', d) = PsqCount(psq, d) /\ PsqCount(psq, d) \in Nat /\ Hi \in Nat
  BY AtType, WaterAssumption DEF PsqCount, Core, Typed
<1>2. ~psq'.stop => PsqCount(psq', d) <= (IF InHand' = {} THEN Hi ELSE Hi - 1)
  <2>1. CASE InHand = {}
    BY <1>1, <2>1 DEF Within
  <2>2. CASE InHand # {}
    <3>1. ~psq'.stop => PsqCount(psq', d) <= Hi - 1
      BY <1>1, <2>2 DEF Within
    <3>2. QED
      BY <1>1, <3>1
  <2>3. QED
    BY <2>1, <2>2
<1>3. QED
  BY <1>2 DEF Within

(* Only a send fills the hand.                                             *)
LEMMA HandKept ==
  ASSUME Core, [Next]_vars, ~(SendOwn \/ SendBorrowed), InHand = {}
  PROVE  InHand' = {}
<1>1. wpc \notin {"tx", "refused"} /\ wfifo \in Fifos /\ wphase \in {"own", "borrow"}
  BY DEF InHand, Core, TypedThreads
<1>2. wpc' \notin {"tx", "refused"}
  <2>1. CASE StackStep
    BY <1>1, <2>1 DEF StackStep, SkbSchedule, ProcessSkb, worker
  <2>2. CASE WorkerStep
    <3>1. CASE StartWorker
      BY <1>1, <3>1 DEF StartWorker
    <3>2. CASE OwnDone \/ BorrowDone
      BY <1>1, <3>2, OnwardType DEF OwnDone, BorrowDone
    <3>3. CASE TxData \/ TxRefused \/ Rollback \/ RollbackFails
      BY <1>1, <3>3 DEF TxData, TxRefused, Rollback, RollbackFails
    <3>4. CASE Relock
      BY <1>1, <3>4 DEF Relock
    <3>5. QED
      BY <2>2, <3>1, <3>2, <3>3, <3>4 DEF WorkerStep
  <2>3. CASE SignalStep
    BY <1>1, <2>3 DEF SignalStep, TxStatus, TxSuppressed, TxSuppressedFull, MacClose, MacOpen, SetState, MacRequest,
                      MacdescDel, MacdescAdd, CreditBack, MarkSuppressed, RxSchedule, worker
  <2>4. CASE BusStep
    BY <1>1, <2>4 DEF BusStep, BusUnblocked, BusDone, BusFailed, worker
  <2>5. CASE UNCHANGED vars
    BY <1>1, <2>5 DEF vars, worker
  <2>6. QED
    BY <2>1, <2>2, <2>3, <2>4, <2>5 DEF Next
<1>3. QED
  BY <1>2 DEF InHand

(* The packet in hand comes back to its queue.                             *)
LEMMA RollbackWithin ==
  ASSUME Core, NEW d \in Dests, OneFor(d), Rollback
  PROVE  Within(d)'
<1>1. /\ Requeues(hand) /\ hand \in Packets /\ psq'.stop = psq.stop /\ psq \in Psqs /\ psq' \in Psqs
  BY RollbackStep DEF Core, Typed, Requeues
<1>2. pk[hand].mac = d /\ pk[hand].fifo \in Fifos
  BY <1>1 DEF OneFor, AllFor, Requeues, Core, Situated, OnWay, Typed, Descs
<1>3. InHand # {}
  BY DEF Rollback, InHand
<1>4. /\ QueuedFor(psq, d) = UNION {At(psq, d, f) : f \in Fifos} /\ IsFiniteSet(QueuedFor(psq, d))
      /\ QueuedFor(psq', d) = UNION {At(psq', d, f) : f \in Fifos} /\ IsFiniteSet(QueuedFor(psq', d))
      /\ PsqCount(psq, d) \in Nat /\ PsqCount(psq', d) \in Nat
  BY <1>1, AtType
<1>5. \A g \in Fifos : At(psq', d, g) \subseteq At(psq, d, g) \cup {hand}
  BY <1>1, <1>2, RequeuesSituated DEF Core
<1>6. QueuedFor(psq', d) \subseteq QueuedFor(psq, d) \cup {hand}
  BY <1>4, <1>5
<1>7. PsqCount(psq', d) <= PsqCount(psq, d) + 1
  <2> DEFINE Q == QueuedFor(psq, d)
             R == QueuedFor(psq', d)
  <2>1. /\ IsFiniteSet(Q \cup {hand})
        /\ Cardinality(Q \cup {hand}) = (IF hand \in Q THEN Cardinality(Q) ELSE Cardinality(Q) + 1)
    BY <1>4, FS_AddElement
  <2>2. Cardinality(R) <= Cardinality(Q \cup {hand})
    BY <1>6, <2>1, FS_Subset
  <2>3. Cardinality(Q) \in Nat /\ Cardinality(R) \in Nat
    BY <1>4 DEF PsqCount
  <2> HIDE DEF Q, R
  <2>4. Cardinality(R) <= Cardinality(Q) + 1
    BY <2>1, <2>2, <2>3
  <2>5. QED
    BY <2>4 DEF Q, R, PsqCount
<1>8. InHand' = {}
  <2>1. wpc' \in {"idle", "own", "borrow"}
    BY OnwardType DEF Rollback, Core, TypedThreads
  <2>2. QED
    BY <2>1 DEF InHand
<1>9. ~psq'.stop => PsqCount(psq', d) <= Hi
  <2>1. ~psq.stop => PsqCount(psq, d) <= Hi - 1
    BY <1>3 DEF OneFor, Within
  <2>2. QED
    BY <1>1, <1>4, <1>7, <2>1, WaterAssumption
<1>10. QED
  BY <1>8, <1>9 DEF Within

LEMMA FlushWithin ==
  ASSUME Core, NEW d \in Dests, OneFor(d), NEW e \in Dests, MacdescDel(e)
  PROVE  Within(d)'
<1>1. psq \in Psqs
  BY DEF Core, Typed
<1>2. /\ psq' \in Psqs /\ psq'.stop = (IF QueuedFor(psq, e) = {} THEN psq.stop ELSE FALSE)
      /\ \A c \in Dests, g \in Fifos : At(psq', c, g) = IF c = e THEN {} ELSE At(psq, c, g)
  <2>1. psq' = Flushed(psq, e)
    BY DEF MacdescDel
  <2>2. psq' \in Psqs /\ psq'.stop = (IF QueuedFor(psq, e) = {} THEN psq.stop ELSE FALSE)
    BY <1>1, <2>1, FlushedEffect
  <2>3. QED
    BY <2>2, FlushSituated DEF Core
<1>3. /\ QueuedFor(psq, d) = UNION {At(psq, d, f) : f \in Fifos}
      /\ QueuedFor(psq, e) = UNION {At(psq, e, f) : f \in Fifos}
      /\ QueuedFor(psq', d) = UNION {At(psq', d, f) : f \in Fifos}
  BY <1>1, <1>2, AtType
<1>4. CASE e = d
  <2>1. QueuedFor(psq', d) = {}
    BY <1>2, <1>3, <1>4
  <2>2. PsqCount(psq', d) = 0
    BY <2>1, FS_EmptySet DEF PsqCount
  <2>3. 0 <= Hi /\ 0 <= Hi - 1
    BY WaterAssumption
  <2>4. QED
    BY <2>2, <2>3 DEF Within
<1>5. CASE e # d
  <2>1. \A f \in Fifos : At(psq, e, f) = {}
    <3>1. ASSUME NEW f \in Fifos, NEW p \in At(psq, e, f) PROVE FALSE
      <4>1. pk[p].mac = e /\ p <= sent /\ p \in Packets
        BY <1>1, AtType DEF Core, Situated, Waiting, Waits
      <4>2. QED
        BY <1>5, <4>1 DEF OneFor, AllFor
    <3>2. QED
      BY <3>1
  <2>2. psq'.stop = psq.stop
    <3>1. QueuedFor(psq, e) = {}
      BY <1>3, <2>1
    <3>2. QED
      BY <1>2, <3>1
  <2>3. QueuedFor(psq', d) = QueuedFor(psq, d)
    BY <1>2, <1>3, <1>5
  <2>4. InHand' = InHand
    BY DEF MacdescDel, worker, InHand
  <2>5. QED
    BY <2>2, <2>3, <2>4, WithinKept DEF OneFor
<1>6. QED
  BY <1>4, <1>5

LEMMA OneForStep ==
  ASSUME NEW d \in Dests, \A t \in Traffic : t[1] = d, Core, OneFor(d), [Next]_vars
  PROVE  OneFor(d)'
<1>0. Core' /\ psq \in Psqs /\ psq' \in Psqs
  BY CoreStep DEF Core, Typed
<1>1. ASSUME Steady, ~(SendOwn \/ SendBorrowed) PROVE OneFor(d)'
  <2>1. AllFor(d)'
    BY <1>1 DEF Steady, OneFor, AllFor
  <2>2. QueuedFor(psq', d) = QueuedFor(psq, d) /\ psq'.stop = psq.stop
    BY <1>1 DEF Steady
  <2>3. Within(d)'
    BY <1>1, <2>2, HandKept, WithinKept DEF OneFor
  <2>4. QED
    BY <2>1, <2>3 DEF OneFor
<1>2. ASSUME NEW p \in Packets, Tosses(p), ~(SendOwn \/ SendBorrowed) PROVE OneFor(d)'
  <2>1. AllFor(d)'
    BY <1>2 DEF Tosses, OneFor, AllFor
  <2>2. QueuedFor(psq', d) = QueuedFor(psq, d) /\ psq'.stop = psq.stop
    BY <1>2 DEF Tosses
  <2>3. Within(d)'
    BY <1>2, <2>2, HandKept, WithinKept DEF OneFor
  <2>4. QED
    BY <2>1, <2>3 DEF OneFor
<1>3. ASSUME NEW e \in Dests, Sends(e) PROVE OneFor(d)'
  <2>0. PICK f \in Fifos : f = wfifo
    BY DEF Core, TypedThreads
  <2>1. PICK p \in Packets : p = hand'
    BY <1>3 DEF Sends
  <2>2. Takes(p, e, f) /\ (psq.suppressed[e][f] # << >> \/ psq.delayed[e][f] # << >>)
    BY <1>3, <2>0, <2>1 DEF Sends, Yields
  <2>3. p \in At(psq, e, f)
    BY <2>2, TakesSituated DEF Core
  <2>4. e = d
    BY <2>3 DEF Core, Situated, Waiting, Waits, OneFor, AllFor
  <2>5. AllFor(d)'
    BY <2>2 DEF Takes, SameNames, OneFor, AllFor
  <2>6. Rechecked(psq', psq, d)
    <3>1. psq' = Deq(psq, d, f)
      BY <1>3, <2>0, <2>4 DEF Sends
    <3>2. Rechecked(Deq(psq, d, f), psq, d)
      BY <1>0, <2>2, <2>4, DeqEffect
    <3>3. QED
      BY <3>1, <3>2
  <2>7. QED
    BY <1>0, <2>5, <2>6, RecheckedWithin DEF OneFor
<1>4. CASE StackStep
  <2>1. CASE SkbSchedule
    BY <1>1, <2>1, SchedulingSteps DEF SkbSchedule, Unlocked, SendOwn, SendBorrowed
  <2>2. ASSUME NEW t \in Traffic, ProcessSkb(t[1], t[2]) PROVE OneFor(d)'
    <3>1. t[1] = d /\ t[2] \in Fifos /\ sent \in Nat
      BY TrafficAssumption DEF Core, Typed
    <3>2. PICK f \in Fifos : f = t[2]
      BY <3>1
    <3>3. ProcessSkb(d, f)
      BY <2>2, <3>1, <3>2
    <3>4. sent + 1 \in Packets /\ sent' = sent + 1 /\ pk'[sent + 1].mac = d /\ \A q \in Packets : q # sent + 1 => pk'[q] = pk[q]
      BY <3>3, AcceptSituated DEF Core
    <3>5. AllFor(d)'
      <4>1. ASSUME NEW q \in Packets, q <= sent' PROVE pk'[q].mac = d
        <5>1. CASE q = sent + 1
          BY <3>4, <5>1
        <5>2. CASE q # sent + 1
          <6>1. q <= sent
            BY <3>1, <3>4, <4>1, <5>2 DEF Packets
          <6>2. QED
            BY <3>4, <5>2, <6>1 DEF OneFor, AllFor
        <5>3. QED
          BY <5>1, <5>2
      <4>2. QED
        BY <4>1 DEF AllFor
    <3>6. Within(d)'
      <4>1. CASE HasRoom(d)
        <5>1. psq' = Enq(psq, sent + 1, d, f, FALSE) /\ FALSE \in BOOLEAN
          BY <3>3, <4>1 DEF ProcessSkb
        <5>2. Rechecked(Enq(psq, sent + 1, d, f, FALSE), psq, d)
          BY <1>0, <3>4, EnqEffect
        <5>3. Rechecked(psq', psq, d)
          BY <5>1, <5>2
        <5>4. QED
          BY <1>0, <5>3, RecheckedWithin
      <4>2. CASE ~HasRoom(d)
        <5>1. psq' = psq /\ InHand' = InHand
          BY <3>3, <4>2 DEF ProcessSkb, worker, InHand
        <5>2. QED
          BY <5>1, WithinKept DEF OneFor
      <4>3. QED
        BY <4>1, <4>2
    <3>7. QED
      BY <3>5, <3>6 DEF OneFor
  <2>3. QED
    BY <1>4, <2>1, <2>2 DEF StackStep
<1>5. CASE SendOwn \/ SendBorrowed
  BY <1>3, <1>5, SendOwnStep, SendBorrowedStep
<1>6. CASE WorkerStep /\ ~(SendOwn \/ SendBorrowed)
  <2>1. CASE StartWorker \/ OwnDone \/ BorrowDone \/ TxData \/ TxRefused \/ Relock
    BY <1>1, <1>6, <2>1, StartWorkerStep, OwnDoneStep, BorrowDoneStep, TxDataStep, TxRefusedStep, RelockStep
  <2>2. CASE Rollback
    <3>1. AllFor(d)'
      BY <2>2, RollbackStep DEF Requeues, SameNames, OneFor, AllFor
    <3>2. QED
      BY <2>2, <3>1, RollbackWithin DEF OneFor
  <2>3. CASE RollbackFails
    BY <1>2, <1>6, <2>3, RollbackFailsStep
  <2>4. QED
    BY <1>6, <2>1, <2>2, <2>3 DEF WorkerStep
<1>7. ASSUME NEW p \in Packets, TxSuppressed(p) PROVE OneFor(d)'
  <2>1. Requeues(p) /\ psq' = Enq(psq, p, pk[p].mac, pk[p].fifo, TRUE)
    BY <1>7, TxSuppressedStep
  <2>2. pk[p].mac = d /\ pk[p].fifo \in Fifos
    BY <2>1 DEF Requeues, Core, Situated, OnWay, OneFor, AllFor, Typed, Descs
  <2>3. AllFor(d)'
    BY <2>1 DEF Requeues, SameNames, OneFor, AllFor
  <2>4. Rechecked(Enq(psq, p, d, pk[p].fifo, TRUE), psq, d)
    BY <1>0, <2>2, EnqEffect
  <2>5. Rechecked(psq', psq, d)
    BY <2>1, <2>2, <2>4
  <2>6. QED
    BY <1>0, <2>3, <2>5, RecheckedWithin DEF OneFor
<1>8. CASE SignalStep /\ ~(SendOwn \/ SendBorrowed)
  <2>1. ASSUME NEW p \in Packets, TxStatus(p) \/ TxSuppressedFull(p) PROVE OneFor(d)'
    BY <1>2, <1>8, <2>1, AnswersStep
  <2>2. ASSUME NEW e \in Dests, MacClose(e) \/ MacOpen(e) \/ MacRequest(e) \/ MacdescAdd(e) PROVE OneFor(d)'
    BY <1>1, <1>8, <2>2, EntrySteps
  <2>3. ASSUME NEW e \in Dests, MacdescDel(e) PROVE OneFor(d)'
    <3>1. AllFor(d)'
      BY <2>3 DEF MacdescDel, OneFor, AllFor
    <3>2. QED
      BY <2>3, <3>1, FlushWithin DEF OneFor
  <2>4. ASSUME NEW f \in Fifos, CreditBack(f) PROVE OneFor(d)'
    BY <1>1, <1>8, <2>4, CreditBackStep
  <2>5. CASE MarkSuppressed \/ RxSchedule
    BY <1>1, <1>8, <2>5, SchedulingSteps
  <2>6. QED
    BY <1>7, <1>8, <2>1, <2>2, <2>3, <2>4, <2>5 DEF SignalStep
<1>9. CASE BusStep /\ ~(SendOwn \/ SendBorrowed)
  <2>1. ASSUME NEW p \in Packets, BusFailed(p) PROVE OneFor(d)'
    BY <1>2, <1>9, <2>1, AnswersStep
  <2>2. ASSUME NEW p \in Packets, BusDone(p) PROVE OneFor(d)'
    BY <1>1, <1>9, <2>2, BusDoneStep
  <2>3. CASE BusUnblocked
    BY <1>1, <1>9, <2>3, SchedulingSteps
  <2>4. QED
    BY <1>9, <2>1, <2>2, <2>3 DEF BusStep
<1>10. CASE UNCHANGED vars
  <2>1. Steady /\ InHand' = InHand
    BY <1>10, IdleStep DEF worker, InHand
  <2>2. AllFor(d)'
    BY <2>1 DEF Steady, OneFor, AllFor
  <2>3. QueuedFor(psq', d) = QueuedFor(psq, d) /\ psq'.stop = psq.stop
    BY <2>1 DEF Steady
  <2>4. QED
    BY <2>1, <2>2, <2>3, WithinKept DEF OneFor
<1>11. QED
  BY <1>4, <1>5, <1>6, <1>8, <1>9, <1>10 DEF Next

LEMMA OneForFits ==
  ASSUME NEW d \in Dests, \A t \in Traffic : t[1] = d, Hi < PsqLen, Core, OneFor(d), [Next]_vars
  PROVE  Fits
<1> SUFFICES ASSUME sent' # sent PROVE HasRoom(pk'[sent'].mac)
  BY DEF Fits
<1>1. PICK t \in Traffic : ProcessSkb(t[1], t[2])
  <2>1. StackStep \/ sent' = sent
    BY DEF Next, WorkerStep, SignalStep, BusStep, vars, StartWorker, SendOwn, OwnDone, SendBorrowed, BorrowDone,
           Commit, TxData, TxRefused, Relock, Rollback, RollbackFails, TxStatus, TxSuppressed, TxSuppressedFull,
           MacClose, MacOpen, SetState, MacRequest, MacdescDel, MacdescAdd, CreditBack, MarkSuppressed, RxSchedule,
           BusUnblocked, BusDone, BusFailed
  <2>2. QED
    BY <2>1 DEF StackStep, SkbSchedule
<1>2. t[1] = d /\ t[2] \in Fifos
  BY TrafficAssumption
<1>3. PICK f \in Fifos : f = t[2]
  BY <1>2
<1>4. ProcessSkb(d, f)
  BY <1>1, <1>2, <1>3
<1>5. sent' = sent + 1 /\ pk'[sent + 1].mac = d
  BY <1>4, AcceptSituated DEF Core
<1>6. pk'[sent'].mac = d
  BY <1>5
<1>7. ~psq.stop
  BY <1>4 DEF ProcessSkb
<1>8. PsqCount(psq, d) \in Nat /\ Hi \in Nat /\ PsqLen \in Nat
  BY AtType, WaterAssumption DEF Core, Typed
<1>9. PsqCount(psq, d) <= Hi
  <2>1. PsqCount(psq, d) <= (IF InHand = {} THEN Hi ELSE Hi - 1)
    BY <1>7 DEF OneFor, Within
  <2>2. QED
    BY <1>8, <2>1
<1>10. QED
  BY <1>6, <1>8, <1>9 DEF HasRoom

LEMMA InitOneFor == ASSUME NEW d \in Dests PROVE Init => OneFor(d)
<1> SUFFICES ASSUME Init PROVE OneFor(d)
  OBVIOUS
<1>1. AllFor(d)
  BY CountAssumption DEF Init, AllFor, Packets
<1>2. Within(d)
  <2>1. QueuedFor(psq, d) = {}
    BY DEF Init, QueuedFor, Elements
  <2>2. PsqCount(psq, d) = 0
    BY <2>1, FS_EmptySet DEF PsqCount
  <2>3. InHand = {} /\ 0 <= Hi
    BY WaterAssumption DEF Init, InHand
  <2>4. QED
    BY <2>2, <2>3 DEF Within
<1>3. QED
  BY <1>1, <1>2 DEF OneFor

(* With one destination and a high water mark below the limit of a queue,  *)
(* a packet accepted waits in one queue, is on its way, or was finalised,  *)
(* once, and has its slot until then: whatever the bus refuses or loses,   *)
(* the device suppresses and the deletion of a node flushes.               *)
THEOREM PacketsKept ==
  ASSUME NEW d \in Dests, \A t \in Traffic : t[1] = d, Hi < PsqLen
  PROVE  Spec => []PacketsConserved
<1>1. Core /\ OneFor(d) /\ [Next]_vars => OneFor(d)' /\ Fits
  BY OneForStep, OneForFits
<1>2. Init => OneFor(d)
  BY InitOneFor
<1>3. Core /\ NoneLost /\ Fits /\ [Next]_vars => NoneLost'
  BY NoneLostStep
<1> HIDE DEF OneFor
<1>4. QED
  BY <1>1, <1>2, <1>3, InitNoneLost, FoundConserved, CoreAlways, PTL DEF Spec

(***************************************************************************)
(* Types, and the limit of a queue.                                        *)
(***************************************************************************)

Rest ==
  /\ marked \subseteq Slots /\ rslot \in Slots \cup {NoSlot} /\ upsets \in 0 .. Upsets
  /\ fws_dequeue_work \in BOOLEAN /\ bus_flow_blocked \in BOOLEAN
Limited == \A d \in Dests : PsqCount(psq, d) <= PsqLen

LEMMA LimitKept ==
  ASSUME psq \in Psqs, psq' \in Psqs, Limited,
         \A e \in Dests, g \in Fifos : At(psq', e, g) \subseteq At(psq, e, g)
  PROVE  Limited'
<1> SUFFICES ASSUME NEW d \in Dests PROVE PsqCount(psq', d) <= PsqLen
  BY DEF Limited
<1>1. /\ QueuedFor(psq, d) = UNION {At(psq, d, f) : f \in Fifos} /\ IsFiniteSet(QueuedFor(psq, d))
      /\ QueuedFor(psq', d) = UNION {At(psq', d, f) : f \in Fifos}
      /\ PsqCount(psq, d) \in Nat /\ PsqCount(psq', d) \in Nat
  BY AtType
<1>2. QueuedFor(psq', d) \subseteq QueuedFor(psq, d)
  BY <1>1
<1>3. PsqCount(psq', d) <= PsqCount(psq, d)
  BY <1>1, <1>2, FS_Subset DEF PsqCount
<1>4. QED
  BY <1>1, <1>3, WaterAssumption DEF Limited

LEMMA LimitReached ==
  ASSUME psq \in Psqs, psq' \in Psqs, Limited, NEW d \in Dests, HasRoom(d), NEW p,
         \A e \in Dests, g \in Fifos : At(psq', e, g) \subseteq At(psq, e, g) \cup (IF e = d THEN {p} ELSE {})
  PROVE  Limited'
<1> SUFFICES ASSUME NEW e \in Dests PROVE PsqCount(psq', e) <= PsqLen
  BY DEF Limited
<1> DEFINE Q == QueuedFor(psq, e)
           R == QueuedFor(psq', e)
<1>1. /\ Q = UNION {At(psq, e, f) : f \in Fifos} /\ IsFiniteSet(Q) /\ R = UNION {At(psq', e, f) : f \in Fifos}
      /\ Cardinality(Q) \in Nat /\ Cardinality(R) \in Nat /\ PsqLen \in Nat
  BY AtType, WaterAssumption DEF PsqCount
<1>2. Cardinality(Q) <= PsqLen /\ (e = d => Cardinality(Q) < PsqLen)
  BY DEF Limited, HasRoom, PsqCount
<1>3. CASE e = d
  <2>1. R \subseteq Q \cup {p}
    BY <1>1, <1>3
  <2>2. /\ IsFiniteSet(Q \cup {p})
        /\ Cardinality(Q \cup {p}) = (IF p \in Q THEN Cardinality(Q) ELSE Cardinality(Q) + 1)
    BY <1>1, FS_AddElement
  <2>3. Cardinality(R) <= Cardinality(Q \cup {p})
    BY <2>1, <2>2, FS_Subset
  <2> HIDE DEF Q, R
  <2>4. Cardinality(R) <= PsqLen
    BY <1>1, <1>2, <1>3, <2>2, <2>3
  <2>5. QED
    BY <2>4 DEF Q, R, PsqCount
<1>4. CASE e # d
  <2>1. R \subseteq Q
    BY <1>1, <1>4
  <2>2. Cardinality(R) <= Cardinality(Q)
    BY <1>1, <2>1, FS_Subset
  <2> HIDE DEF Q, R
  <2>3. Cardinality(R) <= PsqLen
    BY <1>1, <1>2, <2>2
  <2>4. QED
    BY <2>3 DEF Q, R, PsqCount
<1>5. QED
  BY <1>3, <1>4

LEMMA LimitStep ==
  ASSUME Core, Limited, [Next]_vars
  PROVE  Limited'
<1>0. Core' /\ psq \in Psqs /\ psq' \in Psqs
  BY CoreStep DEF Core, Typed
<1>1. ASSUME psq' = psq PROVE Limited'
  BY <1>1 DEF Limited
<1>2. ASSUME NEW d \in Dests, Sends(d) PROVE Limited'
  <2>0. PICK f \in Fifos : f = wfifo
    BY DEF Core, TypedThreads
  <2>1. PICK p \in Packets : p = hand'
    BY <1>2 DEF Sends
  <2>2. Takes(p, d, f)
    BY <1>2, <2>0, <2>1 DEF Sends
  <2>3. \A e \in Dests, g \in Fifos : At(psq', e, g) \subseteq At(psq, e, g)
    BY <2>2, TakesSituated DEF Core
  <2>4. QED
    BY <1>0, <2>3, LimitKept
<1>3. ASSUME NEW p \in Packets, Requeues(p), HasRoom(pk[p].mac) PROVE Limited'
  <2>1. PICK d \in Dests : d = pk[p].mac
    BY DEF Core, Typed, Descs
  <2>2. /\ At(psq', d, pk[p].fifo) = At(psq, d, pk[p].fifo) \cup {p}
        /\ \A e \in Dests, g \in Fifos : e # d \/ g # pk[p].fifo => At(psq', e, g) = At(psq, e, g)
    BY <1>3, <2>1, RequeuesSituated DEF Core
  <2>3. \A e \in Dests, g \in Fifos : At(psq', e, g) \subseteq At(psq, e, g) \cup (IF e = d THEN {p} ELSE {})
    BY <2>2
  <2>4. QED
    BY <1>0, <1>3, <2>1, <2>3, LimitReached
<1>4. ASSUME NEW d \in Dests, NEW f \in Fifos, ProcessSkb(d, f) PROVE Limited'
  <2>1. \A e \in Dests, g \in Fifos :
          At(psq', e, g) = At(psq, e, g) \cup (IF e = d /\ g = f /\ HasRoom(d) THEN {sent + 1} ELSE {})
    BY <1>4, AcceptSituated DEF Core
  <2>2. CASE HasRoom(d)
    <3>1. \A e \in Dests, g \in Fifos : At(psq', e, g) \subseteq At(psq, e, g) \cup (IF e = d THEN {sent + 1} ELSE {})
      BY <2>1
    <3>2. QED
      BY <1>0, <2>2, <3>1, LimitReached
  <2>3. CASE ~HasRoom(d)
    BY <1>1, <1>4, <2>3 DEF ProcessSkb
  <2>4. QED
    BY <2>2, <2>3
<1>5. ASSUME NEW d \in Dests, MacdescDel(d) PROVE Limited'
  <2>1. \A e \in Dests, g \in Fifos : At(psq', e, g) \subseteq At(psq, e, g)
    BY <1>5, FlushSituated DEF Core
  <2>2. QED
    BY <1>0, <2>1, LimitKept
<1>6. CASE StackStep
  <2>1. ASSUME NEW t \in Traffic, ProcessSkb(t[1], t[2]) PROVE Limited'
    BY <1>4, <2>1, TrafficAssumption
  <2>2. QED
    BY <1>1, <1>6, <2>1 DEF StackStep, SkbSchedule
<1>7. CASE WorkerStep
  <2>1. CASE SendOwn \/ SendBorrowed
    BY <1>2, <2>1, SendOwnStep, SendBorrowedStep
  <2>2. CASE Rollback
    BY <1>3, <2>2, RollbackStep
  <2>3. CASE StartWorker \/ OwnDone \/ BorrowDone \/ TxData \/ TxRefused \/ Relock \/ RollbackFails
    BY <1>1, <2>3 DEF StartWorker, OwnDone, BorrowDone, TxData, TxRefused, Relock, RollbackFails
  <2>4. QED
    BY <1>7, <2>1, <2>2, <2>3 DEF WorkerStep
<1>8. CASE SignalStep
  <2>1. ASSUME NEW p \in Packets, TxSuppressed(p) PROVE Limited'
    BY <1>3, <2>1, TxSuppressedStep
  <2>2. QED
    BY <1>1, <1>5, <1>8, <2>1 DEF SignalStep, TxStatus, TxSuppressedFull, MacClose, MacOpen, SetState, MacRequest,
          MacdescAdd, CreditBack, MarkSuppressed, RxSchedule
<1>9. CASE BusStep
  BY <1>1, <1>9 DEF BusStep, BusUnblocked, BusDone, BusFailed
<1>10. CASE UNCHANGED vars
  BY <1>1, <1>10 DEF vars
<1>11. QED
  BY <1>6, <1>7, <1>8, <1>9, <1>10 DEF Next

LEMMA RestStep ==
  ASSUME Core, Rest, [Next]_vars
  PROVE  Rest'
<1>1. \A p \in Transit : p \in Packets /\ pk[p].slot \in Slots
  BY TransitType DEF Core, Situated, OnWay, Hung
<1>2. (Wanted(credits, psq) \in BOOLEAN) /\ (Wanted(credits, psq') \in BOOLEAN) /\ (Wanted(credits', psq) \in BOOLEAN)
  BY DEF Wanted
<1>3. ASSUME Upset PROVE upsets' \in 0 .. Upsets
  BY <1>3, CreditAssumption DEF Upset, Rest
<1>4. ASSUME NEW p, NEW b, PickUp(p, b) PROVE fws_dequeue_work' \in BOOLEAN
  BY <1>2, <1>4 DEF PickUp, Rest
<1>5. CASE StackStep
  <2>1. UNCHANGED << marked, rslot, upsets, bus_flow_blocked >>
    BY <1>5 DEF StackStep, SkbSchedule, ProcessSkb, signal, device, hang
  <2>2. fws_dequeue_work' \in BOOLEAN
    BY <1>2, <1>5 DEF StackStep, SkbSchedule, ProcessSkb, Rest
  <2>3. QED
    BY <2>1, <2>2 DEF Rest
<1>6. CASE WorkerStep
  <2>1. CASE RollbackFails
    <3>1. marked' \subseteq marked /\ UNCHANGED << rslot, upsets, bus_flow_blocked >> /\ fws_dequeue_work' \in BOOLEAN
      BY <1>4, <2>1 DEF RollbackFails, Tossed, signal, device
    <3>2. QED
      BY <3>1 DEF Rest
  <2>2. CASE StartWorker \/ SendOwn \/ OwnDone \/ SendBorrowed \/ BorrowDone \/ TxData \/ Relock \/ Rollback
    <3>1. UNCHANGED << marked, rslot, upsets >>
      <4>1. CASE StartWorker \/ OwnDone \/ BorrowDone
        BY <4>1 DEF StartWorker, OwnDone, BorrowDone, signal, device, hang
      <4>2. CASE SendOwn
        BY <4>2 DEF SendOwn, Commit, signal, device, hang
      <4>3. CASE SendBorrowed
        BY <4>3 DEF SendBorrowed, Commit, signal, device, hang
      <4>4. CASE TxData
        BY <4>4 DEF TxData, signal, device, hang
      <4>5. CASE Relock
        BY <4>5 DEF Relock, signal, device, hang
      <4>6. CASE Rollback
        BY <4>6 DEF Rollback, signal, device, hang
      <4>7. QED
        BY <2>2, <4>1, <4>2, <4>3, <4>4, <4>5, <4>6
    <3>2. fws_dequeue_work' \in BOOLEAN /\ bus_flow_blocked' \in BOOLEAN
      BY <2>2 DEF StartWorker, SendOwn, OwnDone, SendBorrowed, BorrowDone, Commit, TxData, Relock, Rollback, Rest
    <3>3. QED
      BY <3>1, <3>2 DEF Rest
  <2>3. CASE TxRefused
    <3>1. upsets' \in 0 .. Upsets
      BY <1>3, <2>3 DEF TxRefused
    <3>2. QED
      BY <2>3, <3>1 DEF TxRefused, signal, hang, Rest
  <2>4. QED
    BY <1>6, <2>1, <2>2, <2>3 DEF WorkerStep
<1>7. ASSUME NEW p \in Packets, TxStatus(p) \/ TxSuppressedFull(p) \/ BusFailed(p) PROVE Rest'
  <2>1. marked' \subseteq marked /\ UNCHANGED << rslot, bus_flow_blocked >> /\ fws_dequeue_work' \in BOOLEAN
    BY <1>4, <1>7 DEF TxStatus, TxSuppressedFull, BusFailed, Tossed, signal
  <2>2. upsets' \in 0 .. Upsets
    BY <1>3, <1>7 DEF TxStatus, TxSuppressedFull, BusFailed, Rest
  <2>3. QED
    BY <2>1, <2>2 DEF Rest
<1>8. ASSUME NEW p \in Packets, TxSuppressed(p) PROVE Rest'
  <2>1. pk[p].slot \in Slots
    BY <1>1, <1>8 DEF TxSuppressed, Transit
  <2>2. UNCHANGED << upsets, bus_flow_blocked >> /\ fws_dequeue_work' \in BOOLEAN
    BY <1>4, <1>8 DEF TxSuppressed
  <2>3. /\ marked' = marked \/ marked' = marked \cup {pk[p].slot}
        /\ rslot' = rslot \/ rslot' = pk[p].slot
    BY <1>8 DEF TxSuppressed
  <2>4. QED
    BY <2>1, <2>2, <2>3 DEF Rest
<1>9. ASSUME NEW d \in Dests, MacClose(d) \/ MacOpen(d) \/ MacRequest(d) \/ MacdescAdd(d) \/ MacdescDel(d) PROVE Rest'
  <2>1. marked' \subseteq marked /\ UNCHANGED << rslot, bus_flow_blocked, fws_dequeue_work >>
    BY <1>9 DEF MacClose, MacOpen, SetState, MacRequest, MacdescAdd, MacdescDel, signal, hang
  <2>2. upsets' \in 0 .. Upsets
    BY <1>3, <1>9 DEF MacClose, MacOpen, MacRequest, MacdescAdd, MacdescDel, device, Rest
  <2>3. QED
    BY <2>1, <2>2 DEF Rest
<1>10. ASSUME NEW f \in Fifos, CreditBack(f) PROVE Rest'
  BY <1>10 DEF CreditBack, hang, Rest
<1>11. CASE MarkSuppressed
  BY <1>11 DEF MarkSuppressed, device, Rest
<1>12. CASE RxSchedule
  BY <1>2, <1>12 DEF RxSchedule, device, hang, Rest
<1>13. CASE SignalStep
  BY <1>7, <1>8, <1>9, <1>10, <1>11, <1>12, <1>13 DEF SignalStep
<1>14. ASSUME NEW p \in Packets, BusDone(p) PROVE Rest'
  BY <1>14 DEF BusDone, signal, hang, Rest
<1>15. CASE BusUnblocked
  BY <1>2, <1>15 DEF BusUnblocked, Unblocked, signal, hang, device, Rest
<1>16. CASE BusStep
  BY <1>7, <1>14, <1>15, <1>16 DEF BusStep
<1>17. CASE UNCHANGED vars
  BY <1>17 DEF vars, hang, signal, device, Rest
<1>18. QED
  BY <1>5, <1>6, <1>13, <1>16, <1>17 DEF Next

(* Every variable has its type, and no queue outgrows fws_psq_len: packets *)
(* that come back, suppressed or refused, are dropped instead.             *)
THEOREM TypeCorrect == Spec => []TypeOK
<1>1. Init => Rest /\ Limited
  <2> SUFFICES ASSUME Init PROVE Rest /\ Limited
    OBVIOUS
  <2>1. Rest
    <3>1. 0 \in 0 .. Upsets
      BY CreditAssumption
    <3>2. QED
      BY <3>1 DEF Init, Rest
  <2>2. ASSUME NEW d \in Dests PROVE PsqCount(psq, d) <= PsqLen
    <3>1. QueuedFor(psq, d) = {}
      BY DEF Init, QueuedFor, Elements
    <3>2. PsqCount(psq, d) = 0
      BY <3>1, FS_EmptySet DEF PsqCount
    <3>3. QED
      BY <3>2, WaterAssumption
  <2>3. QED
    BY <2>1, <2>2 DEF Limited
<1>2. Core /\ Rest /\ Limited /\ [Next]_vars => Rest' /\ Limited'
  BY RestStep, LimitStep
<1>3. Core /\ Rest /\ Limited => TypeOK
  <2> SUFFICES ASSUME Core, Rest, Limited PROVE TypeOK
    OBVIOUS
  <2>1. /\ sent \in 0 .. NPackets /\ hanger \in [Slots -> Packets \cup {NoPkt}] /\ hand \in Packets \cup {NoPkt}
        /\ \A p \in Packets : pk[p].mac \in Dests /\ pk[p].fifo \in Fifos /\ pk[p].slot \in Slots \cup {NoSlot}
    BY DEF Core, Typed, TypedThreads, Descs, Ids
  <2>2. psq.delay_map \subseteq Fifos /\ psq.enqpkt \in [Fifos -> Int] /\ psq.stop \in BOOLEAN /\ psq \in Psqs
    BY DEF Core, Typed, Psqs
  <2>3. \A d \in Dests : QueuedFor(psq, d) \subseteq Packets
    BY <2>2, AtType
  <2>4. /\ credits.fifo \in [Fifos -> Int] /\ credits.map \subseteq Fifos
        /\ credits.borrowed \in [ACs -> [ACs -> Nat]]
    BY DEF Core, Typed, CreditStates
  <2>5. QED
    BY <2>1, <2>2, <2>3, <2>4 DEF TypeOK, Core, Typed, TypedThreads, Rest, Limited
<1> HIDE DEF Rest, Limited
<1>4. QED
  BY <1>1, <1>2, <1>3, CoreAlways, PTL DEF Spec
=============================================================================
