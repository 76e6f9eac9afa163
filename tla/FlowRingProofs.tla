--------------------------- MODULE FlowRingProofs ---------------------------
(***************************************************************************)
(* The theorems about a flow ring, its two halves in turn: the message     *)
(* ring of CommonRing.tla, then the flow control of the queue before it,   *)
(* FlowControl.tla.  The two share no variable.                            *)
(*                                                                         *)
(* CommonRing, for every depth, batch size and set of messages: IInv is    *)
(* inductive, as the host's stale read pointer is kept in order with the   *)
(* device's indices (PointersInOrder), so a reservation, which leaves one  *)
(* slot free by the stale estimate, stays clear of the slots the device    *)
(* has not read.                                                           *)
(*                                                                         *)
(* FlowControl, for every number of rings and senders and every pair of    *)
(* limits, when no ring is deleted while a sender works on it: the heart   *)
(* of FlowInv is BlockedIsWatched: an almost empty ring that is blocked is *)
(* about to be looked at by whoever blocked it or by the worker that       *)
(* emptied it.                                                             *)
(***************************************************************************)
EXTENDS CommonRing, FlowControl, TLAPS

(***************************************************************************)
(* Pointers of a ring, and how the messages between two of them change as  *)
(* the pointers move: appended to at the one end, taken from at the other. *)
(***************************************************************************)

(* Going n slots further round the ring adds n to the distance, as long as *)
(* the pointer does not lap its origin.                                    *)
LEMMA SpanAdvance ==
  ASSUME NEW a \in Index, NEW b \in Index, NEW n \in Nat,
         Span(a, b) + n < Depth
  PROVE  /\ Advance(b, n) \in Index
         /\ Span(a, Advance(b, n)) = Span(a, b) + n
  BY DepthAssumption DEF Index, Span, Advance

(* A distance round the ring is less than its depth. *)
LEMMA SpanRange ==
  ASSUME NEW a \in Index, NEW b \in Index
  PROVE  Span(a, b) \in 0 .. Depth - 1
  BY DepthAssumption DEF Index, Span

(* Slots along the ring are told apart by their distance.                  *)
LEMMA AlongRing ==
  ASSUME NEW a \in Index, NEW b \in Index, NEW i \in 1 .. Span(a, b)
  PROVE  /\ Advance(a, i - 1) \in Index
         /\ Span(a, Advance(a, i - 1)) = i - 1
         /\ InSpan(Advance(a, i - 1), a, b)
  BY DepthAssumption DEF Index, Span, Advance, InSpan

(* The view is a sequence of messages if the slots in it are filled.       *)
LEMMA ViewType ==
  ASSUME NEW a \in Index, NEW b \in Index, NEW s,
         \A i \in Index : InSpan(i, a, b) => s[i] \in Items
  PROVE  View(s, a, b) \in Seq(Items) /\ Len(View(s, a, b)) = Span(a, b)
<1>1. Span(a, b) \in Nat
  BY SpanRange, DepthAssumption
<1>2. \A i \in 1 .. Span(a, b) : s[Advance(a, i - 1)] \in Items
  BY AlongRing
<1> QED
  BY <1>1, <1>2 DEF View

(* Two views that meet make one.                                           *)
LEMMA ViewAppend ==
  ASSUME NEW a \in Index, NEW b \in Index, NEW c \in Index, NEW s,
         Span(a, b) + Span(b, c) = Span(a, c),
         \A i \in Index : InSpan(i, a, b) \/ InSpan(i, b, c) => s[i] \in Items
  PROVE  View(s, a, c) = View(s, a, b) \o View(s, b, c) /\ View(s, a, c) \in Seq(Items)
<1>1. Span(a, b) \in Nat /\ Span(b, c) \in Nat /\ Span(a, c) \in Nat
  BY SpanRange, DepthAssumption
<1>2. /\ View(s, a, b) \in Seq(Items) /\ Len(View(s, a, b)) = Span(a, b)
      /\ View(s, b, c) \in Seq(Items) /\ Len(View(s, b, c)) = Span(b, c)
  BY ViewType
<1>3. \A i \in Index : InSpan(i, a, c) => s[i] \in Items
  BY DepthAssumption DEF InSpan, Span, Index
<1>4. View(s, a, c) \in Seq(Items) /\ Len(View(s, a, c)) = Span(a, c)
  BY <1>3, ViewType
<1> DEFINE whole == View(s, a, b) \o View(s, b, c)
<1>5. /\ whole \in Seq(Items) /\ Len(whole) = Span(a, c)
      /\ \A i \in 1 .. Span(a, b) : whole[i] = View(s, a, b)[i]
      /\ \A i \in Span(a, b) + 1 .. Span(a, c) : whole[i] = View(s, b, c)[i - Span(a, b)]
  BY <1>1, <1>2
<1> HIDE DEF whole
<1>6. ASSUME NEW i \in 1 .. Span(a, c) PROVE whole[i] = View(s, a, c)[i]
  <2>1. View(s, a, c)[i] = s[Advance(a, i - 1)]
    BY DEF View
  <2>2. CASE i \in 1 .. Span(a, b)
    BY <1>5, <2>1, <2>2 DEF View
  <2>3. CASE i \in Span(a, b) + 1 .. Span(a, c)
    <3>1. i - Span(a, b) \in 1 .. Span(b, c)
      BY <1>1, <2>3
    <3>2. View(s, b, c)[i - Span(a, b)] = s[Advance(b, i - Span(a, b) - 1)]
      BY <3>1 DEF View
    <3>3. Advance(a, i - 1) = Advance(b, i - Span(a, b) - 1)
      BY <2>3, DepthAssumption DEF Index, Span, Advance
    <3> QED
      BY <1>5, <2>1, <2>3, <3>2, <3>3
  <2>4. i \in 1 .. Span(a, b) \/ i \in Span(a, b) + 1 .. Span(a, c)
    BY <1>1
  <2> QED
    BY <2>2, <2>3, <2>4
<1>7. whole = View(s, a, c)
  BY <1>1, <1>4, <1>5, <1>6
<1> QED
  BY <1>4, <1>7 DEF whole

(* Moving the last pointer over filled slots appends a batch of messages,  *)
(* and the ring, one slot of which is always free, has room for it.        *)
LEMMA ViewPublish ==
  ASSUME NEW a \in Index, NEW b \in Index, NEW c \in Index, NEW s, b # c,
         Span(a, b) + Span(b, c) = Span(a, c),
         \A i \in Index : InSpan(i, a, b) \/ InSpan(i, b, c) => s[i] \in Items
  PROVE  /\ Span(b, c) \in 1 .. (Depth - 1) - Len(View(s, a, b))
         /\ View(s, b, c) \in [1 .. Span(b, c) -> Items]
         /\ View(s, a, c) = View(s, a, b) \o View(s, b, c)
<1> DEFINE n == Span(b, c)
           batch == View(s, b, c)
<1>1. View(s, a, c) = View(s, a, b) \o batch
  BY ViewAppend
<1>2. Len(View(s, a, b)) = Span(a, b) /\ batch \in Seq(Items) /\ Len(batch) = n
  BY ViewType
<1>3. n \in 1 .. (Depth - 1) - Span(a, b) /\ Span(a, b) \in Nat
  BY SpanRange, DepthAssumption DEF Span, Index
<1> HIDE DEF n, batch
<1>4. batch \in [1 .. n -> Items]
  BY <1>2
<1> QED
  BY <1>1, <1>2, <1>3, <1>4 DEF n, batch

(* The view of a memory that does not differ there is the same.            *)
LEMMA ViewKept ==
  ASSUME NEW a \in Index, NEW b \in Index, NEW s, NEW t,
         \A i \in Index : InSpan(i, a, b) => t[i] = s[i]
  PROVE  View(t, a, b) = View(s, a, b)
<1>1. \A i \in 1 .. Span(a, b) : t[Advance(a, i - 1)] = s[Advance(a, i - 1)]
  BY AlongRing
<1> QED
  BY <1>1 DEF View

(* Nothing is between a pointer and itself.                                *)
LEMMA ViewEmpty == ASSUME NEW a \in Index, NEW s PROVE View(s, a, a) = << >>
  BY DepthAssumption DEF View, Span, Index

(* Moving the first pointer by one slot takes the oldest message.          *)
LEMMA ViewTail ==
  ASSUME NEW a \in Index, NEW b \in Index, a # b,
         NEW s \in [Index -> Items \cup {Stale}], NEW t \in [Index -> Items \cup {Stale}],
         \A i \in Index : InSpan(i, a, b) => s[i] \in Items,
         \A i \in Index : InSpan(i, a, b) /\ i # a => t[i] = s[i]
  PROVE  /\ View(s, a, b) # << >>
         /\ View(t, Advance(a, 1), b) = Tail(View(s, a, b))
<1> DEFINE c == Advance(a, 1)
           n == Span(a, b)
<1>1. c \in Index /\ n \in Nat /\ n > 0 /\ Span(c, b) = n - 1
  BY DepthAssumption DEF Index, Span, Advance
<1>2. View(s, a, b) \in Seq(Items) /\ Len(View(s, a, b)) = n
  BY ViewType
<1>3. ASSUME NEW i \in 1 .. n - 1 PROVE t[Advance(c, i - 1)] = s[Advance(a, i)]
  <2>1. Advance(c, i - 1) = Advance(a, i) /\ Advance(a, i) \in Index /\ Advance(a, i) # a
    BY DepthAssumption DEF Index, Span, Advance
  <2>2. InSpan(Advance(a, i), a, b)
    BY DepthAssumption DEF Index, Span, Advance, InSpan
  <2> QED
    BY <2>1, <2>2
<1>4. ASSUME NEW i \in 1 .. n - 1 PROVE View(s, a, b)[i + 1] = s[Advance(a, i)]
  <2>1. i + 1 \in 1 .. n /\ (i + 1) - 1 = i
    BY <1>1
  <2> QED
    BY <2>1 DEF View
<1>5. View(t, c, b) = [i \in 1 .. n - 1 |-> s[Advance(a, i)]]
  BY <1>1, <1>3 DEF View
<1> HIDE DEF c, n
<1>6. ASSUME NEW v \in Seq(Items), Len(v) = n
      PROVE  v # << >> /\ Tail(v) = [i \in 1 .. n - 1 |-> v[i + 1]]
  <2> DEFINE y == [i \in 1 .. n - 1 |-> v[i + 1]]
  <2>1. v # << >> /\ Tail(v) \in Seq(Items) /\ Len(Tail(v)) = n - 1
    BY <1>1, <1>6
  <2>2. y \in Seq(Items) /\ Len(y) = n - 1
    BY <1>1, <1>6
  <2>3. \A i \in 1 .. n - 1 : y[i] = v[i + 1] /\ Tail(v)[i] = v[i + 1]
    BY <1>1, <1>6
  <2> HIDE DEF y
  <2>4. Tail(v) = y
    BY <1>1, <2>1, <2>2, <2>3
  <2> QED
    BY <2>1, <2>4 DEF y
<1>7. View(s, a, b) # << >> /\ Tail(View(s, a, b)) = [i \in 1 .. n - 1 |-> View(s, a, b)[i + 1]]
  BY <1>2, <1>6
<1> QED
  BY <1>4, <1>5, <1>7 DEF c

-----------------------------------------------------------------------------
(* What the code computes as available is what the stale pointer leaves. *)
LEMMA AvailableSpan ==
  ASSUME NEW r \in Index, w_ptr \in Index
  PROVE  Available(r) = Depth - Span(r, w_ptr)
  BY DepthAssumption DEF Available, Span, Index

(* A grant is at least one slot and leaves one slot free. *)
LEMMA GrantedRange ==
  ASSUME NEW r \in Index, w_ptr \in Index, NEW n \in Nat \ {0},
         Available(r) > 1
  PROVE  /\ Granted(n, r) \in 1 .. Depth - 1
         /\ Span(r, w_ptr) + Granted(n, r) < Depth
         /\ w_ptr + Granted(n, r) <= Depth
  BY DepthAssumption DEF Granted, Available, Span, Index

-----------------------------------------------------------------------------
(* The ring starts empty, with both sides at its first slot. *)
THEOREM InitInv == Init => IInv
<1> SUFFICES ASSUME Init PROVE IInv
  OBVIOUS
<1>1. TypeOK
  <2>1. PointersOK
    BY DepthAssumption DEF Init, PointersOK, Index
  <2>2. was_full = FALSE /\ up = TRUE /\ wrote = FALSE /\ pc = "idle"
    BY DEF Init
  <2>4. FlagsOK
    BY <2>2, Zenon DEF FlagsOK
  <2>3. slots \in [Index -> Items \cup {Stale}]
    BY DEF Init
  <2> QED
    BY <2>1, <2>3, <2>4 DEF TypeOK
<1>2. Span(0, 0) = 0
  BY DepthAssumption DEF Span
<1>3. PointersInOrder /\ TodoUnpublished
  BY DepthAssumption, <1>2 DEF Init, PointersInOrder, TodoUnpublished
<1>4. \A i \in Index : ~(Span(0, i) < 0)
  BY DepthAssumption DEF Span, Index
<1>5. tcm_r = 0 /\ tcm_w = 0 /\ w_ptr = 0
  BY DEF Init
<1>6. \A i \in Index : ~InSpan(i, tcm_r, tcm_w) /\ ~InSpan(i, tcm_w, w_ptr)
  BY DepthAssumption, <1>2, <1>4, <1>5 DEF InSpan
<1>7. UnreadFilled /\ PendingFilled
  BY <1>6 DEF UnreadFilled, PendingFilled
<1> QED
  BY <1>1, <1>3, <1>7 DEF IInv

(* The refreshed read pointer is in order with the other pointers too. *)
LEMMA RefreshKeepsOrder ==
  ASSUME PointersOK, PointersInOrder, NEW r \in {r_ptr, tcm_r}
  PROVE  /\ r \in Index
         /\ Span(r, tcm_r) + Span(tcm_r, tcm_w) + Span(tcm_w, w_ptr)
              = Span(r, w_ptr)
  BY DepthAssumption DEF PointersOK, PointersInOrder, Span, Index

(* Both tries of a reservation use the cached or the device's pointer. *)
LEMMA RetriedIsRefreshed == RetriedR \in {r_ptr, tcm_r}
  BY DEF RetriedR, RefreshedR

-----------------------------------------------------------------------------
(* The steps. *)

(* Asking whether the ring has room moves no pointer but the cached one.   *)
LEMMA WriteAvailableInv == IInv /\ WriteAvailable => IInv'
<1> SUFFICES ASSUME IInv, WriteAvailable PROVE IInv'
  OBVIOUS
<1>0. UNCHANGED << w_ptr, todo, wrote, up, slots, tcm_r, tcm_w >>
  BY DEF WriteAvailable
<1>1. r_ptr' \in {r_ptr, tcm_r}
  BY DEF WriteAvailable, RefreshedR
<1>2. PointersOK' /\ PointersInOrder'
  BY DepthAssumption, <1>0, <1>1, RefreshKeepsOrder DEF IInv, TypeOK, PointersOK, PointersInOrder
<1>3. FlagsOK'
  <2> DEFINE r == IF Roomy(r_ptr) THEN r_ptr ELSE RefreshedR
  <2>0. FlagsOK
    BY DEF IInv, TypeOK
  <2>1. \/ was_full' = FALSE /\ pc' = "txflow"
        \/ was_full' = (was_full \/ Available(r) <= 1) /\ pc' = "idle"
    BY Zenon DEF WriteAvailable
  <2>2. was_full' \in BOOLEAN /\ pc' \in {"idle", "txflow", "post"}
    BY <2>1, Zenon
  <2> QED
    BY <1>0, <2>0, <2>2, Zenon DEF FlagsOK
<1>4. TypeOK'
  BY <1>0, <1>2, <1>3 DEF IInv, TypeOK
<1>5. TodoUnpublished' /\ UnreadFilled' /\ PendingFilled'
  BY DepthAssumption, <1>0 DEF IInv, TodoUnpublished, UnreadFilled, PendingFilled, InSpan
<1> QED
  BY <1>2, <1>4, <1>5 DEF IInv

(* A reservation moves w_ptr by what is granted and exposes nothing.       *)
LEMMA ReserveInv ==
  ASSUME IInv, NEW n \in Nat \ {0},
         NEW next \in {"idle", "txflow", "post"}, Reserve(n, next)
  PROVE  IInv'
<1> DEFINE r == RetriedR
           g == Granted(n, r)
<1>1. r \in {r_ptr, tcm_r} /\ r_ptr' = r
  BY RetriedIsRefreshed DEF Reserve
<1>2. /\ r \in Index
      /\ Span(r, tcm_r) + Span(tcm_r, tcm_w) + Span(tcm_w, w_ptr)
           = Span(r, w_ptr)
  BY <1>1, RefreshKeepsOrder DEF IInv, TypeOK
<1>3. w_ptr \in Index /\ tcm_r \in Index /\ tcm_w \in Index
  BY DepthAssumption DEF IInv, TypeOK, PointersOK
<1> HIDE DEF r
<1>4. CASE Available(r) > 1
  <2>1. /\ todo' = g /\ w_ptr' = Advance(w_ptr, g) /\ pc' = next
        /\ UNCHANGED << was_full, wrote, up, slots, tcm_r, tcm_w >>
        /\ todo = 0
    BY <1>4 DEF Reserve, r
  <2>2. /\ g \in 1 .. Depth - 1 /\ Span(r, w_ptr) + g < Depth
        /\ w_ptr + g <= Depth
    BY <1>2, <1>3, <1>4, GrantedRange
  <2> HIDE DEF g
  <2>3. /\ Span(r, tcm_r) \in Nat /\ Span(tcm_r, tcm_w) \in Nat
        /\ Span(tcm_w, w_ptr) \in Nat
    BY DepthAssumption, <1>2, <1>3, SpanRange
  <2>4. Advance(w_ptr, g) \in Index /\ Span(r, Advance(w_ptr, g)) = Span(r, w_ptr) + g
    BY DepthAssumption, <1>2, <1>3, <2>2, SpanAdvance
  <2>5. Span(tcm_w, w_ptr) + g < Depth
    BY DepthAssumption, <1>2, <2>2, <2>3, SpanRange, <1>3
  <2>6. Span(tcm_w, Advance(w_ptr, g)) = Span(tcm_w, w_ptr) + g
    BY DepthAssumption, <1>3, <2>2, <2>5, SpanAdvance
  <2>7. TypeOK'
    <3>1. PointersOK'
      BY DepthAssumption, <1>1, <1>2, <2>1, <2>2, <2>4 DEF IInv, TypeOK, PointersOK
    <3>2. FlagsOK'
      BY <2>1 DEF IInv, TypeOK, FlagsOK
    <3> QED
      BY <2>1, <3>1, <3>2 DEF IInv, TypeOK
  <2>8. PointersInOrder'
    BY DepthAssumption, <1>1, <1>2, <2>1, <2>2, <2>3, <2>4, <2>6, SpanRange, <1>3 DEF PointersInOrder
  <2>9. TodoUnpublished' /\ UnreadFilled'
    <3>1. Advance(w_ptr, g) = 0 \/ g <= Advance(w_ptr, g)
      BY DepthAssumption, <1>3, <2>2 DEF Advance, Index
    <3> QED
      BY <3>1, <2>1, <2>2, <2>3, <2>6
      DEF IInv, TodoUnpublished, UnreadFilled, InSpan
  <2>10. PendingFilled'
    <3> SUFFICES ASSUME NEW i \in Index,
                        Span(tcm_w, i) < Span(tcm_w, Advance(w_ptr, g)) - g
                 PROVE  slots[i] \in Items
      BY DepthAssumption, <2>1 DEF PendingFilled, InSpan
    <3>1. Span(tcm_w, i) < Span(tcm_w, w_ptr) - todo
      BY DepthAssumption, <2>1, <2>2, <2>3, <2>6
    <3>2. InSpan(i, tcm_w, w_ptr)
      BY DepthAssumption, <3>1, <2>1, <2>3, SpanRange, <1>3 DEF InSpan
    <3> QED
      BY <3>1, <3>2 DEF IInv, PendingFilled
  <2> QED
    BY <2>7, <2>8, <2>9, <2>10 DEF IInv
<1>5. CASE ~(Available(r) > 1)
  <2>1. /\ was_full' = TRUE
        /\ UNCHANGED << w_ptr, todo, pc, wrote, up, slots, tcm_r, tcm_w >>
    BY <1>5 DEF Reserve, r
  <2>2. PointersOK' /\ PointersInOrder'
    BY DepthAssumption, <1>1, <1>2, <2>1 DEF IInv, TypeOK, PointersOK, PointersInOrder
  <2>4. FlagsOK'
    BY <2>1 DEF IInv, TypeOK, FlagsOK
  <2>3. TodoUnpublished' /\ UnreadFilled' /\ PendingFilled'
    BY DepthAssumption, <2>1 DEF IInv, TodoUnpublished, UnreadFilled, PendingFilled, InSpan
  <2> QED
    BY <2>1, <2>2, <2>3, <2>4 DEF IInv, TypeOK
<1> QED
  BY <1>4, <1>5

(* Filling a reserved slot touches no slot the device was shown.           *)
LEMMA FillInv == IInv /\ Fill => IInv'
<1> SUFFICES ASSUME IInv, Fill PROVE IInv'
  OBVIOUS
<1> DEFINE s == Advance(w_ptr, Depth - todo)
<1>1. PICK item \in Items : slots' = [slots EXCEPT ![s] = item]
  BY DEF Fill
<1>2. /\ todo > 0 /\ todo' = todo - 1 /\ wrote' = TRUE
      /\ UNCHANGED << r_ptr, w_ptr, was_full, pc, up, tcm_r, tcm_w >>
  BY DEF Fill
<1>3. /\ w_ptr \in Index /\ tcm_r \in Index /\ tcm_w \in Index
      /\ r_ptr \in Index /\ todo \in 0 .. Depth - 1
      /\ todo <= Span(tcm_w, w_ptr)
      /\ slots \in [Index -> Items \cup {Stale}]
  BY DEF IInv, TypeOK, PointersOK, TodoUnpublished
<1>4. s \in Index /\ Span(tcm_w, s) = Span(tcm_w, w_ptr) - todo
  BY <1>2, <1>3, DepthAssumption DEF Advance, Span, Index
<1>5. ~InSpan(s, tcm_r, tcm_w)
  <2>1. Span(r_ptr, tcm_r) + Span(tcm_r, tcm_w) + Span(tcm_w, w_ptr) = Span(r_ptr, w_ptr)
    BY DEF IInv, PointersInOrder
  <2>2. Span(tcm_r, tcm_w) + Span(tcm_w, w_ptr) < Depth
    BY <2>1, <1>3, SpanRange, DepthAssumption
  <2> QED
    BY <2>2, <1>2, <1>3, <1>4, DepthAssumption DEF InSpan, Span, Index
<1> HIDE DEF s
<1>6. \A i \in Index : slots'[i] = IF i = s THEN item ELSE slots[i]
  BY <1>1, <1>3
<1>7. TypeOK'
  <2>1. PointersOK'
    BY <1>2, <1>3, DepthAssumption DEF PointersOK
  <2>2. FlagsOK
    BY DEF IInv, TypeOK
  <2>3. FlagsOK'
    BY <1>2, <2>2, Zenon DEF FlagsOK
  <2>4. slots' \in [Index -> Items \cup {Stale}]
    BY <1>1, <1>3
  <2> QED
    BY <2>1, <2>3, <2>4 DEF TypeOK
<1>8. PointersInOrder'
  BY <1>2 DEF IInv, PointersInOrder
<1>9. TodoUnpublished'
  <2>1. Span(tcm_w, w_ptr) \in Nat /\ w_ptr \in Nat
    BY <1>3, SpanRange, DepthAssumption DEF Index
  <2> QED
    BY <1>2, <1>3, <2>1 DEF IInv, TodoUnpublished
<1>10. UnreadFilled'
  BY <1>2, <1>5, <1>6 DEF IInv, UnreadFilled, InSpan
<1>11. PendingFilled'
  <2> SUFFICES ASSUME NEW i \in Index, InSpan(i, tcm_w, w_ptr),
                      Span(tcm_w, i) < Span(tcm_w, w_ptr) - (todo - 1)
               PROVE  slots'[i] \in Items
    BY <1>2 DEF PendingFilled, InSpan
  <2>1. CASE i = s
    BY <2>1, <1>6
  <2>2. CASE i # s
    <3>1. Span(tcm_w, i) # Span(tcm_w, s)
      BY <2>2, <1>3, <1>4, DepthAssumption DEF Span, Index
    <3>2. Span(tcm_w, i) < Span(tcm_w, w_ptr) - todo
      <4>1. Span(tcm_w, i) \in Nat /\ Span(tcm_w, w_ptr) \in Nat
        BY <1>3, SpanRange
      <4> QED
        BY <3>1, <4>1, <1>3, <1>4
    <3> QED
      BY <3>2, <2>2, <1>6 DEF IInv, PendingFilled
  <2> QED
    BY <2>1, <2>2
<1> QED
  BY <1>7, <1>8, <1>9, <1>10, <1>11 DEF IInv

(* Taking back the slots not filled: w_ptr returns to the last filled one. *)
LEMMA WriteCancelInv == IInv /\ WriteCancel => IInv'
<1> SUFFICES ASSUME IInv, WriteCancel PROVE IInv'
  OBVIOUS
<1>1. /\ todo > 0 /\ todo' = 0 /\ pc' = IF wrote THEN "post" ELSE "idle"
      /\ w_ptr' = IF w_ptr = 0 THEN Depth - todo ELSE w_ptr - todo
      /\ UNCHANGED << r_ptr, was_full, wrote, up, slots, tcm_r, tcm_w >>
  BY DEF WriteCancel, CancelSlots
<1>2. /\ w_ptr \in Index /\ tcm_r \in Index /\ tcm_w \in Index
      /\ r_ptr \in Index /\ todo \in 0 .. Depth - 1
      /\ todo <= Span(tcm_w, w_ptr) /\ (w_ptr = 0 \/ todo <= w_ptr)
  BY DEF IInv, TypeOK, PointersOK, TodoUnpublished
<1>3. w_ptr' \in Index
  BY <1>1, <1>2, DepthAssumption DEF Index
<1>4. Span(tcm_w, w_ptr') = Span(tcm_w, w_ptr) - todo
  BY <1>1, <1>2, DepthAssumption DEF Span, Index
<1>5. Span(r_ptr, w_ptr') = Span(r_ptr, w_ptr) - todo
  <2>1. Span(r_ptr, tcm_r) + Span(tcm_r, tcm_w) + Span(tcm_w, w_ptr) = Span(r_ptr, w_ptr)
    BY DEF IInv, PointersInOrder
  <2>2. todo <= Span(r_ptr, w_ptr)
    <3>1. /\ Span(r_ptr, tcm_r) \in Nat /\ Span(tcm_r, tcm_w) \in Nat
          /\ Span(tcm_w, w_ptr) \in Nat
      BY <1>2, SpanRange
    <3> QED
      BY <2>1, <3>1, <1>2
  <2> QED
    BY <2>2, <1>1, <1>2, DepthAssumption DEF Span, Index
<1>6. TypeOK'
  <2>1. PointersOK'
    BY <1>1, <1>2, <1>3, DepthAssumption DEF PointersOK
  <2>2. FlagsOK
    BY DEF IInv, TypeOK
  <2>3. FlagsOK'
    BY <1>1, <2>2, Zenon DEF FlagsOK
  <2> QED
    BY <1>1, <2>1, <2>3 DEF IInv, TypeOK
<1>7. PointersInOrder'
  <2>1. /\ Span(r_ptr, tcm_r) \in Nat /\ Span(tcm_r, tcm_w) \in Nat
        /\ Span(tcm_w, w_ptr) \in Nat /\ Span(r_ptr, w_ptr) \in Nat
    BY <1>2, SpanRange
  <2> QED
    BY <1>1, <1>2, <1>4, <1>5, <2>1 DEF IInv, PointersInOrder
<1>8. TodoUnpublished' /\ UnreadFilled'
  <2>1. Span(tcm_w, w_ptr') \in Nat /\ w_ptr' \in Nat
    BY <1>1, <1>2, <1>3, SpanRange, DepthAssumption DEF Index
  <2> QED
    BY <1>1, <2>1 DEF IInv, TodoUnpublished, UnreadFilled, InSpan
<1>9. PendingFilled'
  <2> SUFFICES ASSUME NEW i \in Index, Span(tcm_w, i) < Span(tcm_w, w_ptr')
               PROVE  slots[i] \in Items
    BY <1>1 DEF PendingFilled, InSpan
  <2>1. Span(tcm_w, i) \in Nat /\ Span(tcm_w, w_ptr) \in Nat
    BY <1>2, SpanRange
  <2>2. Span(tcm_w, i) < Span(tcm_w, w_ptr) - todo /\ InSpan(i, tcm_w, w_ptr)
    BY <1>2, <1>4, <2>1 DEF InSpan
  <2> QED
    BY <2>2 DEF IInv, PendingFilled
<1> QED
  BY <1>6, <1>7, <1>8, <1>9 DEF IInv

(* Publishing shows the device exactly the filled slots.                   *)
LEMMA WriteCompleteInv == IInv /\ WriteComplete => IInv'
<1> SUFFICES ASSUME IInv, WriteComplete PROVE IInv'
  OBVIOUS
<1>1. /\ todo = 0 /\ wrote' = FALSE /\ pc' \in {"txflow", "idle"}
      /\ tcm_w' \in {w_ptr, tcm_w}
      /\ UNCHANGED << r_ptr, w_ptr, was_full, todo, up, slots, tcm_r >>
  BY DEF WriteComplete
<1>2. /\ w_ptr \in Index /\ tcm_r \in Index /\ tcm_w \in Index
      /\ r_ptr \in Index
      /\ Span(r_ptr, tcm_r) + Span(tcm_r, tcm_w) + Span(tcm_w, w_ptr)
           = Span(r_ptr, w_ptr)
  BY DEF IInv, TypeOK, PointersOK, PointersInOrder
<1>3. CASE tcm_w' = tcm_w
  <2>1. FlagsOK
    BY DEF IInv, TypeOK
  <2>2. FlagsOK'
    BY <1>1, <2>1, Zenon DEF FlagsOK
  <2> QED
    BY <1>1, <1>3, <2>2 DEF IInv, TypeOK, PointersOK, PointersInOrder,
       TodoUnpublished, UnreadFilled, PendingFilled, InSpan
<1>4. CASE tcm_w' = w_ptr
  <2>1. FlagsOK
    BY DEF IInv, TypeOK
  <2>2. FlagsOK'
    BY <1>1, <2>1, Zenon DEF FlagsOK
  <2>3. TypeOK'
    BY <1>1, <1>2, <1>4, <2>2 DEF IInv, TypeOK, PointersOK
  <2>4. Span(w_ptr, w_ptr) = 0
    BY <1>2, DepthAssumption DEF Span, Index
  <2>5. Span(tcm_r, w_ptr) = Span(tcm_r, tcm_w) + Span(tcm_w, w_ptr)
    BY <1>2, DepthAssumption DEF Span, Index
  <2>6. PointersInOrder'
    BY <1>1, <1>2, <1>4, <2>4, <2>5, DepthAssumption DEF PointersInOrder, Span, Index
  <2>7. TodoUnpublished' /\ PendingFilled'
    <3>1. \A i \in Index : ~InSpan(i, w_ptr, w_ptr)
      BY <1>2, <2>4, SpanRange DEF InSpan
    <3> QED
      BY <1>1, <1>2, <1>4, <2>4, <3>1, DepthAssumption
      DEF TodoUnpublished, PendingFilled, InSpan, Index
  <2>8. UnreadFilled'
    <3> SUFFICES ASSUME NEW i \in Index, InSpan(i, tcm_r, w_ptr)
                 PROVE  slots[i] \in Items
      BY <1>1, <1>4 DEF UnreadFilled, InSpan
    <3>1. CASE InSpan(i, tcm_r, tcm_w)
      BY <3>1 DEF IInv, UnreadFilled
    <3>2. CASE ~InSpan(i, tcm_r, tcm_w)
      <4>1. Span(tcm_w, i) < Span(tcm_w, w_ptr)
        BY <3>2, <1>2, <2>5, DepthAssumption DEF InSpan, Span, Index
      <4> QED
        BY <4>1, <1>1, <1>2, SpanRange DEF IInv, PendingFilled, InSpan
    <3> QED
      BY <3>1, <3>2
  <2> QED
    BY <2>3, <2>6, <2>7, <2>8 DEF IInv
<1> QED
  BY <1>1, <1>3, <1>4

(* The device moves its read index towards what is published.              *)
LEMMA DeviceTakeInv == IInv /\ DeviceTake => IInv'
<1> SUFFICES ASSUME IInv, DeviceTake PROVE IInv'
  OBVIOUS
<1>1. /\ tcm_r # tcm_w /\ tcm_r' = Advance(tcm_r, 1)
      /\ slots' = [slots EXCEPT ![tcm_r] = Stale]
      /\ UNCHANGED << r_ptr, w_ptr, was_full, pc, todo, wrote, up, tcm_w >>
  BY DEF DeviceTake, host
<1>2. /\ w_ptr \in Index /\ tcm_r \in Index /\ tcm_w \in Index
      /\ r_ptr \in Index /\ todo \in 0 .. Depth - 1
      /\ slots \in [Index -> Items \cup {Stale}]
      /\ Span(r_ptr, tcm_r) + Span(tcm_r, tcm_w) + Span(tcm_w, w_ptr)
           = Span(r_ptr, w_ptr)
  BY DEF IInv, TypeOK, PointersOK, PointersInOrder
<1>3. tcm_r' \in Index
  BY <1>1, <1>2, DepthAssumption DEF Advance, Index
<1>4. \A i \in Index : i # tcm_r => slots'[i] = slots[i]
  BY <1>1, <1>2
<1>5. TypeOK'
  <2>1. PointersOK'
    BY <1>1, <1>2, <1>3 DEF PointersOK
  <2>2. FlagsOK
    BY DEF IInv, TypeOK
  <2>3. FlagsOK'
    BY <1>1, <2>2, Zenon DEF FlagsOK
  <2>4. slots' \in [Index -> Items \cup {Stale}]
    BY <1>1, <1>2
  <2> QED
    BY <2>1, <2>3, <2>4 DEF TypeOK
<1>6. PointersInOrder'
  BY <1>1, <1>2, DepthAssumption DEF PointersInOrder, Span, Advance, Index
<1>7. TodoUnpublished'
  BY <1>1 DEF IInv, TodoUnpublished
<1>8. UnreadFilled'
  <2> SUFFICES ASSUME NEW i \in Index, InSpan(i, tcm_r', tcm_w)
               PROVE  slots'[i] \in Items
    BY <1>1 DEF UnreadFilled, InSpan
  <2>1. i # tcm_r /\ InSpan(i, tcm_r, tcm_w)
    BY <1>1, <1>2, DepthAssumption DEF InSpan, Span, Advance, Index
  <2> QED
    BY <2>1, <1>4 DEF IInv, UnreadFilled
<1>9. PendingFilled'
  <2> SUFFICES ASSUME NEW i \in Index, InSpan(i, tcm_w, w_ptr),
                      Span(tcm_w, i) < Span(tcm_w, w_ptr) - todo
               PROVE  slots'[i] \in Items
    BY <1>1 DEF PendingFilled, InSpan
  <2>1. i # tcm_r
    BY <1>1, <1>2, DepthAssumption DEF InSpan, Span, Index
  <2> QED
    BY <2>1, <1>4 DEF IInv, PendingFilled
<1> QED
  BY <1>5, <1>6, <1>7, <1>8, <1>9 DEF IInv

(* The bus going down or up changes no pointer.                            *)
LEMMA BusInv == IInv /\ (BusDown \/ BusUp) => IInv'
<1> SUFFICES ASSUME IInv, BusDown \/ BusUp PROVE IInv'
  OBVIOUS
<1>1. /\ up' = FALSE \/ up' = TRUE
      /\ UNCHANGED << r_ptr, w_ptr, was_full, pc, todo, wrote, slots, tcm_r, tcm_w >>
  BY Zenon DEF BusDown, BusUp, host
<1>2. FlagsOK
  BY DEF IInv, TypeOK
<1>3. FlagsOK'
  BY <1>1, <1>2, Zenon DEF FlagsOK
<1> QED
  BY <1>1, <1>3 DEF IInv, TypeOK, PointersOK, PointersInOrder,
     TodoUnpublished, UnreadFilled, PendingFilled, InSpan

-----------------------------------------------------------------------------
(* A step that changes nothing keeps the invariant.                        *)
LEMMA StutterInv == IInv /\ UNCHANGED vars => IInv'
<1> SUFFICES ASSUME IInv, UNCHANGED vars PROVE IInv'
  OBVIOUS
<1>1. UNCHANGED << r_ptr, w_ptr, was_full, pc, todo, wrote, up, slots, tcm_r, tcm_w >>
  BY DEF vars
<1>2. FlagsOK
  BY DEF IInv, TypeOK
<1>3. FlagsOK'
  BY <1>1, <1>2, Zenon DEF FlagsOK
<1> QED
  BY <1>1, <1>3 DEF IInv, TypeOK, PointersOK, PointersInOrder,
     TodoUnpublished, UnreadFilled, PendingFilled, InSpan

(* IInv is inductive. *)
THEOREM StepInv == IInv /\ [Next]_vars => IInv'
<1> SUFFICES ASSUME IInv, [Next]_vars PROVE IInv'
  OBVIOUS
<1>1. CASE WriteAvailable
  BY <1>1, WriteAvailableInv
<1>2. CASE ReserveForWrite
  <2>1. Reserve(1, "txflow")
    BY <1>2 DEF ReserveForWrite
  <2> QED
    BY <2>1, ReserveInv
<1>3. CASE ReserveForWriteMultiple
  <2>1. PICK n \in 1 .. MaxBatch : Reserve(n, "post")
    BY <1>3 DEF ReserveForWriteMultiple
  <2>2. n \in Nat \ {0}
    BY BatchAssumption
  <2> QED
    BY <2>1, <2>2, ReserveInv
<1>4. CASE Fill
  BY <1>4, FillInv
<1>5. CASE WriteCancel
  BY <1>5, WriteCancelInv
<1>6. CASE WriteComplete
  BY <1>6, WriteCompleteInv
<1>7. CASE DeviceTake
  BY <1>7, DeviceTakeInv
<1>8. CASE BusDown \/ BusUp
  BY <1>8, BusInv
<1>9. CASE UNCHANGED vars
  BY <1>9, StutterInv
<1> QED
  BY <1>1, <1>2, <1>3, <1>4, <1>5, <1>6, <1>7, <1>8, <1>9 DEF Next

(* For every depth, batch size and set of messages: the variables keep     *)
(* their types, the pointers their order, and every slot the device may    *)
(* read, or that an unpublished batch holds, is filled.                    *)
THEOREM Safety == Spec => []IInv
<1> QED
  BY InitInv, StepInv, PTL DEF Spec

(* Every pointer the host keeps or reads back stays inside the ring.       *)
THEOREM TypeCorrect == Spec => []TypeOK
<1>1. IInv => TypeOK
  BY DEF IInv
<1> QED
  BY <1>1, Safety, PTL

(* The host's estimate of the free space, made from a read pointer that    *)
(* may be arbitrarily old, never counts a slot the device has not read.    *)
THEOREM StalePointerSafe == Spec => []PointersInOrder
<1>1. IInv => PointersInOrder
  BY DEF IInv
<1> QED
  BY <1>1, Safety, PTL

(* The device never meets a slot that was not filled.                      *)
THEOREM DeviceReadsFilled == Spec => []UnreadFilled
<1>1. IInv => UnreadFilled
  BY DEF IInv
<1> QED
  BY <1>1, Safety, PTL

-----------------------------------------------------------------------------
(* A published slot keeps its message until the device frees it, whatever  *)
(* the host reserves, fills, cancels or publishes meanwhile.               *)
THEOREM PublishedSlotsKept == Spec => PublishedImmutable
<1> DEFINE Kept == \A i \in Index :
                     InSpan(i, tcm_r, tcm_w) /\ i # tcm_r => slots'[i] = slots[i]
<1>1. IInv /\ [Next]_vars => [Kept]_vars
  <2> SUFFICES ASSUME IInv, Next PROVE Kept
    OBVIOUS
  <2>1. CASE slots' = slots
    BY <2>1
  <2>2. CASE Fill
    <3> DEFINE s == Advance(w_ptr, Depth - todo)
    <3>1. PICK item \in Items : slots' = [slots EXCEPT ![s] = item]
      BY <2>2 DEF Fill
    <3>2. /\ w_ptr \in Index /\ tcm_r \in Index /\ tcm_w \in Index
          /\ r_ptr \in Index /\ todo \in 1 .. Depth - 1
          /\ todo <= Span(tcm_w, w_ptr)
          /\ Span(r_ptr, tcm_r) + Span(tcm_r, tcm_w) + Span(tcm_w, w_ptr)
               = Span(r_ptr, w_ptr)
          /\ slots \in [Index -> Items \cup {Stale}]
      BY <2>2, DepthAssumption
      DEF Fill, IInv, TypeOK, PointersOK, TodoUnpublished, PointersInOrder
    <3>3. ~InSpan(s, tcm_r, tcm_w)
      <4>1. Span(tcm_r, tcm_w) + Span(tcm_w, w_ptr) < Depth
        BY <3>2, SpanRange, DepthAssumption
      <4>2. s \in Index /\ Span(tcm_w, s) = Span(tcm_w, w_ptr) - todo
        BY <3>2, DepthAssumption DEF Advance, Span, Index
      <4>3. Span(tcm_r, s) = Span(tcm_r, tcm_w) + Span(tcm_w, s)
        <5> HIDE DEF s
        <5> QED
          BY <4>1, <4>2, <3>2, DepthAssumption DEF Span, Index
      <4>4. Span(tcm_r, tcm_w) \in Nat /\ Span(tcm_w, s) \in Nat
        BY <3>2, <4>2, SpanRange
      <4> HIDE DEF s
      <4> QED
        BY <4>3, <4>4 DEF InSpan
    <3> QED
      BY <3>1, <3>2, <3>3
  <2>3. CASE DeviceTake
    <3>1. slots' = [slots EXCEPT ![tcm_r] = Stale] /\ slots \in [Index -> Items \cup {Stale}]
      BY <2>3 DEF DeviceTake, IInv, TypeOK
    <3> QED
      BY <3>1
  <2> QED
    BY <2>1, <2>2, <2>3 DEF Next, WriteAvailable, ReserveForWrite,
       ReserveForWriteMultiple, Reserve, WriteCancel, WriteComplete, BusDown, BusUp
<1> QED
  BY <1>1, Safety, PTL DEF Spec, PublishedImmutable
-----------------------------------------------------------------------------
(* The ring implements the bounded FIFO, for every depth: publishing the   *)
(* write index appends what was filled, the device takes the oldest, and   *)
(* no other step of the host, with the bus up or down, can be seen there.  *)
THEOREM ImplementsFifo == Spec => RefinesFifo
<1>1. DeviceView = View(slots, tcm_r, tcm_w)
  BY DEF DeviceView
<1>2. DeviceView' = View(slots', tcm_r', tcm_w')
  BY DEF DeviceView, View, Span, Advance
<1>3. Init => Fifo!Init
  <2> SUFFICES ASSUME Init PROVE DeviceView = << >>
    BY DEF Fifo!Init
  <2>1. tcm_r \in Index /\ tcm_w = tcm_r
    BY DepthAssumption DEF Init, Index
  <2> QED
    BY <1>1, <2>1, ViewEmpty
<1>4. IInv /\ [Next]_vars => [Fifo!Next]_DeviceView
  <2> SUFFICES ASSUME IInv, [Next]_vars, DeviceView' # DeviceView PROVE Fifo!Next
    OBVIOUS
  <2>1. /\ tcm_r \in Index /\ tcm_w \in Index /\ w_ptr \in Index /\ r_ptr \in Index
        /\ todo \in 0 .. Depth - 1
        /\ slots \in [Index -> Items \cup {Stale}]
        /\ Span(r_ptr, tcm_r) + Span(tcm_r, tcm_w) + Span(tcm_w, w_ptr) = Span(r_ptr, w_ptr)
    BY DEF IInv, TypeOK, PointersOK, PointersInOrder
  <2>2. Span(tcm_r, tcm_w) + Span(tcm_w, w_ptr) = Span(tcm_r, w_ptr)
    BY <2>1, DepthAssumption DEF Span, Index
  <2>3. \A i \in Index : InSpan(i, tcm_r, tcm_w) => slots[i] \in Items
    BY DEF IInv, UnreadFilled
  <2>4. CASE WriteComplete
    <3>1. up /\ tcm_w' = w_ptr /\ tcm_r' = tcm_r /\ slots' = slots /\ todo = 0
      BY <1>1, <1>2, <2>4 DEF WriteComplete
    <3>2. \A i \in Index : InSpan(i, tcm_w, w_ptr) => slots[i] \in Items
      BY <3>1, <2>1, SpanRange, DepthAssumption DEF IInv, PendingFilled, InSpan
    <3>3. w_ptr # tcm_w
      BY <1>1, <1>2, <3>1
    <3> DEFINE n == Span(tcm_w, w_ptr)
               batch == View(slots, tcm_w, w_ptr)
    <3>4. /\ n \in 1 .. (Depth - 1) - Len(DeviceView)
          /\ batch \in [1 .. n -> Items]
          /\ DeviceView' = DeviceView \o batch
      <4>1. /\ Span(tcm_w, w_ptr) \in 1 .. (Depth - 1) - Len(View(slots, tcm_r, tcm_w))
            /\ View(slots, tcm_w, w_ptr) \in [1 .. Span(tcm_w, w_ptr) -> Items]
            /\ View(slots, tcm_r, w_ptr) = View(slots, tcm_r, tcm_w) \o View(slots, tcm_w, w_ptr)
        BY <2>1, <2>2, <2>3, <3>2, <3>3, ViewPublish
      <4> QED
        BY <1>1, <1>2, <3>1, <4>1
    <3> HIDE DEF n, batch
    <3> QED
      BY <3>4 DEF Fifo!Next, Fifo!Publish
  <2>5. CASE DeviceTake
    <3>1. /\ tcm_r # tcm_w /\ tcm_r' = Advance(tcm_r, 1) /\ tcm_w' = tcm_w
          /\ slots' = [slots EXCEPT ![tcm_r] = Stale]
      BY <2>5 DEF DeviceTake
    <3>2. /\ slots' \in [Index -> Items \cup {Stale}]
          /\ \A i \in Index : InSpan(i, tcm_r, tcm_w) /\ i # tcm_r => slots'[i] = slots[i]
      BY <2>1, <3>1
    <3>3. /\ View(slots, tcm_r, tcm_w) # << >>
          /\ View(slots', Advance(tcm_r, 1), tcm_w) = Tail(View(slots, tcm_r, tcm_w))
      <4>1. ASSUME NEW t \in [Index -> Items \cup {Stale}],
                   \A i \in Index : InSpan(i, tcm_r, tcm_w) /\ i # tcm_r => t[i] = slots[i]
            PROVE  /\ View(slots, tcm_r, tcm_w) # << >>
                   /\ View(t, Advance(tcm_r, 1), tcm_w) = Tail(View(slots, tcm_r, tcm_w))
        BY <2>1, <2>3, <3>1, <4>1, ViewTail
      <4> QED
        BY <3>2, <4>1
    <3>4. DeviceView # << >> /\ DeviceView' = Tail(DeviceView)
      BY <1>1, <1>2, <3>1, <3>3
    <3> QED
      BY <3>4 DEF Fifo!Next, Fifo!Take
  <2>6. CASE Fill
    <3> DEFINE s == Advance(w_ptr, Depth - todo)
    <3>1. PICK item \in Items : slots' = [slots EXCEPT ![s] = item]
      BY <2>6 DEF Fill
    <3>2. tcm_r' = tcm_r /\ tcm_w' = tcm_w /\ todo > 0 /\ todo <= Span(tcm_w, w_ptr)
      BY <2>6 DEF Fill, IInv, TodoUnpublished
    <3>3. s \in Index /\ Span(tcm_w, s) = Span(tcm_w, w_ptr) - todo
      BY <2>1, <3>2, DepthAssumption DEF Advance, Span, Index
    <3>4. ~InSpan(s, tcm_r, tcm_w)
      BY <2>1, <2>2, <3>2, <3>3, DepthAssumption DEF InSpan, Span, Index
    <3>5. \A i \in Index : InSpan(i, tcm_r, tcm_w) => slots'[i] = slots[i]
      BY <2>1, <3>1, <3>4
    <3> QED
      BY <1>1, <1>2, <2>1, <3>2, <3>5, ViewKept
  <2>7. CASE UNCHANGED << slots, tcm_r, tcm_w >>
    BY <1>1, <1>2, <2>7
  <2> QED
    BY <2>4, <2>5, <2>6, <2>7 DEF Next, WriteAvailable, ReserveForWrite, host,
       ReserveForWriteMultiple, Reserve, WriteCancel, BusDown, BusUp, vars
<1> QED
  BY <1>3, <1>4, Safety, PTL DEF Spec, RefinesFifo, Fifo!Spec
-----------------------------------------------------------------------------
(* What the bus staying up adds to IInv: between two submissions every     *)
(* reserved slot has been published or handed back, and a submission that  *)
(* filled nothing can hand back all it reserved.                           *)
Settled ==
  /\ pc = "idle" => w_ptr = tcm_w /\ wrote = FALSE
  /\ pc = "post" /\ wrote = FALSE => Span(tcm_w, w_ptr) = todo

(* No step taken with the bus up leaves a slot behind.                     *)
LEMMA SettledStep == IInv /\ up /\ Settled /\ [Next]_vars => Settled'
<1> SUFFICES ASSUME IInv, up, Settled, [Next]_vars PROVE Settled'
  OBVIOUS
<1>1. /\ w_ptr \in Index /\ tcm_w \in Index /\ r_ptr \in Index /\ tcm_r \in Index
      /\ todo \in 0 .. Depth - 1
      /\ todo <= Span(tcm_w, w_ptr) /\ (w_ptr = 0 \/ todo <= w_ptr)
  BY DEF IInv, TypeOK, PointersOK, TodoUnpublished
<1>2. CASE WriteAvailable
  <2>1. UNCHANGED << w_ptr, wrote, tcm_w, todo >> /\ pc' \in {"txflow", "idle"} /\ pc = "idle"
    BY <1>2 DEF WriteAvailable
  <2> QED
    BY <2>1 DEF Settled
<1>3. CASE ReserveForWrite
  <2>1. pc' = "txflow"
    BY <1>3 DEF ReserveForWrite, Reserve
  <2> QED
    BY <2>1 DEF Settled
<1>4. CASE ReserveForWriteMultiple
  <2>1. PICK n \in 1 .. MaxBatch : pc = "idle" /\ Reserve(n, "post")
    BY <1>4 DEF ReserveForWriteMultiple
  <2> DEFINE g == Granted(n, RetriedR)
  <2>2. UNCHANGED << wrote, tcm_w >> /\ w_ptr = tcm_w /\ wrote = FALSE
    BY <2>1 DEF Reserve, Settled
  <2>3. CASE Available(RetriedR) > 1
    <3>1. g \in 1 .. Depth - 1
      BY <1>1, <2>3, RetriedIsRefreshed, GrantedRange, BatchAssumption
    <3>2. todo' = g /\ w_ptr' = Advance(w_ptr, g) /\ pc' = "post"
      BY <2>1, <2>3 DEF Reserve
    <3> HIDE DEF g
    <3>3. Span(tcm_w, Advance(w_ptr, g)) = g
      BY <1>1, <2>2, <3>1, DepthAssumption DEF Span, Advance, Index
    <3> QED
      BY <2>2, <3>2, <3>3 DEF Settled
  <2>4. CASE ~(Available(RetriedR) > 1)
    BY <2>1, <2>2, <2>4 DEF Reserve, Settled
  <2> QED
    BY <2>3, <2>4
<1>5. CASE Fill
  <2>1. UNCHANGED << w_ptr, pc, tcm_w >> /\ wrote' = TRUE /\ todo > 0
    BY <1>5 DEF Fill
  <2>2. pc # "idle"
    BY <1>1, <2>1, DepthAssumption DEF Settled, Span, Index
  <2> QED
    BY <2>1, <2>2 DEF Settled
<1>6. CASE WriteCancel
  <2>1. /\ pc = "post" /\ todo > 0 /\ todo' = 0 /\ UNCHANGED << wrote, tcm_w >>
        /\ w_ptr' = IF w_ptr = 0 THEN Depth - todo ELSE w_ptr - todo
        /\ pc' = IF wrote THEN "post" ELSE "idle"
    BY <1>6 DEF WriteCancel, CancelSlots
  <2>2. CASE wrote = FALSE
    <3>1. w_ptr' = tcm_w
      BY <1>1, <2>1, <2>2, DepthAssumption DEF Settled, Span, Index
    <3> QED
      BY <2>1, <2>2, <3>1 DEF Settled
  <2>3. CASE wrote = TRUE
    BY <2>1, <2>3 DEF Settled
  <2>4. wrote \in BOOLEAN
    BY DEF IInv, TypeOK, FlagsOK
  <2> QED
    BY <2>2, <2>3, <2>4, Zenon
<1>7. CASE WriteComplete
  <2>1. tcm_w' = w_ptr /\ w_ptr' = w_ptr /\ pc' \in {"txflow", "idle"} /\ wrote' = FALSE
    BY <1>7 DEF WriteComplete
  <2> QED
    BY <2>1 DEF Settled
<1>8. CASE DeviceTake \/ BusDown \/ BusUp \/ UNCHANGED vars
  <2>1. UNCHANGED << w_ptr, pc, tcm_w, wrote, todo >>
    BY <1>8 DEF DeviceTake, BusDown, BusUp, host, vars
  <2> QED
    BY <2>1 DEF Settled, Span
<1> QED
  BY <1>2, <1>3, <1>4, <1>5, <1>6, <1>7, <1>8 DEF Next

(* While the bus stays up, a producer is refused only as long as the       *)
(* device has messages to take, for every depth of the ring.               *)
THEOREM DrainedAccepts == Spec => DrainedRingAccepts
<1>1. Init => Settled
  BY DEF Init, Settled
<1>2. IInv /\ up /\ Settled => (pc = "idle" /\ tcm_r = tcm_w => Roomy(RefreshedR))
  <2> SUFFICES ASSUME IInv, up, Settled, pc = "idle", tcm_r = tcm_w
               PROVE  Roomy(RefreshedR)
    OBVIOUS
  <2>1. RefreshedR = w_ptr /\ w_ptr \in Index
    BY DEF RefreshedR, Settled, IInv, TypeOK, PointersOK
  <2>2. Available(RefreshedR) = Depth
    BY <2>1, DepthAssumption DEF Available, Index
  <2>3. Depth > 1 /\ Depth > Depth \div 8
    BY DepthAssumption
  <2> QED
    BY <2>2, <2>3 DEF Roomy
<1> QED
  BY <1>1, <1>2, Safety, SettledStep, PTL DEF Spec, DrainedRingAccepts

(***************************************************************************)
(* Flow control of the queue.                                              *)
(***************************************************************************)

QuietDeletes == RacyDelete = FALSE

(* What an action needs to know about brcmf_flowring_block: the flags stay *)
(* Boolean, only ring r changes, and a set stop reason keeps a blocked     *)
(* ring behind it.                                                         *)
LEMMA BlockEffect ==
  ASSUME NEW r \in Rings, NEW b \in BOOLEAN,
         blocked \in [Rings -> BOOLEAN], stopped \in BOOLEAN,
         StoppedMeansBlocked, Block(r, b)
  PROVE  /\ blocked' \in [Rings -> BOOLEAN]
         /\ stopped' \in BOOLEAN
         /\ blocked'[r] = b
         /\ \A i \in Rings \ {r} : blocked'[i] = blocked[i]
         /\ stopped' => \E i \in Rings : blocked'[i]
<1>1. CASE blocked[r] = b
  <2>1. blocked' = blocked /\ stopped' = stopped
    BY <1>1 DEF Block
  <2>2. QED
    BY <1>1, <2>1 DEF StoppedMeansBlocked
<1>2. CASE blocked[r] # b
  <2>1. blocked' = [blocked EXCEPT ![r] = b]
    BY <1>2 DEF Block
  <2>2. blocked' \in [Rings -> BOOLEAN] /\ blocked'[r] = b
    BY <2>1
  <2>3. \A i \in Rings \ {r} : blocked'[i] = blocked[i]
    BY <2>1
  <2>4. stopped' = IF \E i \in Rings \ {r} : status[i] = "OPEN" /\ blocked[i]
                     THEN stopped ELSE b
    BY <1>2 DEF Block
  <2>5. stopped' \in BOOLEAN
    BY <2>4
  <2>6. ASSUME stopped' PROVE \E i \in Rings : blocked'[i]
    <3>1. CASE \E i \in Rings \ {r} : status[i] = "OPEN" /\ blocked[i]
      BY <3>1, <2>3
    <3>2. CASE ~\E i \in Rings \ {r} : status[i] = "OPEN" /\ blocked[i]
      BY <3>2, <2>4, <2>6, <2>2
    <3>3. QED BY <3>1, <3>2
  <2>7. QED BY <2>2, <2>3, <2>5, <2>6
<1>3. QED BY <1>1, <1>2

-----------------------------------------------------------------------------
(* No ring exists and nobody is at work. *)
THEOREM FlowInitInv == FlowInit => FlowInv
<1> SUFFICES ASSUME FlowInit PROVE FlowInv
  OBVIOUS
<1>1. FlowTypeOK
  <2>1. status \in [Rings -> {"NULL", "CLOSED", "CLOSING", "OPEN"}]
    BY DEF FlowInit
  <2>2. qlen \in [Rings -> 0 .. MaxLen + 1]
    BY LimitAssumption, LenAssumption DEF FlowInit
  <2>3. blocked \in [Rings -> BOOLEAN]
    BY DEF FlowInit
  <2>4. freeing \in [Rings -> BOOLEAN]
    BY DEF FlowInit
  <2>5. stopped \in BOOLEAN
    BY DEF FlowInit
  <2>6. /\ spc \in [Senders -> {"idle", "test", "block", "recheck", "unblock", "schedule"}]
        /\ sring \in [Senders -> Rings \cup {NoRing}]
    BY DEF FlowInit
  <2>7. /\ wpc \in {"idle", "next", "popped", "unblock", "post", "back"}
        /\ wring \in Rings \cup {NoRing}
    BY DEF FlowInit
  <2>8. SchedOK
    BY WorkerAssumption DEF FlowInit, SchedOK
  <2> QED BY <2>1, <2>2, <2>3, <2>4, <2>5, <2>6, <2>7, <2>8, Zenon DEF FlowTypeOK
<1>2. \A s \in Senders : spc[s] = "idle"
  BY DEF FlowInit
<1>3. wpc = "idle" /\ ~stopped
  BY DEF FlowInit
<1>4. \A r \in Rings : ~blocked[r] /\ ~freeing[r]
  BY DEF FlowInit
<1>5. PlacesOK
  BY <1>2, <1>3 DEF PlacesOK, Holding
<1>6. BlockedIsWatched /\ FreeingIsQuiet
  BY <1>4 DEF BlockedIsWatched, FreeingIsQuiet
<1>7. StoppedMeansBlocked
  BY <1>3 DEF StoppedMeansBlocked
<1> QED BY <1>1, <1>5, <1>6, <1>7 DEF FlowInv

(* The bookkeeping of the worker is typed, whatever the step.              *)
LEMMA SchedSteps ==
  ASSUME FlowInv, FlowNext
  PROVE  SchedOK'
<1>1. /\ work \in [Rings -> {"none", "set", "queued"}] /\ out \in [Rings -> 0 .. MaxOut]
      /\ wpc # "idle" => wring \in Rings
      /\ \A s \in Senders : spc[s] # "idle" => sring[s] \in Rings
  BY DEF FlowInv, FlowTypeOK, SchedOK, PlacesOK
<1>2. ASSUME NEW r \in Rings, NEW b \in BOOLEAN, ScheduleTxdata(r, b)
      PROVE  work' \in [Rings -> {"none", "set", "queued"}]
  BY <1>1, <1>2 DEF ScheduleTxdata
<1>3. ASSUME NEW r \in Rings, Scan(r) \/ TxStatus(r) PROVE SchedOK'
  BY <1>1, <1>3, WorkerAssumption DEF Scan, TxStatus, SchedOK
<1>4. ASSUME NEW r \in Rings, Open(r) PROVE SchedOK'
  BY <1>1, <1>2, <1>4 DEF Open, SchedOK
<1>5. ASSUME NEW s \in Senders, Schedule(s) PROVE SchedOK'
  BY <1>1, <1>2, <1>5 DEF Schedule, SchedOK
<1>6. CASE Post
  BY <1>1, <1>6, WorkerAssumption DEF Post, SchedOK
<1>7. CASE UNCHANGED << work, out >>
  BY <1>1, <1>7 DEF SchedOK
<1>8. FlowNext
      => \/ \E r \in Rings : Scan(r) \/ TxStatus(r) \/ Open(r)
         \/ \E s \in Senders : Schedule(s)
         \/ Post
         \/ UNCHANGED << work, out >>
  BY Zenon DEF FlowNext, Create, Closing, DeleteUnblock, DeleteFree, Enqueue, SenderStep,
     TestHigh, BlockHigh, RecheckLow, UnblockLow, WorkerStep, Dequeue, TestLow,
     WorkerUnblock, NoRoom, NoPktid, Reinsert, Release, sched
<1> QED
  BY <1>3, <1>4, <1>5, <1>6, <1>7, <1>8

(* The steps keep the invariant, one lemma per actor: the life of a ring,  *)
LEMMA RingSteps ==
  ASSUME QuietDeletes, FlowInv, SchedOK', NEW r \in Rings,
         Create(r) \/ Open(r) \/ Closing(r) \/ DeleteUnblock(r) \/ DeleteFree(r)
  PROVE  FlowInv'
<1>1. UNCHANGED << spc, sring, wpc, wring >>
  BY DEF Create, Open, Closing, DeleteUnblock, DeleteFree, sender, worker
<1>2. \A i \in Rings : Inside(i)' = Inside(i)
  BY <1>1 DEF Inside
<1>3. CASE Create(r) \/ Open(r) \/ Closing(r)
  <2>1. UNCHANGED << qlen, blocked, freeing, stopped >>
    BY <1>3 DEF Create, Open, Closing
  <2>2. status \in [Rings -> {"NULL", "CLOSED", "CLOSING", "OPEN"}]
    BY DEF FlowInv, FlowTypeOK
  <2>3. PICK x \in {"CLOSED", "OPEN", "CLOSING"} :
           /\ status' = [status EXCEPT ![r] = x]
           /\ freeing[r] => x = "CLOSING"
           /\ wring = r /\ wpc \in Holding => x = "OPEN"
    <3>1. CASE Create(r)
      BY <3>1 DEF Create, Live, FlowInv, FreeingIsQuiet, PlacesOK
    <3>2. CASE Open(r)
      BY <3>2 DEF Open
    <3>3. CASE Closing(r)
      BY <3>3 DEF Closing
    <3> QED BY <1>3, <3>1, <3>2, <3>3
  <2>4. status' \in [Rings -> {"NULL", "CLOSED", "CLOSING", "OPEN"}]
    BY <2>2, <2>3
  <2>5. FlowTypeOK'
    BY <1>1, <2>1, <2>4, Zenon DEF FlowInv, FlowTypeOK
  <2>6. PlacesOK'
    <3>1. wpc \in Holding => wpc # "idle"
      BY DEF Holding
    <3> QED
      BY <1>1, <2>1, <2>2, <2>3, <3>1 DEF FlowInv, PlacesOK
  <2>7. BlockedIsWatched' /\ StoppedMeansBlocked'
    BY <1>1, <2>1, Zenon DEF FlowInv, BlockedIsWatched, LooksAgain, StoppedMeansBlocked
  <2>8. FreeingIsQuiet'
    BY <1>2, <2>1, <2>2, <2>3 DEF FlowInv, FreeingIsQuiet
  <2> QED BY <2>5, <2>6, <2>7, <2>8, Zenon DEF FlowInv
<1>4. CASE DeleteUnblock(r)
  <2>1. UNCHANGED << status, qlen >> /\ freeing' = [freeing EXCEPT ![r] = TRUE]
    BY <1>4 DEF DeleteUnblock
  <2>2. /\ blocked' \in [Rings -> BOOLEAN] /\ stopped' \in BOOLEAN
        /\ blocked'[r] = FALSE
        /\ \A i \in Rings \ {r} : blocked'[i] = blocked[i]
        /\ stopped' => \E i \in Rings : blocked'[i]
    BY <1>4, BlockEffect DEF DeleteUnblock, FlowInv, FlowTypeOK
  <2>3. freeing' \in [Rings -> BOOLEAN]
    BY <2>1 DEF FlowInv, FlowTypeOK
  <2>4. FlowTypeOK'
    BY <1>1, <2>1, <2>2, <2>3, Zenon DEF FlowInv, FlowTypeOK
  <2>5. PlacesOK'
    BY <1>1, <2>1 DEF FlowInv, PlacesOK
  <2>6. BlockedIsWatched'
    BY <1>1, <2>1, <2>2 DEF FlowInv, BlockedIsWatched, LooksAgain
  <2>7. FreeingIsQuiet'
    <3> SUFFICES ASSUME NEW i \in Rings, freeing'[i]
                 PROVE  /\ status'[i] \in {"CLOSED", "CLOSING"}
                        /\ ~blocked'[i] /\ Inside(i)' = {}
      BY DEF FreeingIsQuiet
    <3>1. CASE i = r
      BY <3>1, <1>2, <1>4, <2>1, <2>2 DEF DeleteUnblock, QuietDeletes
    <3>2. CASE i # r
      <4>1. freeing[i] BY <3>2, <2>1 DEF FlowInv, FlowTypeOK
      <4> QED BY <3>2, <4>1, <1>2, <2>1, <2>2 DEF FlowInv, FreeingIsQuiet
    <3> QED BY <3>1, <3>2
  <2>8. StoppedMeansBlocked'
    BY <2>2 DEF StoppedMeansBlocked
  <2> QED BY <2>4, <2>5, <2>6, <2>7, <2>8, Zenon DEF FlowInv
<1>5. CASE DeleteFree(r)
  <2>1. /\ freeing[r] /\ stopped' = stopped
        /\ status' = [status EXCEPT ![r] = "NULL"]
        /\ qlen' = [qlen EXCEPT ![r] = 0]
        /\ blocked' = [blocked EXCEPT ![r] = FALSE]
        /\ freeing' = [freeing EXCEPT ![r] = FALSE]
    BY <1>5 DEF DeleteFree
  <2>2. ~blocked[r] /\ status[r] \in {"CLOSED", "CLOSING"}
    BY <2>1 DEF FlowInv, FreeingIsQuiet
  <2>3. blocked' = blocked
    BY <2>1, <2>2 DEF FlowInv, FlowTypeOK
  <2>4. freeing' \in [Rings -> BOOLEAN]
    BY <2>1 DEF FlowInv, FlowTypeOK
  <2>5. /\ status' \in [Rings -> {"NULL", "CLOSED", "CLOSING", "OPEN"}]
        /\ qlen' \in [Rings -> 0 .. MaxLen + 1]
    BY <2>1, LenAssumption, LimitAssumption DEF FlowInv, FlowTypeOK
  <2>6. FlowTypeOK'
    BY <1>1, <2>1, <2>3, <2>4, <2>5, Zenon DEF FlowInv, FlowTypeOK
  <2>7. PlacesOK'
    BY <1>1, <2>1, <2>2 DEF FlowInv, PlacesOK, FlowTypeOK
  <2>8. BlockedIsWatched'
    BY <1>1, <2>1, <2>2, <2>3 DEF FlowInv, FlowTypeOK, BlockedIsWatched, LooksAgain
  <2>9. FreeingIsQuiet'
    <3> SUFFICES ASSUME NEW i \in Rings, freeing'[i]
                 PROVE  /\ status'[i] \in {"CLOSED", "CLOSING"}
                        /\ ~blocked'[i] /\ Inside(i)' = {}
      BY DEF FreeingIsQuiet
    <3>1. i # r /\ freeing[i]
      BY <2>1 DEF FlowInv, FlowTypeOK
    <3> QED BY <3>1, <1>2, <2>1, <2>3 DEF FlowInv, FlowTypeOK, FreeingIsQuiet
  <2>10. StoppedMeansBlocked'
    BY <2>1, <2>3 DEF FlowInv, StoppedMeansBlocked
  <2> QED BY <2>6, <2>7, <2>8, <2>9, <2>10, Zenon DEF FlowInv
<1> QED BY <1>3, <1>4, <1>5

(* a sender in brcmf_flowring_enqueue: it works on a ring that is not      *)
(* being freed, and stays on it until it leaves,                           *)
LEMMA SenderMoves ==
  ASSUME QuietDeletes, FlowInv, NEW s \in Senders,
         \/ \E r \in Rings : Enqueue(s, r)
         \/ TestHigh(s) \/ BlockHigh(s) \/ RecheckLow(s) \/ UnblockLow(s) \/ Schedule(s)
  PROVE  /\ UNCHANGED << status, freeing, wpc, wring >>
         /\ \E x \in {"idle", "test", "block", "recheck", "unblock", "schedule"} :
              /\ spc' = [spc EXCEPT ![s] = x]
              /\ \E r \in Rings \cup {NoRing} :
                   /\ sring' = [sring EXCEPT ![s] = r]
                   /\ x # "idle" => r \in Rings /\ ~freeing[r]
<1> DEFINE At == {"idle", "test", "block", "recheck", "unblock", "schedule"}
<1>1. UNCHANGED << status, freeing, wpc, wring >>
  BY DEF Enqueue, TestHigh, BlockHigh, RecheckLow, UnblockLow, Schedule, worker
<1>2. spc \in [Senders -> At] /\ sring \in [Senders -> Rings \cup {NoRing}]
  BY DEF FlowInv, FlowTypeOK
<1>3. CASE \E r \in Rings : Enqueue(s, r)
  BY <1>3, <1>1 DEF Enqueue, QuietDeletes
<1>4. spc[s] # "idle" => sring[s] \in Rings /\ ~freeing[sring[s]]
  BY DEF FlowInv, PlacesOK, FreeingIsQuiet, Inside
<1>5. sring = [sring EXCEPT ![s] = sring[s]]
  BY <1>2
<1>6. CASE TestHigh(s)
  BY <1>1, <1>4, <1>5, <1>6 DEF TestHigh
<1>7. CASE BlockHigh(s)
  BY <1>1, <1>4, <1>5, <1>7 DEF BlockHigh
<1>8. CASE RecheckLow(s)
  BY <1>1, <1>4, <1>5, <1>8 DEF RecheckLow
<1>9. CASE UnblockLow(s)
  BY <1>1, <1>4, <1>5, <1>9 DEF UnblockLow
<1>10. CASE Schedule(s)
  BY <1>1, <1>10 DEF Schedule
<1> QED BY <1>3, <1>6, <1>7, <1>8, <1>9, <1>10

LEMMA SenderSteps ==
  ASSUME QuietDeletes, FlowInv, SchedOK', NEW s \in Senders,
         \/ \E r \in Rings : Enqueue(s, r)
         \/ TestHigh(s) \/ BlockHigh(s) \/ RecheckLow(s) \/ UnblockLow(s) \/ Schedule(s)
  PROVE  FlowInv'
<1> DEFINE At == {"idle", "test", "block", "recheck", "unblock", "schedule"}
<1>0. UNCHANGED << status, freeing, wpc, wring >>
  BY SenderMoves
<1>1. PICK x \in At, q \in Rings \cup {NoRing} :
        /\ spc' = [spc EXCEPT ![s] = x] /\ sring' = [sring EXCEPT ![s] = q]
        /\ x # "idle" => q \in Rings /\ ~freeing[q]
  BY SenderMoves
<1>2. spc \in [Senders -> At] /\ sring \in [Senders -> Rings \cup {NoRing}]
  BY DEF FlowInv, FlowTypeOK
<1>3. spc' \in [Senders -> At] /\ sring' \in [Senders -> Rings \cup {NoRing}]
  BY <1>1, <1>2
<1>4. ASSUME \A i \in Rings : qlen[i] <= MaxLen => qlen'[i] <= MaxLen PROVE PlacesOK'
  <2>1. wpc \in Holding => wpc # "idle"
    BY DEF Holding
  <2>2. \A i \in Senders : spc'[i] # "idle" => sring'[i] \in Rings
    BY <1>1, <1>2 DEF FlowInv, PlacesOK
  <2> QED
    BY <1>0, <1>4, <2>1, <2>2 DEF FlowInv, PlacesOK
<1>5. \A i \in Rings : freeing[i] => Inside(i)' = {}
  BY <1>1, <1>2 DEF FlowInv, FreeingIsQuiet, Inside
<1>6. \A i \in Rings : LooksAgain(i) /\ ~LooksAgain(i)' =>
                        i = sring[s] /\ spc[s] \in {"recheck", "unblock"}
  BY <1>0, <1>1, <1>2 DEF LooksAgain
<1>7. /\ qlen \in [Rings -> 0 .. MaxLen + 1] /\ MaxLen \in Nat /\ Low \in Nat
      /\ blocked \in [Rings -> BOOLEAN]
  BY LenAssumption, LimitAssumption DEF FlowInv, FlowTypeOK
<1>8. CASE UNCHANGED << blocked, stopped >>
  <2>1. /\ qlen' \in [Rings -> 0 .. MaxLen + 1]
        /\ \A i \in Rings : qlen'[i] >= qlen[i]
        /\ \A i \in Rings : qlen[i] <= MaxLen => qlen'[i] <= MaxLen
    <3>1. CASE \E r \in Rings : Enqueue(s, r)
      BY <3>1, <1>7 DEF Enqueue
    <3>2. CASE TestHigh(s) \/ BlockHigh(s) \/ RecheckLow(s) \/ UnblockLow(s) \/ Schedule(s)
      <4>1. qlen' = qlen
        BY <3>2, Zenon DEF TestHigh, BlockHigh, RecheckLow, UnblockLow, Schedule
      <4> QED BY <4>1, <1>7
    <3> QED BY <3>1, <3>2
  <2>2. FlowTypeOK'
    BY <1>0, <1>3, <1>8, <2>1, Zenon DEF FlowInv, FlowTypeOK
  <2>3. FreeingIsQuiet' /\ StoppedMeansBlocked'
    BY <1>0, <1>5, <1>8 DEF FlowInv, FreeingIsQuiet, StoppedMeansBlocked
  <2>4. BlockedIsWatched'
    <3> SUFFICES ASSUME NEW i \in Rings, blocked[i], qlen'[i] < Low, ~LooksAgain(i)'
                 PROVE  FALSE
      BY <1>8 DEF BlockedIsWatched
    <3>1. qlen[i] < Low
      <4>1. qlen'[i] >= qlen[i] /\ qlen[i] \in Nat /\ qlen'[i] \in Nat
        BY <1>7, <2>1
      <4> QED
        BY <1>7, <4>1
    <3>2. i = sring[s] /\ spc[s] \in {"recheck", "unblock"}
      BY <3>1, <1>6 DEF FlowInv, BlockedIsWatched
    <3>3. CASE RecheckLow(s)
      BY <3>1, <3>2, <3>3, <1>1, <1>2 DEF RecheckLow, LooksAgain
    <3>4. CASE UnblockLow(s)
      BY <3>2, <3>4, <1>7, <1>8 DEF UnblockLow, Block
    <3>5. /\ ~BlockHigh(s) /\ ~TestHigh(s) /\ ~Schedule(s)
          /\ ~\E r \in Rings : Enqueue(s, r)
      BY <3>2 DEF Enqueue, TestHigh, BlockHigh, Schedule
    <3> QED BY <3>3, <3>4, <3>5
  <2>5. PlacesOK'
    <3>1. \A i \in Rings : qlen[i] <= MaxLen => qlen'[i] <= MaxLen
      BY <2>1
    <3> QED
      BY <1>4, <3>1
  <2> QED BY <2>2, <2>3, <2>4, <2>5, Zenon DEF FlowInv
<1>9. CASE BlockHigh(s) \/ UnblockLow(s)
  <2> DEFINE r == sring[s]
  <2>1. PICK b \in BOOLEAN : Block(r, b) /\ (b <=> BlockHigh(s))
    BY <1>9 DEF BlockHigh, UnblockLow
  <2>2. r \in Rings /\ ~freeing[r] /\ qlen' = qlen
    BY <1>9 DEF BlockHigh, UnblockLow, FlowInv, PlacesOK, FreeingIsQuiet, Inside
  <2>3. /\ blocked' \in [Rings -> BOOLEAN] /\ stopped' \in BOOLEAN
        /\ blocked'[r] = b
        /\ \A i \in Rings \ {r} : blocked'[i] = blocked[i]
        /\ stopped' => \E i \in Rings : blocked'[i]
    BY <2>1, <2>2, BlockEffect DEF FlowInv, FlowTypeOK
  <2>4. FlowTypeOK'
    BY <1>0, <1>3, <2>2, <2>3, Zenon DEF FlowInv, FlowTypeOK
  <2>5. FreeingIsQuiet'
    BY <1>0, <1>5, <2>2, <2>3 DEF FlowInv, FreeingIsQuiet
  <2>6. BlockedIsWatched'
    <3> SUFFICES ASSUME NEW i \in Rings, blocked'[i], qlen[i] < Low, ~LooksAgain(i)'
                 PROVE  FALSE
      BY <2>2 DEF BlockedIsWatched
    <3>1. CASE i = r /\ BlockHigh(s)
      BY <3>1, <1>2 DEF BlockHigh, LooksAgain
    <3>2. CASE i = r /\ ~BlockHigh(s)
      BY <3>2, <2>1, <2>3
    <3>3. CASE i # r
      BY <3>3, <2>3, <1>6 DEF FlowInv, BlockedIsWatched
    <3> QED BY <3>1, <3>2, <3>3
  <2>7. StoppedMeansBlocked'
    BY <2>3 DEF StoppedMeansBlocked
  <2>8. PlacesOK'
    BY <1>4, <2>2
  <2> QED BY <2>4, <2>5, <2>6, <2>7, <2>8, Zenon DEF FlowInv
<1> QED
  BY <1>8, <1>9 DEF Enqueue, TestHigh, BlockHigh, RecheckLow, UnblockLow, Schedule

(* the worker in brcmf_msgbuf_txflow, which holds the ring's lock,         *)
LEMMA WorkerSteps ==
  ASSUME FlowInv, SchedOK', (\E r \in Rings : Scan(r)) \/ WorkerStep
  PROVE  FlowInv'
<1> USE DEF WorkerStep
<1>1. UNCHANGED << status, freeing, spc, sring >>
  BY DEF Scan, Dequeue, TestLow, WorkerUnblock, Post, NoRoom, NoPktid, Reinsert, Release,
     sender
<1>2. \A i \in Rings : Inside(i)' = Inside(i)
  BY <1>1 DEF Inside
<1>3. /\ qlen \in [Rings -> 0 .. MaxLen + 1] /\ MaxLen \in Nat /\ Low \in Nat
      /\ blocked \in [Rings -> BOOLEAN]
  BY LenAssumption, LimitAssumption DEF FlowInv, FlowTypeOK
<1>4. /\ wpc # "idle" => wring \in Rings
      /\ wpc \in Holding => status[wring] = "OPEN" /\ qlen[wring] <= MaxLen
  BY DEF FlowInv, PlacesOK
<1>5. CASE WorkerUnblock
  <2>1. wring' = wring /\ wpc' = "post" /\ qlen' = qlen /\ wring \in Rings
    BY <1>4, <1>5 DEF WorkerUnblock
  <2>2. /\ blocked' \in [Rings -> BOOLEAN] /\ stopped' \in BOOLEAN
        /\ blocked'[wring] = FALSE
        /\ \A i \in Rings \ {wring} : blocked'[i] = blocked[i]
        /\ stopped' => \E i \in Rings : blocked'[i]
    BY <1>5, <2>1, BlockEffect DEF WorkerUnblock, FlowInv, FlowTypeOK
  <2>3. FlowTypeOK'
    BY <1>1, <2>1, <2>2, Zenon DEF FlowInv, FlowTypeOK
  <2>4. PlacesOK'
    BY <1>1, <1>4, <1>5, <2>1 DEF FlowInv, PlacesOK, WorkerUnblock, Holding
  <2>5. BlockedIsWatched'
    BY <1>1, <2>1, <2>2 DEF FlowInv, BlockedIsWatched, LooksAgain
  <2>6. FreeingIsQuiet'
    BY <1>1, <1>2, <2>2 DEF FlowInv, FreeingIsQuiet
  <2>7. StoppedMeansBlocked'
    BY <2>2 DEF StoppedMeansBlocked
  <2> QED BY <2>3, <2>4, <2>5, <2>6, <2>7, Zenon DEF FlowInv
<1>6. CASE ~WorkerUnblock
  <2>1. UNCHANGED << blocked, stopped >>
    BY <1>6 DEF Scan, Dequeue, TestLow, Post, NoRoom, NoPktid, Reinsert, Release
  <2>2. qlen' \in [Rings -> 0 .. MaxLen + 1]
    <3>1. CASE Dequeue
      BY <3>1, <1>3, <1>4 DEF Dequeue
    <3>2. CASE Reinsert
      BY <3>2, <1>3, <1>4 DEF Reinsert, Holding
    <3> QED
      BY <1>6, <3>1, <3>2, <1>3 DEF Scan, TestLow, Post, NoRoom, NoPktid, Release
  <2>3. /\ wpc' \in {"idle", "next", "popped", "unblock", "post", "back"}
        /\ wring' \in Rings \cup {NoRing}
        /\ wpc' # "idle" => wring' \in Rings
    BY <1>4, <1>6 DEF Scan, Dequeue, TestLow, Post, NoRoom, NoPktid, Reinsert, Release,
       FlowInv, FlowTypeOK, worker
  <2>4. wpc' \in Holding => status[wring'] = "OPEN" /\ qlen'[wring'] <= MaxLen
    <3>1. CASE Dequeue
      BY <3>1, <1>3, <1>4 DEF Dequeue
    <3> QED
      BY <1>4, <1>6, <3>1 DEF Scan, TestLow, Post, NoRoom, NoPktid, Reinsert, Release,
         worker, Holding
  <2>5. FlowTypeOK'
    BY <1>1, <2>1, <2>2, <2>3, Zenon DEF FlowInv, FlowTypeOK
  <2>6. PlacesOK'
    BY <1>1, <2>3, <2>4 DEF FlowInv, PlacesOK
  <2>7. FreeingIsQuiet' /\ StoppedMeansBlocked'
    BY <1>1, <1>2, <2>1 DEF FlowInv, FreeingIsQuiet, StoppedMeansBlocked
  <2>8. BlockedIsWatched'
    <3> SUFFICES ASSUME NEW i \in Rings, blocked[i], qlen'[i] < Low, ~LooksAgain(i)'
                 PROVE  FALSE
      BY <2>1 DEF BlockedIsWatched
    <3>1. CASE Dequeue
      BY <3>1, <1>1, <1>3, <1>4 DEF Dequeue, LooksAgain, FlowInv, BlockedIsWatched
    <3>2. CASE TestLow
      BY <3>2, <1>1, <1>4 DEF TestLow, LooksAgain, FlowInv, BlockedIsWatched
    <3>3. CASE Reinsert
      BY <3>3, <1>1, <1>3, <1>4 DEF Reinsert, LooksAgain, FlowInv, BlockedIsWatched
    <3>4. CASE (\E r \in Rings : Scan(r)) \/ Post \/ NoRoom \/ NoPktid \/ Release
      BY <3>4, <1>1 DEF Scan, Post, NoRoom, NoPktid, Release, worker, LooksAgain, FlowInv,
         BlockedIsWatched
    <3> QED BY <1>6, <3>1, <3>2, <3>3, <3>4
  <2> QED BY <2>5, <2>6, <2>7, <2>8, Zenon DEF FlowInv
<1> QED BY <1>5, <1>6

(* and the interrupt thread, which touches neither queue nor flag.         *)
LEMMA StatusSteps ==
  ASSUME FlowInv, SchedOK', NEW r \in Rings, TxStatus(r)
  PROVE  FlowInv'
<1>1. UNCHANGED << status, qlen, blocked, freeing, stopped, spc, sring, wpc, wring >>
  BY DEF TxStatus, sender, worker
<1> QED
  BY <1>1 DEF FlowInv, FlowTypeOK, PlacesOK, BlockedIsWatched, LooksAgain, FreeingIsQuiet,
     Inside, StoppedMeansBlocked

THEOREM FlowStepInv == QuietDeletes /\ FlowInv /\ [FlowNext]_flow_vars => FlowInv'
<1> SUFFICES ASSUME QuietDeletes, FlowInv, [FlowNext]_flow_vars PROVE FlowInv'
  OBVIOUS
<1>1. CASE UNCHANGED flow_vars
  BY <1>1 DEF flow_vars, FlowInv, FlowTypeOK, SchedOK, PlacesOK, BlockedIsWatched, LooksAgain,
              FreeingIsQuiet, Inside, StoppedMeansBlocked
<1>2. CASE FlowNext
  <2>1. SchedOK'
    BY <1>2, SchedSteps
  <2> QED
    BY <1>2, <2>1, RingSteps, SenderSteps, WorkerSteps, StatusSteps DEF FlowNext, SenderStep
<1> QED BY <1>1, <1>2

(* The invariant holds throughout.                                         *)
THEOREM FlowInvariant == QuietDeletes => (FlowSpec => []FlowInv)
<1> SUFFICES ASSUME QuietDeletes PROVE FlowSpec => []FlowInv
  OBVIOUS
<1>1. FlowInit => FlowInv
  BY FlowInitInv
<1>2. FlowInv /\ [FlowNext]_flow_vars => FlowInv'
  BY FlowStepInv
<1> QED BY <1>1, <1>2, PTL DEF FlowSpec

(* The interface's stop reason never outlives the last blocked ring, as    *)
(* long as no ring is deleted under a sender (brcmf_flowring_block).       *)
THEOREM StopHasAReason == QuietDeletes => (FlowSpec => []StoppedMeansBlocked)
<1>1. FlowInv => StoppedMeansBlocked
  BY DEF FlowInv
<1> QED BY <1>1, FlowInvariant, PTL

(* The second look of brcmf_flowring_enqueue closes the race with the      *)
(* worker: a blocked ring nobody works on has packets left.                *)
THEOREM RecheckSuffices == QuietDeletes => (FlowSpec => []BlockedHasBacklog)
<1>1. FlowInv => BlockedHasBacklog
  <2> SUFFICES ASSUME FlowInv, NEW r \in Rings, blocked[r], Inside(r) = {}, wring # r
               PROVE  qlen[r] >= Low
    BY DEF BlockedHasBacklog
  <2>1. ~LooksAgain(r)
    BY DEF LooksAgain, Inside
  <2>2. qlen[r] \in 0 .. MaxLen + 1 /\ Low \in Nat /\ MaxLen \in Nat
    BY LimitAssumption, LenAssumption DEF FlowInv, FlowTypeOK
  <2> QED BY <2>1, <2>2 DEF FlowInv, BlockedIsWatched
<1> QED BY <1>1, FlowInvariant, PTL

(* Type correctness.                                                       *)
THEOREM FlowTypeCorrect == QuietDeletes => (FlowSpec => []FlowTypeOK)
<1>1. FlowInv => FlowTypeOK
  BY DEF FlowInv
<1> QED BY <1>1, FlowInvariant, PTL
=============================================================================
