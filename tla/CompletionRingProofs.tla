------------------------ MODULE CompletionRingProofs ------------------------
(***************************************************************************)
(* Theorems about CompletionRing, for every depth, threshold and set of    *)
(* messages.  Going round the ring from the read index the device sees one *)
(* meets, in this order, the host's read pointer, the slot it handles      *)
(* next, its copy of the write index and the device's write index; the     *)
(* device, which keeps one slot free before the index it sees, therefore   *)
(* never writes on a message that is not handled yet.                      *)
(***************************************************************************)
EXTENDS CompletionRing, TLAPS

(***************************************************************************)
(* Pointers of a ring, and how the messages between two of them change as  *)
(* the pointers move: appended to at the one end, taken from at the other. *)
(***************************************************************************)

(* Going n slots further round the ring adds n to the distance, as long as *)
(* the pointer does not lap its origin.                                    *)
LEMMA SpanAdvance ==
  ASSUME NEW a \in Index, NEW b \in Index, NEW n \in Nat,
         Span(a, b) + n < Depth
  PROVE  /\ Advance(b, n) \in Index
         /\ Span(a, Advance(b, n)) = Span(a, b) + n
  BY DepthAssumption DEF Index, Span, Advance

(* A distance round the ring is less than its depth. *)
LEMMA SpanRange ==
  ASSUME NEW a \in Index, NEW b \in Index
  PROVE  Span(a, b) \in 0 .. Depth - 1
  BY DepthAssumption DEF Index, Span

(* Slots along the ring are told apart by their distance.                  *)
LEMMA AlongRing ==
  ASSUME NEW a \in Index, NEW b \in Index, NEW i \in 1 .. Span(a, b)
  PROVE  /\ Advance(a, i - 1) \in Index
         /\ Span(a, Advance(a, i - 1)) = i - 1
         /\ InSpan(Advance(a, i - 1), a, b)
  BY DepthAssumption DEF Index, Span, Advance, InSpan

(* The view is a sequence of messages if the slots in it are filled.       *)
LEMMA ViewType ==
  ASSUME NEW a \in Index, NEW b \in Index, NEW s,
         \A i \in Index : InSpan(i, a, b) => s[i] \in Items
  PROVE  View(s, a, b) \in Seq(Items) /\ Len(View(s, a, b)) = Span(a, b)
<1>1. Span(a, b) \in Nat
  BY SpanRange, DepthAssumption
<1>2. \A i \in 1 .. Span(a, b) : s[Advance(a, i - 1)] \in Items
  BY AlongRing
<1> QED
  BY <1>1, <1>2 DEF View

(* Two views that meet make one.                                           *)
LEMMA ViewAppend ==
  ASSUME NEW a \in Index, NEW b \in Index, NEW c \in Index, NEW s,
         Span(a, b) + Span(b, c) = Span(a, c),
         \A i \in Index : InSpan(i, a, b) \/ InSpan(i, b, c) => s[i] \in Items
  PROVE  View(s, a, c) = View(s, a, b) \o View(s, b, c) /\ View(s, a, c) \in Seq(Items)
<1>1. Span(a, b) \in Nat /\ Span(b, c) \in Nat /\ Span(a, c) \in Nat
  BY SpanRange, DepthAssumption
<1>2. /\ View(s, a, b) \in Seq(Items) /\ Len(View(s, a, b)) = Span(a, b)
      /\ View(s, b, c) \in Seq(Items) /\ Len(View(s, b, c)) = Span(b, c)
  BY ViewType
<1>3. \A i \in Index : InSpan(i, a, c) => s[i] \in Items
  BY DepthAssumption DEF InSpan, Span, Index
<1>4. View(s, a, c) \in Seq(Items) /\ Len(View(s, a, c)) = Span(a, c)
  BY <1>3, ViewType
<1> DEFINE whole == View(s, a, b) \o View(s, b, c)
<1>5. /\ whole \in Seq(Items) /\ Len(whole) = Span(a, c)
      /\ \A i \in 1 .. Span(a, b) : whole[i] = View(s, a, b)[i]
      /\ \A i \in Span(a, b) + 1 .. Span(a, c) : whole[i] = View(s, b, c)[i - Span(a, b)]
  BY <1>1, <1>2
<1> HIDE DEF whole
<1>6. ASSUME NEW i \in 1 .. Span(a, c) PROVE whole[i] = View(s, a, c)[i]
  <2>1. View(s, a, c)[i] = s[Advance(a, i - 1)]
    BY DEF View
  <2>2. CASE i \in 1 .. Span(a, b)
    BY <1>5, <2>1, <2>2 DEF View
  <2>3. CASE i \in Span(a, b) + 1 .. Span(a, c)
    <3>1. i - Span(a, b) \in 1 .. Span(b, c)
      BY <1>1, <2>3
    <3>2. View(s, b, c)[i - Span(a, b)] = s[Advance(b, i - Span(a, b) - 1)]
      BY <3>1 DEF View
    <3>3. Advance(a, i - 1) = Advance(b, i - Span(a, b) - 1)
      BY <2>3, DepthAssumption DEF Index, Span, Advance
    <3> QED
      BY <1>5, <2>1, <2>3, <3>2, <3>3
  <2>4. i \in 1 .. Span(a, b) \/ i \in Span(a, b) + 1 .. Span(a, c)
    BY <1>1
  <2> QED
    BY <2>2, <2>3, <2>4
<1>7. whole = View(s, a, c)
  BY <1>1, <1>4, <1>5, <1>6
<1> QED
  BY <1>4, <1>7 DEF whole

(* Moving the last pointer over filled slots appends a batch of messages,  *)
(* and the ring, one slot of which is always free, has room for it.        *)
LEMMA ViewPublish ==
  ASSUME NEW a \in Index, NEW b \in Index, NEW c \in Index, NEW s, b # c,
         Span(a, b) + Span(b, c) = Span(a, c),
         \A i \in Index : InSpan(i, a, b) \/ InSpan(i, b, c) => s[i] \in Items
  PROVE  /\ Span(b, c) \in 1 .. (Depth - 1) - Len(View(s, a, b))
         /\ View(s, b, c) \in [1 .. Span(b, c) -> Items]
         /\ View(s, a, c) = View(s, a, b) \o View(s, b, c)
<1> DEFINE n == Span(b, c)
           batch == View(s, b, c)
<1>1. View(s, a, c) = View(s, a, b) \o batch
  BY ViewAppend
<1>2. Len(View(s, a, b)) = Span(a, b) /\ batch \in Seq(Items) /\ Len(batch) = n
  BY ViewType
<1>3. n \in 1 .. (Depth - 1) - Span(a, b) /\ Span(a, b) \in Nat
  BY SpanRange, DepthAssumption DEF Span, Index
<1> HIDE DEF n, batch
<1>4. batch \in [1 .. n -> Items]
  BY <1>2
<1> QED
  BY <1>1, <1>2, <1>3, <1>4 DEF n, batch

(* The view of a memory that does not differ there is the same.            *)
LEMMA ViewKept ==
  ASSUME NEW a \in Index, NEW b \in Index, NEW s, NEW t,
         \A i \in Index : InSpan(i, a, b) => t[i] = s[i]
  PROVE  View(t, a, b) = View(s, a, b)
<1>1. \A i \in 1 .. Span(a, b) : t[Advance(a, i - 1)] = s[Advance(a, i - 1)]
  BY AlongRing
<1> QED
  BY <1>1 DEF View

(* Nothing is between a pointer and itself.                                *)
LEMMA ViewEmpty == ASSUME NEW a \in Index, NEW s PROVE View(s, a, a) = << >>
  BY DepthAssumption DEF View, Span, Index

(* Moving the first pointer by one slot takes the oldest message.          *)
LEMMA ViewTail ==
  ASSUME NEW a \in Index, NEW b \in Index, a # b,
         NEW s \in [Index -> Items \cup {Stale}], NEW t \in [Index -> Items \cup {Stale}],
         \A i \in Index : InSpan(i, a, b) => s[i] \in Items,
         \A i \in Index : InSpan(i, a, b) /\ i # a => t[i] = s[i]
  PROVE  /\ View(s, a, b) # << >>
         /\ View(t, Advance(a, 1), b) = Tail(View(s, a, b))
<1> DEFINE c == Advance(a, 1)
           n == Span(a, b)
<1>1. c \in Index /\ n \in Nat /\ n > 0 /\ Span(c, b) = n - 1
  BY DepthAssumption DEF Index, Span, Advance
<1>2. View(s, a, b) \in Seq(Items) /\ Len(View(s, a, b)) = n
  BY ViewType
<1>3. ASSUME NEW i \in 1 .. n - 1 PROVE t[Advance(c, i - 1)] = s[Advance(a, i)]
  <2>1. Advance(c, i - 1) = Advance(a, i) /\ Advance(a, i) \in Index /\ Advance(a, i) # a
    BY DepthAssumption DEF Index, Span, Advance
  <2>2. InSpan(Advance(a, i), a, b)
    BY DepthAssumption DEF Index, Span, Advance, InSpan
  <2> QED
    BY <2>1, <2>2
<1>4. ASSUME NEW i \in 1 .. n - 1 PROVE View(s, a, b)[i + 1] = s[Advance(a, i)]
  <2>1. i + 1 \in 1 .. n /\ (i + 1) - 1 = i
    BY <1>1
  <2> QED
    BY <2>1 DEF View
<1>5. View(t, c, b) = [i \in 1 .. n - 1 |-> s[Advance(a, i)]]
  BY <1>1, <1>3 DEF View
<1> HIDE DEF c, n
<1>6. ASSUME NEW v \in Seq(Items), Len(v) = n
      PROVE  v # << >> /\ Tail(v) = [i \in 1 .. n - 1 |-> v[i + 1]]
  <2> DEFINE y == [i \in 1 .. n - 1 |-> v[i + 1]]
  <2>1. v # << >> /\ Tail(v) \in Seq(Items) /\ Len(Tail(v)) = n - 1
    BY <1>1, <1>6
  <2>2. y \in Seq(Items) /\ Len(y) = n - 1
    BY <1>1, <1>6
  <2>3. \A i \in 1 .. n - 1 : y[i] = v[i + 1] /\ Tail(v)[i] = v[i + 1]
    BY <1>1, <1>6
  <2> HIDE DEF y
  <2>4. Tail(v) = y
    BY <1>1, <2>1, <2>2, <2>3
  <2> QED
    BY <2>1, <2>4 DEF y
<1>7. View(s, a, b) # << >> /\ Tail(View(s, a, b)) = [i \in 1 .. n - 1 |-> View(s, a, b)[i + 1]]
  BY <1>2, <1>6
<1> QED
  BY <1>4, <1>5, <1>7 DEF c

-----------------------------------------------------------------------------
(* The five positions in their order.                                      *)
InOrder ==
  Span(tcm_r, r_ptr) + processed + Span(HostPos, w_ptr) + Span(w_ptr, tcm_w)
    = Span(tcm_r, tcm_w)

(* A round handles the messages that were there when it began, and does    *)
(* not go round the end of the buffer.                                     *)
RoundBounded ==
  /\ pc = "proc" => /\ count > 0 /\ count <= Span(HostPos, w_ptr)
                    /\ r_ptr + processed + count <= Depth
  /\ pc # "proc" => processed = 0

(* Every message the device posted and the host has not handled is there.  *)
PostedFilled == \A i \in Index : InSpan(i, HostPos, tcm_w) => slots[i] \in Items

(* Numbers stay in their ranges: a round never passes the threshold.       *)
RangesOK ==
  /\ r_ptr \in Index /\ w_ptr \in Index /\ tcm_r \in Index /\ tcm_w \in Index
  /\ count \in Index /\ processed \in 0 .. Threshold - 1
  /\ r_ptr + processed <= Depth

FlagsOK ==
  /\ pc \in {"idle", "thread", "rx", "proc", "done"}
  /\ mailboxint \in BOOLEAN /\ mask \in BOOLEAN /\ owed \in BOOLEAN /\ up \in BOOLEAN

(* The inductive invariant. *)
IInv ==
  /\ RangesOK /\ FlagsOK
  /\ slots \in [Index -> Items \cup {Stale}]
  /\ InOrder /\ RoundBounded /\ PostedFilled

-----------------------------------------------------------------------------
(* An empty ring, with both sides at its first slot. *)
THEOREM InitInv == Init => IInv
<1> SUFFICES ASSUME Init PROVE IInv
  OBVIOUS
<1>1. RangesOK
  BY DepthAssumption, ThresholdAssumption DEF Init, RangesOK, Index
<1>2. FlagsOK
  BY DEF Init, FlagsOK
<1>3. slots \in [Index -> Items \cup {Stale}]
  BY DEF Init
<1>4. HostPos = 0 /\ Span(0, 0) = 0
  BY DepthAssumption DEF Init, HostPos, Advance, Span
<1>5. InOrder /\ RoundBounded
  BY <1>4 DEF Init, InOrder, RoundBounded
<1>6. PostedFilled
  <2>1. \A i \in Index : ~(Span(0, i) < 0)
    BY DepthAssumption DEF Span, Index
  <2> QED
    BY <1>4, <2>1 DEF Init, PostedFilled, InSpan
<1> QED
  BY <1>1, <1>2, <1>3, <1>5, <1>6 DEF IInv

(* The distances that follow from the order.                               *)
LEMMA Distances ==
  ASSUME IInv
  PROVE  /\ HostPos \in Index
         /\ Span(tcm_r, r_ptr) \in Nat /\ Span(HostPos, w_ptr) \in Nat
         /\ Span(w_ptr, tcm_w) \in Nat /\ Span(tcm_r, tcm_w) \in 0 .. Depth - 1
         /\ Span(tcm_r, HostPos) = Span(tcm_r, r_ptr) + processed
         /\ Span(HostPos, tcm_w) = Span(HostPos, w_ptr) + Span(w_ptr, tcm_w)
         /\ Span(r_ptr, w_ptr) = processed + Span(HostPos, w_ptr)
<1>1. /\ r_ptr \in Index /\ w_ptr \in Index /\ tcm_r \in Index /\ tcm_w \in Index
      /\ processed \in Nat /\ r_ptr + processed <= Depth
  BY ThresholdAssumption DEF IInv, RangesOK
<1>2. HostPos \in Index
  BY <1>1, DepthAssumption DEF HostPos, Advance, Index
<1>3. /\ Span(tcm_r, r_ptr) \in Nat /\ Span(HostPos, w_ptr) \in Nat
      /\ Span(w_ptr, tcm_w) \in Nat /\ Span(tcm_r, tcm_w) \in 0 .. Depth - 1
  BY <1>1, <1>2, SpanRange
<1>4. Span(tcm_r, r_ptr) + processed < Depth
  BY <1>1, <1>3, DepthAssumption DEF IInv, InOrder
<1>5. Span(tcm_r, HostPos) = Span(tcm_r, r_ptr) + processed
  BY <1>1, <1>4, SpanAdvance DEF HostPos
<1>6. /\ Span(HostPos, tcm_w) = Span(HostPos, w_ptr) + Span(w_ptr, tcm_w)
      /\ Span(r_ptr, w_ptr) = processed + Span(HostPos, w_ptr)
  <2>1. InOrder
    BY DEF IInv
  <2> QED
    BY <1>1, <1>2, <1>4, <2>1, DepthAssumption DEF InOrder, HostPos, Advance, Span, Index
<1> QED
  BY <1>2, <1>3, <1>5, <1>6

-----------------------------------------------------------------------------
(* The device writes a slot no message that waits lies in.                 *)
LEMMA DevicePostInv == IInv /\ DevicePost => IInv'
<1> SUFFICES ASSUME IInv, DevicePost PROVE IInv'
  OBVIOUS
<1>1. /\ Span(tcm_r, tcm_w) < Depth - 1
      /\ tcm_w' = Advance(tcm_w, 1) /\ owed' = TRUE
      /\ UNCHANGED << r_ptr, w_ptr, tcm_r, count, processed, pc, mailboxint, mask, up >>
  BY DEF DevicePost, irq
<1>2. PICK item \in Items : slots' = [slots EXCEPT ![tcm_w] = item]
  BY DEF DevicePost
<1>3. HostPos' = HostPos
  BY <1>1 DEF HostPos, Advance
<1>4. /\ r_ptr \in Index /\ w_ptr \in Index /\ tcm_r \in Index /\ tcm_w \in Index
      /\ slots \in [Index -> Items \cup {Stale}] /\ processed \in Nat
  BY ThresholdAssumption DEF IInv, RangesOK
<1>5. /\ HostPos \in Index /\ Span(w_ptr, tcm_w) \in Nat
      /\ Span(HostPos, w_ptr) \in Nat /\ Span(tcm_r, r_ptr) \in Nat
      /\ Span(HostPos, tcm_w) = Span(HostPos, w_ptr) + Span(w_ptr, tcm_w)
      /\ Span(tcm_r, tcm_w) \in Nat
  BY Distances
<1>6. Span(tcm_r, r_ptr) + processed + Span(HostPos, w_ptr) + Span(w_ptr, tcm_w)
        = Span(tcm_r, tcm_w)
  BY DEF IInv, InOrder
<1>7. /\ tcm_w' \in Index
      /\ Span(tcm_r, tcm_w') = Span(tcm_r, tcm_w) + 1
      /\ Span(w_ptr, tcm_w') = Span(w_ptr, tcm_w) + 1
      /\ Span(HostPos, tcm_w') = Span(HostPos, tcm_w) + 1
  <2>1. /\ Span(tcm_r, tcm_w) + 1 < Depth /\ Span(w_ptr, tcm_w) + 1 < Depth
        /\ Span(HostPos, tcm_w) + 1 < Depth
    BY <1>1, <1>4, <1>5, <1>6, DepthAssumption
  <2> QED
    BY <1>1, <1>4, <1>5, <2>1, SpanAdvance
<1>8. RangesOK'
  BY <1>1, <1>7 DEF IInv, RangesOK
<1>9. FlagsOK'
  BY <1>1 DEF IInv, FlagsOK
<1>10. slots' \in [Index -> Items \cup {Stale}]
  BY <1>2, <1>4
<1>11. InOrder' /\ RoundBounded'
  BY <1>1, <1>3, <1>4, <1>5, <1>6, <1>7 DEF IInv, InOrder, RoundBounded
<1>12. PostedFilled'
  <2> SUFFICES ASSUME NEW i \in Index, Span(HostPos, i) < Span(HostPos, tcm_w')
               PROVE  slots'[i] \in Items
    BY <1>3 DEF PostedFilled, InSpan, Span
  <2>1. CASE i = tcm_w
    BY <1>2, <1>4, <2>1
  <2>2. CASE i # tcm_w
    <3>1. Span(HostPos, i) # Span(HostPos, tcm_w)
      BY <1>4, <1>5, <2>2, DepthAssumption DEF Span, Index
    <3>2. InSpan(i, HostPos, tcm_w)
      BY <1>4, <1>5, <1>7, <3>1, SpanRange DEF InSpan
    <3> QED
      BY <1>2, <1>4, <2>2, <3>2 DEF IInv, PostedFilled
  <2> QED
    BY <2>1, <2>2
<1> QED
  BY <1>8, <1>9, <1>10, <1>11, <1>12 DEF IInv

(* What get_read_ptr counts is there, and does not go round the end.       *)
LEMMA RoundLength ==
  ASSUME NEW r \in Index, NEW w \in Index
  PROVE  LET n == IF w >= r THEN w - r ELSE Depth - r
         IN  n \in Index /\ r + n <= Depth /\ n <= Span(r, w)
  BY DepthAssumption DEF Span, Index

(* A round begins with what the device's index shows, up to the end of the *)
(* buffer.                                                                 *)
LEMMA GetReadPtrInv == IInv /\ GetReadPtr => IInv'
<1> SUFFICES ASSUME IInv, GetReadPtr PROVE IInv'
  OBVIOUS
<1>1. /\ pc = "rx" /\ w_ptr' \in {w_ptr, tcm_w}
      /\ count' = IF w_ptr' >= r_ptr THEN w_ptr' - r_ptr ELSE Depth - r_ptr
      /\ pc' = IF count' = 0 THEN "done" ELSE "proc"
      /\ UNCHANGED << r_ptr, tcm_r, tcm_w, slots, processed, mailboxint, mask, owed, up >>
  BY DEF GetReadPtr, irq, device
<1>2. /\ r_ptr \in Index /\ w_ptr \in Index /\ tcm_r \in Index /\ tcm_w \in Index
      /\ processed = 0
  BY <1>1 DEF IInv, RangesOK, RoundBounded
<1>3. HostPos = r_ptr /\ HostPos' = r_ptr
  BY <1>1, <1>2, DepthAssumption DEF HostPos, Advance, Index
<1>4. w_ptr' \in Index
  BY <1>1, <1>2
<1>5. /\ count' \in Index /\ r_ptr + count' <= Depth
      /\ count' <= Span(r_ptr, w_ptr')
  BY <1>1, <1>2, <1>4, RoundLength
<1>6. Span(tcm_r, r_ptr) + Span(r_ptr, w_ptr') + Span(w_ptr', tcm_w) = Span(tcm_r, tcm_w)
  <2>1. Span(tcm_r, r_ptr) + 0 + Span(r_ptr, w_ptr) + Span(w_ptr, tcm_w)
          = Span(tcm_r, tcm_w)
    BY <1>2, <1>3 DEF IInv, InOrder
  <2>2. Span(r_ptr, tcm_w) = Span(r_ptr, w_ptr) + Span(w_ptr, tcm_w)
    BY <1>3, Distances
  <2>3. Span(tcm_w, tcm_w) = 0
    BY <1>2, DepthAssumption DEF Span, Index
  <2>4. /\ Span(tcm_r, r_ptr) \in Nat /\ Span(r_ptr, w_ptr) \in Nat
        /\ Span(w_ptr, tcm_w) \in Nat /\ Span(tcm_r, tcm_w) \in Nat
    BY <1>2, SpanRange
  <2>5. CASE w_ptr' = w_ptr
    BY <2>1, <2>4, <2>5
  <2>6. CASE w_ptr' = tcm_w
    BY <2>1, <2>2, <2>3, <2>4, <2>6
  <2> QED
    BY <1>1, <2>5, <2>6
<1>7. RangesOK'
  BY <1>1, <1>2, <1>4, <1>5, DepthAssumption DEF IInv, RangesOK
<1>8. FlagsOK'
  BY <1>1 DEF IInv, FlagsOK
<1>9. InOrder'
  <2>1. Span(tcm_r, r_ptr) \in Nat
    BY <1>2, SpanRange
  <2> QED
    BY <1>1, <1>2, <1>3, <1>6, <2>1 DEF InOrder
<1>10. RoundBounded'
  <2>1. /\ processed' = 0 /\ HostPos' = r_ptr /\ r_ptr' = r_ptr
    BY <1>1, <1>2, <1>3
  <2>0. r_ptr \in Nat /\ count' \in Nat
    BY <1>2, <1>5, DepthAssumption DEF Index
  <2>2. CASE count' = 0
    BY <1>1, <2>1, <2>2 DEF RoundBounded
  <2>3. CASE count' # 0
    <3>1. pc' = "proc" /\ count' > 0
      BY <1>1, <2>0, <2>3
    <3>2. count' <= Span(HostPos', w_ptr')
      BY <1>5, <2>1
    <3>3. r_ptr' + processed' + count' <= Depth
      BY <1>5, <2>0, <2>1
    <3> QED
      BY <3>1, <3>2, <3>3 DEF RoundBounded, Span
  <2> QED
    BY <2>2, <2>3
<1>11. PostedFilled'
  BY <1>1, <1>3 DEF IInv, PostedFilled, InSpan
<1> QED
  BY <1>1, <1>7, <1>8, <1>9, <1>10, <1>11 DEF IInv

(* One slot nearer. *)
LEMMA NextSlot ==
  ASSUME NEW a \in Index, NEW b \in Index, Span(a, b) > 0
  PROVE  Advance(a, 1) \in Index /\ Span(Advance(a, 1), b) = Span(a, b) - 1
  BY DepthAssumption DEF Span, Advance, Index

(* Where the host goes when it has handled a message.                      *)
LEMMA ProcessAdvances ==
  ASSUME IInv, ProcessMsgtype
  PROVE  HostPos' = Advance(HostPos, 1) /\ HostPos # tcm_w
<1> DEFINE n == processed + 1
<1>1. ReadComplete(n, count = 1)
  BY DEF ProcessMsgtype
<1>2. /\ r_ptr \in Index /\ w_ptr \in Index /\ tcm_w \in Index
      /\ count \in Index /\ processed \in Nat
      /\ count > 0 /\ count <= Span(HostPos, w_ptr)
      /\ r_ptr + processed + count <= Depth
  BY ThresholdAssumption DEF IInv, RangesOK, RoundBounded, ProcessMsgtype
<1>3. n \in Nat /\ r_ptr + n <= Depth
  BY <1>2, DepthAssumption DEF Index
<1>4. Advance(r_ptr, n) = Advance(HostPos, 1) /\ Advance(r_ptr, n) \in Index
  BY <1>2, <1>3, DepthAssumption DEF HostPos, Advance, Index
<1> HIDE DEF n
<1>5. \/ r_ptr' = Advance(r_ptr, n) /\ processed' = 0
      \/ r_ptr' = r_ptr /\ processed' = n
  BY <1>1 DEF ReadComplete
<1>8. HostPos # tcm_w
  <2>1. /\ Span(HostPos, w_ptr) \in Nat /\ Span(w_ptr, tcm_w) \in Nat /\ HostPos \in Index
        /\ Span(HostPos, tcm_w) = Span(HostPos, w_ptr) + Span(w_ptr, tcm_w)
    BY Distances
  <2>2. Span(HostPos, tcm_w) > 0
    BY <1>2, <2>1, DepthAssumption DEF Index
  <2> QED
    BY <2>1, <2>2, DepthAssumption DEF Span, Index
<1>0. HostPos' = Advance(r_ptr', processed')
  BY DEF HostPos, Advance
<1>6. CASE r_ptr' = Advance(r_ptr, n) /\ processed' = 0
  <2>1. Advance(Advance(r_ptr, n), 0) = Advance(r_ptr, n)
    BY <1>4, DepthAssumption DEF Advance, Index
  <2> QED
    BY <1>0, <1>4, <1>6, <1>8, <2>1
<1>7. CASE r_ptr' = r_ptr /\ processed' = n
  BY <1>0, <1>4, <1>7, <1>8
<1> QED
  BY <1>5, <1>6, <1>7

(* Handling one message moves the host by one slot, whether the device is  *)
(* told now, later, or not because the bus is down.                        *)
LEMMA ProcessInv == IInv /\ ProcessMsgtype => IInv'
<1> SUFFICES ASSUME IInv, ProcessMsgtype PROVE IInv'
  OBVIOUS
<1> DEFINE n == processed + 1
<1>1. /\ pc = "proc" /\ count' = count - 1
      /\ ReadComplete(n, count = 1)
      /\ pc' = IF count = 1 THEN EndOfRound(r_ptr') ELSE "proc"
      /\ UNCHANGED << w_ptr, tcm_w, slots, mailboxint, mask, owed, up >>
  BY DEF ProcessMsgtype, irq, device
<1>2. /\ r_ptr \in Index /\ w_ptr \in Index /\ tcm_r \in Index /\ tcm_w \in Index
      /\ count \in Index /\ processed \in 0 .. Threshold - 1
      /\ count > 0 /\ count <= Span(HostPos, w_ptr)
      /\ r_ptr + processed + count <= Depth
  BY <1>1 DEF IInv, RangesOK, RoundBounded
<1>3. /\ HostPos \in Index /\ Span(HostPos, w_ptr) \in Nat /\ Span(w_ptr, tcm_w) \in Nat
      /\ Span(tcm_r, r_ptr) \in Nat /\ Span(tcm_r, tcm_w) \in 0 .. Depth - 1
      /\ Span(HostPos, tcm_w) = Span(HostPos, w_ptr) + Span(w_ptr, tcm_w)
  BY Distances
<1>4. Span(tcm_r, r_ptr) + processed + Span(HostPos, w_ptr) + Span(w_ptr, tcm_w)
        = Span(tcm_r, tcm_w)
  BY DEF IInv, InOrder
<1>5. /\ n \in Nat /\ r_ptr + n <= Depth /\ n <= Threshold
      /\ Span(tcm_r, r_ptr) + n < Depth
      /\ count # 1 => r_ptr + n + (count - 1) <= Depth /\ count - 1 > 0
  <2>1. /\ r_ptr \in Nat /\ count \in Nat /\ processed \in Nat /\ processed < Threshold
        /\ Threshold \in Nat
    BY <1>2, DepthAssumption, ThresholdAssumption DEF Index
  <2>2. Span(tcm_r, r_ptr) + n < Depth
    BY <1>2, <1>3, <1>4, <2>1, DepthAssumption
  <2> QED
    BY <1>2, <2>1, <2>2, DepthAssumption
<1>6. Advance(r_ptr, n) \in Index /\ Span(tcm_r, Advance(r_ptr, n)) = Span(tcm_r, r_ptr) + n
  BY <1>2, <1>5, SpanAdvance
<1>7. /\ Advance(r_ptr, n) = Advance(HostPos, 1)
      /\ Span(Advance(HostPos, 1), w_ptr) = Span(HostPos, w_ptr) - 1
      /\ Span(Advance(HostPos, 1), tcm_w) = Span(HostPos, tcm_w) - 1
  <2>1. Span(HostPos, w_ptr) > 0 /\ Span(HostPos, tcm_w) > 0
    BY <1>2, <1>3, DepthAssumption DEF Index
  <2>2. Advance(r_ptr, n) = Advance(HostPos, 1)
    BY <1>2, <1>5, DepthAssumption DEF HostPos, Advance, Index
  <2> QED
    BY <1>2, <1>3, <2>1, <2>2, NextSlot
<1> DEFINE q == Advance(r_ptr, n)
<1> HIDE DEF n
<1>8. \/ /\ r_ptr' = q /\ processed' = 0 /\ tcm_r' \in {q, tcm_r}
      \/ /\ r_ptr' = r_ptr /\ tcm_r' = tcm_r /\ processed' = n
         /\ n # Threshold /\ count # 1
  BY <1>1 DEF ReadComplete
<1>9. HostPos' = q
  <2>1. CASE r_ptr' = q /\ processed' = 0
    BY <1>6, <2>1, DepthAssumption DEF HostPos, Advance, Index
  <2>2. CASE r_ptr' = r_ptr /\ processed' = n
    BY <2>2 DEF HostPos, Advance
  <2> QED
    BY <1>8, <2>1, <2>2
<1> HIDE DEF q
<1>10. /\ q \in Index /\ Span(tcm_r, q) = Span(tcm_r, r_ptr) + n
       /\ Span(q, w_ptr) = Span(HostPos, w_ptr) - 1
       /\ Span(q, tcm_w) = Span(HostPos, tcm_w) - 1
       /\ q = Advance(HostPos, 1)
  BY <1>6, <1>7 DEF q
<1>11. RangesOK'
  <2>1. w_ptr' \in Index /\ tcm_w' \in Index /\ count' \in Index
    BY <1>1, <1>2, DepthAssumption DEF Index
  <2>2. /\ r_ptr' \in Index /\ tcm_r' \in Index /\ processed' \in 0 .. Threshold - 1
        /\ r_ptr' + processed' <= Depth
    <3>1. CASE r_ptr' = q /\ processed' = 0 /\ tcm_r' \in {q, tcm_r}
      BY <1>2, <1>10, <3>1, DepthAssumption, ThresholdAssumption DEF Index
    <3>2. CASE r_ptr' = r_ptr /\ tcm_r' = tcm_r /\ processed' = n /\ n # Threshold
      BY <1>2, <1>5, <3>2, ThresholdAssumption
    <3> QED
      BY <1>8, <3>1, <3>2
  <2> QED
    BY <2>1, <2>2 DEF RangesOK
<1>12. FlagsOK'
  BY <1>1 DEF IInv, FlagsOK, EndOfRound
<1>13. InOrder'
  <2> SUFFICES Span(tcm_r', r_ptr') + processed' + Span(q, w_ptr) + Span(w_ptr, tcm_w)
                 = Span(tcm_r', tcm_w)
    BY <1>1, <1>9 DEF InOrder, Span
  <2>1. CASE r_ptr' = q /\ processed' = 0 /\ tcm_r' = tcm_r
    BY <1>3, <1>4, <1>5, <1>10, <1>2, <2>1, ThresholdAssumption DEF n
  <2>2. CASE r_ptr' = q /\ processed' = 0 /\ tcm_r' = q
    <3>1. Span(q, q) = 0
      BY <1>10, DepthAssumption DEF Span, Index
    <3>2. Span(q, q) + 0 + Span(q, w_ptr) + Span(w_ptr, tcm_w) = Span(q, tcm_w)
      BY <1>3, <1>10, <3>1
    <3> QED
      BY <2>2, <3>2
  <2>3. CASE r_ptr' = r_ptr /\ tcm_r' = tcm_r /\ processed' = n
    BY <1>3, <1>4, <1>5, <1>10, <1>2, <2>3, ThresholdAssumption DEF n
  <2> QED
    BY <1>8, <2>1, <2>2, <2>3
<1>14. RoundBounded'
  <2>1. CASE count = 1
    <3>1. pc' # "proc" /\ processed' = 0
      BY <1>1, <1>8, <2>1 DEF EndOfRound
    <3> QED
      BY <3>1 DEF RoundBounded
  <2>2. CASE count # 1
    <3>1. pc' = "proc" /\ count' > 0 /\ count' = count - 1
      BY <1>1, <1>5, <2>2
    <3>2. count' <= Span(q, w_ptr)
      BY <1>2, <1>3, <1>10, <3>1, DepthAssumption DEF Index
    <3>3. r_ptr' + processed' + count' <= Depth
      <4>1. CASE r_ptr' = q /\ processed' = 0
        <5>1. q = r_ptr + n
          BY <1>2, <1>5, <2>2, DepthAssumption DEF q, Advance, Index
        <5> QED
          BY <1>2, <1>5, <2>2, <3>1, <4>1, <5>1, DepthAssumption DEF Index
      <4>2. CASE r_ptr' = r_ptr /\ processed' = n
        BY <1>5, <2>2, <3>1, <4>2
      <4> QED
        BY <1>8, <4>1, <4>2
    <3>4. HostPos' = q /\ w_ptr' = w_ptr
      BY <1>1, <1>9
    <3> QED
      BY <3>1, <3>2, <3>3, <3>4 DEF RoundBounded, Span
  <2> QED
    BY <2>1, <2>2
<1>15. PostedFilled'
  <2> SUFFICES ASSUME NEW i \in Index, InSpan(i, q, tcm_w) PROVE slots[i] \in Items
    BY <1>1, <1>9 DEF PostedFilled, InSpan, Span
  <2>1. InSpan(i, HostPos, tcm_w)
    BY <1>2, <1>3, <1>10, DepthAssumption DEF InSpan, Span, Advance, Index
  <2> QED
    BY <2>1 DEF IInv, PostedFilled
<1> QED
  BY <1>1, <1>11, <1>12, <1>13, <1>14, <1>15 DEF IInv

(* Steps that move no pointer.                                             *)
LEMMA OtherInv ==
  IInv /\ (\/ DeviceRing \/ QuickCheckIsr \/ IsrThread \/ IsrThreadEnd
           \/ BusDown \/ BusUp \/ UNCHANGED vars) => IInv'
<1> SUFFICES ASSUME IInv, \/ DeviceRing \/ QuickCheckIsr \/ IsrThread \/ IsrThreadEnd
                          \/ BusDown \/ BusUp \/ UNCHANGED vars
             PROVE  IInv'
  OBVIOUS
<1>1. UNCHANGED << r_ptr, w_ptr, tcm_r, tcm_w, slots, count, processed >>
  BY DEF DeviceRing, QuickCheckIsr, IsrThread, IsrThreadEnd, BusDown, BusUp, vars, irq, device
<1>2. (pc' # "proc" /\ pc # "proc") \/ pc' = pc
  BY DEF DeviceRing, QuickCheckIsr, IsrThread, IsrThreadEnd, BusDown, BusUp, vars, irq, device
<1>3. FlagsOK'
  <2>1. FlagsOK
    BY DEF IInv
  <2>2. pc' \in {"idle", "thread", "rx", "proc", "done"}
    BY <2>1 DEF FlagsOK, DeviceRing, QuickCheckIsr, IsrThread, IsrThreadEnd,
       BusDown, BusUp, vars
  <2>3. mailboxint' \in BOOLEAN /\ owed' \in BOOLEAN /\ up' \in BOOLEAN
    BY <2>1, Zenon DEF FlagsOK, DeviceRing, QuickCheckIsr, IsrThread, IsrThreadEnd,
       BusDown, BusUp, vars, irq, device
  <2>4. mask' \in BOOLEAN
    BY <2>1, Zenon DEF FlagsOK, DeviceRing, QuickCheckIsr, IsrThread, IsrThreadEnd,
       BusDown, BusUp, vars, irq, device
  <2> QED
    BY <2>2, <2>3, <2>4 DEF FlagsOK
<1>4. HostPos' = HostPos
  BY <1>1 DEF HostPos, Advance
<1>5. RangesOK' /\ InOrder' /\ RoundBounded' /\ PostedFilled'
  BY <1>1, <1>2, <1>4 DEF IInv, RangesOK, InOrder, RoundBounded, PostedFilled, InSpan, Span
<1> QED
  BY <1>1, <1>3, <1>5 DEF IInv

(* IInv is inductive. *)
THEOREM StepInv == IInv /\ [Next]_vars => IInv'
  BY DevicePostInv, GetReadPtrInv, ProcessInv, OtherInv DEF Next

(* For every depth and threshold: the host handles only slots the device   *)
(* wrote, and the device writes only slots the host is done with.          *)
THEOREM Safety == Spec => []IInv
<1> QED
  BY InitInv, StepInv, PTL DEF Spec

(* Every pointer stays inside the ring and no round passes the threshold.  *)
THEOREM TypeCorrect == Spec => []TypeOK
<1>1. IInv => TypeOK
  BY DepthAssumption, ThresholdAssumption DEF IInv, RangesOK, FlagsOK, TypeOK, Index
<1> QED
  BY <1>1, Safety, PTL

-----------------------------------------------------------------------------
(* The device's posts and the host's handling implement the bounded FIFO,  *)
(* for every depth: a message is handled once, in order, and its slot is   *)
(* not written again before, wherever the bus goes down.                   *)
THEOREM ImplementsFifo == Spec => RefinesFifo
<1>1. Pending = View(slots, HostPos, tcm_w)
  BY DEF Pending
<1>2. Pending' = View(slots', HostPos', tcm_w')
  BY DEF Pending, View, Span, Advance
<1>3. Init => Fifo!Init
  <2> SUFFICES ASSUME Init PROVE Pending = << >>
    BY DEF Fifo!Init
  <2>1. HostPos \in Index /\ tcm_w = HostPos
    BY DepthAssumption DEF Init, Index, HostPos, Advance
  <2> QED
    BY <1>1, <2>1, ViewEmpty
<1>4. IInv /\ [Next]_vars => [Fifo!Next]_Pending
  <2> SUFFICES ASSUME IInv, [Next]_vars, Pending' # Pending PROVE Fifo!Next
    OBVIOUS
  <2>1. /\ tcm_w \in Index /\ tcm_r \in Index /\ HostPos \in Index
        /\ slots \in [Index -> Items \cup {Stale}]
        /\ processed \in Nat /\ r_ptr \in Index /\ w_ptr \in Index
    BY Distances, ThresholdAssumption DEF IInv, RangesOK
  <2>2. \A i \in Index : InSpan(i, HostPos, tcm_w) => slots[i] \in Items
    BY DEF IInv, PostedFilled
  <2>3. CASE DevicePost
    <3>1. /\ Span(tcm_r, tcm_w) < Depth - 1
          /\ tcm_w' = Advance(tcm_w, 1) /\ UNCHANGED << r_ptr, processed >>
      BY <2>3 DEF DevicePost
    <3>2. PICK item \in Items : slots' = [slots EXCEPT ![tcm_w] = item]
      BY <2>3 DEF DevicePost
    <3>3. HostPos' = HostPos
      BY <3>1 DEF HostPos, Advance
    <3> DEFINE e == Advance(tcm_w, 1)
    <3>4. /\ e \in Index /\ tcm_w # e
          /\ Span(HostPos, tcm_w) + Span(tcm_w, e) = Span(HostPos, e)
          /\ \A i \in Index : InSpan(i, tcm_w, e) => i = tcm_w
      <4>1. Span(HostPos, tcm_w) + 1 < Depth
        <5>1. /\ Span(tcm_r, tcm_w) \in Nat /\ Span(HostPos, tcm_w) \in Nat
              /\ Span(tcm_r, HostPos) \in Nat
          BY <2>1, SpanRange
        <5>2. Span(tcm_r, HostPos) + Span(HostPos, tcm_w) = Span(tcm_r, tcm_w)
          BY <2>1, Distances DEF IInv, InOrder
        <5> QED
          BY <3>1, <5>1, <5>2, DepthAssumption
      <4> QED
        BY <2>1, <4>1, DepthAssumption DEF Span, InSpan, Advance, Index
    <3> HIDE DEF e
    <3>5. ASSUME NEW t \in [Index -> Items \cup {Stale}], NEW item2 \in Items,
                 t = [slots EXCEPT ![tcm_w] = item2]
          PROVE  /\ Span(tcm_w, e) \in 1 .. (Depth - 1) - Len(View(slots, HostPos, tcm_w))
                 /\ View(t, tcm_w, e) \in [1 .. Span(tcm_w, e) -> Items]
                 /\ View(t, HostPos, e) = View(slots, HostPos, tcm_w) \o View(t, tcm_w, e)
      <4>1. ~InSpan(tcm_w, HostPos, tcm_w)
        BY <2>1, SpanRange DEF InSpan
      <4>2. \A i \in Index : InSpan(i, HostPos, tcm_w) => t[i] = slots[i]
        BY <2>1, <3>5, <4>1
      <4>3. View(t, HostPos, tcm_w) = View(slots, HostPos, tcm_w)
        BY <2>1, <4>2, ViewKept
      <4>4. \A i \in Index : InSpan(i, HostPos, tcm_w) \/ InSpan(i, tcm_w, e) => t[i] \in Items
        BY <2>1, <2>2, <3>4, <3>5, <4>2
      <4>5. /\ Span(tcm_w, e) \in 1 .. (Depth - 1) - Len(View(t, HostPos, tcm_w))
            /\ View(t, tcm_w, e) \in [1 .. Span(tcm_w, e) -> Items]
            /\ View(t, HostPos, e) = View(t, HostPos, tcm_w) \o View(t, tcm_w, e)
        BY <2>1, <3>4, <4>4, ViewPublish
      <4> QED
        BY <4>3, <4>5
    <3>6. slots' \in [Index -> Items \cup {Stale}]
      BY <2>1, <3>2
    <3> DEFINE n == Span(tcm_w, e)
               batch == View(slots', tcm_w, e)
    <3>7. /\ n \in 1 .. (Depth - 1) - Len(Pending)
          /\ batch \in [1 .. n -> Items]
          /\ Pending' = Pending \o batch
      BY <1>1, <1>2, <3>1, <3>2, <3>3, <3>5, <3>6 DEF e
    <3> HIDE DEF n, batch
    <3> QED
      BY <3>7 DEF Fifo!Next, Fifo!Publish
  <2>4. CASE ProcessMsgtype
    <3>1. tcm_w' = tcm_w /\ slots' = slots
      BY <2>4 DEF ProcessMsgtype, device
    <3>2. HostPos' = Advance(HostPos, 1) /\ HostPos # tcm_w
      BY <2>4, ProcessAdvances
    <3>3. /\ View(slots, HostPos, tcm_w) # << >>
          /\ View(slots, Advance(HostPos, 1), tcm_w) = Tail(View(slots, HostPos, tcm_w))
      BY <2>1, <2>2, <3>2, ViewTail
    <3>4. Pending # << >> /\ Pending' = Tail(Pending)
      BY <1>1, <1>2, <3>1, <3>2, <3>3
    <3> QED
      BY <3>4 DEF Fifo!Next, Fifo!Take
  <2>5. CASE UNCHANGED << slots, tcm_w, r_ptr, processed >>
    <3>1. HostPos' = HostPos
      BY <2>5 DEF HostPos, Advance
    <3> QED
      BY <1>1, <1>2, <2>5, <3>1
  <2> QED
    BY <2>3, <2>4, <2>5 DEF Next, DeviceRing, QuickCheckIsr, IsrThread, GetReadPtr,
       IsrThreadEnd, BusDown, BusUp, vars, irq, device
<1> QED
  BY <1>3, <1>4, Safety, PTL DEF Spec, RefinesFifo, Fifo!Spec

(* The handled slots the device does not know of yet while the bus is up:  *)
(* those of the round under way since its last read_complete.              *)
LEMMA HeldBack ==
  ASSUME IInv, tcm_r = r_ptr
  PROVE  Span(tcm_r, HostPos) < Threshold /\ (pc # "proc" => tcm_r = HostPos)
<1>1. /\ r_ptr \in Index /\ processed \in 0 .. Threshold - 1 /\ r_ptr + processed <= Depth
      /\ pc # "proc" => processed = 0
  BY DEF IInv, RangesOK, RoundBounded
<1>2. Span(r_ptr, Advance(r_ptr, processed)) <= processed
  BY <1>1, DepthAssumption, ThresholdAssumption DEF Index, Span, Advance
<1>3. processed = 0 => Advance(r_ptr, processed) = r_ptr
  BY <1>1, DepthAssumption DEF Index, Advance
<1>4. Span(r_ptr, Advance(r_ptr, processed)) \in Nat
  BY <1>1, DepthAssumption, ThresholdAssumption DEF Index, Span, Advance
<1> QED
  BY <1>1, <1>2, <1>3, <1>4, ThresholdAssumption DEF HostPos

(* While the bus stays up a round holds back fewer handled slots than the  *)
(* threshold, and none is held back between rounds.                        *)
THEOREM FreedSlotsReturned == Spec => SlotsReturned
<1>1. Init => tcm_r = r_ptr
  BY DEF Init
<1>2. up /\ tcm_r = r_ptr /\ [Next]_vars => (tcm_r = r_ptr)'
  BY DEF Next, DevicePost, DeviceRing, QuickCheckIsr, IsrThread, GetReadPtr, ProcessMsgtype,
     ReadComplete, IsrThreadEnd, BusDown, BusUp, vars
<1>3. IInv /\ tcm_r = r_ptr
      => Span(tcm_r, HostPos) < Threshold /\ (pc # "proc" => tcm_r = HostPos)
  BY HeldBack
<1> QED
  BY <1>1, <1>2, <1>3, Safety, PTL DEF Spec, SlotsReturned
=============================================================================
