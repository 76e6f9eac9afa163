------------------------------ MODULE RingIndex ------------------------------
(***************************************************************************)
(* The pointers of a message ring of commonring.c: slots are counted from  *)
(* 0 and the last one is followed by the first.  Both directions of the    *)
(* rings (CommonRing, CompletionRing) use it.                              *)
(***************************************************************************)
EXTENDS Naturals, Sequences

CONSTANTS Depth,   \* number of slots of the ring (u16 in the code)
          Items,   \* messages
          Stale    \* content of a slot that holds no message

ASSUME DepthAssumption == Depth \in Nat /\ Depth > 1 /\ Depth < 65536

Index == 0 .. Depth - 1

(* A pointer moved by n slots: wrapped once, as the code does. *)
Advance(p, n) == IF p + n < Depth THEN p + n ELSE p + n - Depth

(* Slots from a up to, and not including, b, going round the ring. *)
Span(a, b) == IF a <= b THEN b - a ELSE Depth - a + b

InSpan(i, a, b) == Span(a, i) < Span(a, b)

(* The messages in those slots of the memory s, oldest first. *)
View(s, a, b) == [i \in 1 .. Span(a, b) |-> s[Advance(a, i - 1)]]
=============================================================================
