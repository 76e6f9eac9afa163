------------------------------ MODULE RingFifo ------------------------------
(***************************************************************************)
(* What one message ring between host and device promises, whichever side *)
(* produces: a FIFO that never holds more than Capacity messages, filled   *)
(* in batches and emptied one message at a time.  CommonRing (host to      *)
(* device) and CompletionRing (device to host) both implement it.          *)
(***************************************************************************)
EXTENDS Naturals, Sequences

CONSTANTS Items,     \* the messages
          Capacity   \* how many of them the ring can hold

VARIABLE queue       \* published and not yet taken, oldest first

Init == queue = << >>

(* A producer makes a batch of messages visible to the other side. *)
Publish ==
  \E n \in 1 .. Capacity - Len(queue) :
    \E batch \in [1 .. n -> Items] : queue' = queue \o batch

(* The other side takes the oldest message. *)
Take ==
  /\ queue # << >>
  /\ queue' = Tail(queue)

Next == Publish \/ Take

Spec == Init /\ [][Next]_queue
=============================================================================
