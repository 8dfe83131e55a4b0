------------------------------ MODULE FifoQueue ------------------------------
(***************************************************************************)
(* What a queue promises its users: values come out once, in the order     *)
(* they went in, and a dequeue finds nothing only when nothing is there.   *)
(***************************************************************************)
EXTENDS Sequences

CONSTANTS Consumers, Items, Nothing

VARIABLES
  items,   \* the values in the queue, oldest first
  result   \* what the last dequeue of each consumer returned

Init == items = <<>> /\ result = [c \in Consumers |-> Nothing]

Enqueue(v) == items' = Append(items, v) /\ UNCHANGED result

Dequeue(c) ==
  /\ items # <<>> /\ items' = Tail(items)
  /\ result' = [result EXCEPT ![c] = Head(items)]

DequeueNothing(c) ==
  /\ items = <<>> /\ UNCHANGED items
  /\ result' = [result EXCEPT ![c] = Nothing]

Next ==
  \/ \E v \in Items : Enqueue(v)
  \/ \E c \in Consumers : Dequeue(c) \/ DequeueNothing(c)

Spec == Init /\ [][Next]_<<items, result>>
=============================================================================
