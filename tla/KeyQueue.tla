------------------------------ MODULE KeyQueue ------------------------------
(***************************************************************************)
(* What the receive ring of 09-irq promises main: a bounded first-in       *)
(* first-out queue, filled behind its back, that drops a key only when it  *)
(* is full.                                                                *)
(***************************************************************************)
EXTENDS Naturals, Sequences

CONSTANTS Key, Room   \* the keys, and how many of them fit

VARIABLES
    queue,   \* the keys received and not yet got
    got,     \* the last key got
    count    \* the keys received, the dropped ones included

vars == <<queue, got, count>>

Init == queue = <<>> /\ count = 0

\* A key comes; it is queued exactly when there is room.
Put(k) ==
    /\ queue' = IF Len(queue) < Room THEN Append(queue, k) ELSE queue
    /\ count' = count + 1 /\ UNCHANGED got

\* main gets the oldest key.
Get ==
    /\ queue # <<>> /\ got' = Head(queue) /\ queue' = Tail(queue)
    /\ UNCHANGED count

\* A key that did not come through the queue.
Other == got' # got /\ UNCHANGED <<queue, count>>

Next == (\E k \in Key : Put(k)) \/ Get \/ Other

Spec == Init /\ [][Next]_vars

=============================================================================
