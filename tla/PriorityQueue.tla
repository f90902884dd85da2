---------------------------- MODULE PriorityQueue ----------------------------
(***************************************************************************)
(* What BoundedPriorityQueue promises to the loops of the processors that  *)
(* share it, with no promise, wakeup or retry left in it: two bounded FIFO *)
(* lanes, the higher one always served first, and a close after which      *)
(* what was taken in is still handed out.                                  *)
(***************************************************************************)
EXTENDS Naturals, Sequences

CONSTANTS Capacity,     \* the items a lane holds
          Item          \* the items callers may offer

Priority == {0, 1}

VARIABLES lane,         \* lane[p]: the items of priority p, oldest first
          delivered,    \* the items handed out, oldest first
          refused,      \* the items enqueue answered "false" for
          shut          \* close() was called

vars == <<lane, delivered, refused, shut>>

Init == /\ lane = [p \in Priority |-> <<>>]
        /\ delivered = <<>>
        /\ refused = {}
        /\ shut = FALSE

Add(p, i) == /\ Len(lane[p]) < Capacity
             /\ lane' = [lane EXCEPT ![p] = Append(@, i)]
             /\ UNCHANGED <<delivered, refused, shut>>

Take(p) == /\ lane[p] # <<>>
           /\ \A q \in Priority : q > p => lane[q] = <<>>
           /\ delivered' = Append(delivered, Head(lane[p]))
           /\ lane' = [lane EXCEPT ![p] = Tail(@)]
           /\ UNCHANGED <<refused, shut>>

Refuse(i) == /\ shut
             /\ refused' = refused \union {i}
             /\ UNCHANGED <<lane, delivered, shut>>

Shut == shut' = TRUE /\ UNCHANGED <<lane, delivered, refused>>

Next == \/ \E p \in Priority : Take(p) \/ \E i \in Item : Add(p, i)
        \/ \E i \in Item : Refuse(i)
        \/ Shut

Spec == Init /\ [][Next]_vars
=============================================================================
