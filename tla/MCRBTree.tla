------------------------------- MODULE MCRBTree -------------------------------
(* RBTree for TLC: keys that wrap around, and equal keys. *)
EXTENDS RBTree

\* Node i has one key; they run from 12 over 15 to 0 and on, every fourth twice.
OneKeyEach == [n \in Nodes |-> {(12 + (3 * n) \div 4) % KeyMod}]

\* Few nodes, inserted and deleted in any order.
AnyOrder(function, number) ==
    LET few == {n \in Nodes : n <= number}
    IN  [insert |-> function, inserted |-> few, after |-> [n \in Nodes |-> {}], deleted |-> few]

\* All nodes, each inserted only after the lower ones: with more than six the
\* loop of the deletion climbs.
Ascending ==
    [insert |-> "rbtree_insert_timer_value", inserted |-> Nodes,
     after |-> [n \in Nodes |-> {m \in Nodes : m < n}], deleted |-> {1, 5, 8, 10}]

All == {AnyOrder("rbtree_insert_timer_value", 6), AnyOrder("rbtree_insert_value", 5), Ascending}
=============================================================================
