--------------------------- MODULE MCDurableStore ---------------------------
(* TLC instances of DurableStore. *)
EXTENDS DurableStore

TwoPages == [o \in 1..2 |-> o]

OneObject == <<[small |-> 1]>>

TwoThenOne == <<2, 1>>

=============================================================================
