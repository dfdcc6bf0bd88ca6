------------------------------ MODULE MCFrames ------------------------------
(* TLC instances of Frames. *)
EXTENDS Frames

\* A method with an argument and a temporary, one without; a block with an
\* argument and a temporary, and one without.
Units   == {"m", "u", "b", "d"}
MCArgs  == [c \in Units |-> IF c \in {"m", "d"} THEN 1 ELSE 0]
MCTemps == [c \in Units |-> IF c \in {"m", "d"} THEN 1 ELSE 0]
MCCafe  == -1

MCProgram == [c \in Units |->
  CASE c = "u" -> <<{"closure", "value"}, {"closure", "this", "value"},
                    {"protect", "send", "call", "halt"}, {"self"}, {"prim", "trap", "call", "closure"}, {"return"}>>
    [] c = "m" -> <<{"arg", "closure"}, {"dup", "store"}, {"closure", "self"},
                    {"call", "protect", "value"}, {"return", "call"}>>
    [] c = "b" -> <<{"temp", "value", "closure"}, {"^", "send", "call", "pop"}, {"^", "return", "jump"}>>
    [] c = "d" -> <<{"arg", "temp"}, {"^", "store"}, {"arg"}, {"return"}>>]

=============================================================================
