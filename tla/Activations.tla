---------------------------- MODULE Activations ----------------------------
(***************************************************************************)
(* What a call, a return and a ^ of a block promise to a Smalltalk         *)
(* program: a stack of activations, each with variables and operands of    *)
(* its own.  Frames implements it with words on one stack, frame pointers, *)
(* heap contexts and nested calls of interpret().                          *)
(***************************************************************************)
EXTENDS Integers, Sequences

CONSTANTS
  Methods, Blocks,     \* the code units
  NumArgs, NumTemps    \* their arguments and their own temporaries

VARIABLES
  acts,     \* the activations, the running one last
  blocks,   \* the closures made so far
  born,     \* the number of activations so far: their identities
  status    \* "running", "done", "trap" or "halt"

vars == <<acts, blocks, born, status>>

Top == acts[Len(acts)]

\* What to do with the value of an activation: hand it to the caller, run a
\* block and then hand it on, or drop it for the value that waits.
Push       == [k |-> "push", w |-> [k |-> "zero", v |-> 0]]
Cleanup(b) == [k |-> "cleanup", w |-> b]
Restore(w) == [k |-> "restore", w |-> w]

Zeros(n) == [i \in 1..n |-> [k |-> "zero", v |-> 0]]

Activation(c, home, args, locals, then) ==
  [code |-> c, id |-> born + 1, home |-> home, args |-> args,
   vars |-> locals, ops |-> <<>>, pc |-> 0, then |-> then]

BlockActivation(b, args, then) ==
  Activation(blocks[b.v].code, blocks[b.v].home, args,
             blocks[b.v].vals \o Zeros(NumTemps[blocks[b.v].code]), then)

\* The running activation hands over the last n operands and calls.
CallWith(n, act) ==
  /\ acts' = Append([acts EXCEPT ![Len(acts)].ops = SubSeq(@, 1, Len(@) - n),
                                 ![Len(acts)].pc  = @ + 1], act)
  /\ born' = born + 1
  /\ UNCHANGED <<blocks, status>>

LastArgs(n) == SubSeq(Top.ops, Len(Top.ops) - n + 1, Len(Top.ops))

Init ==
  /\ \E c \in Methods :
       acts = <<[code |-> c, id |-> 1, home |-> 1, args |-> Zeros(NumArgs[c]),
                 vars |-> Zeros(NumTemps[c]), ops |-> <<>>, pc |-> 0, then |-> Push]>>
  /\ blocks = <<>>
  /\ born = 1
  /\ status = "running"

\* A bytecode that is no call touches the running activation only.
Local ==
  /\ Len(acts') = Len(acts)
  /\ acts' = [acts EXCEPT ![Len(acts)] =
                [@ EXCEPT !.vars = acts'[Len(acts)].vars, !.ops = acts'[Len(acts)].ops,
                          !.pc = acts'[Len(acts)].pc]]
  /\ Len(acts'[Len(acts)].vars) = Len(Top.vars)
  /\ UNCHANGED <<blocks, born, status>>

\* A closure copies the variables in scope and knows its home activation.
MakeBlock ==
  \E c \in Blocks :
    /\ blocks' = Append(blocks, [code |-> c, home |-> Top.home,
                                 vals |-> Top.args \o Top.vars])
    /\ acts' = [acts EXCEPT ![Len(acts)].ops = Append(@, [k |-> "block", v |-> Len(blocks) + 1]),
                            ![Len(acts)].pc  = @ + 1]
    /\ UNCHANGED <<born, status>>

Call ==
  \E c \in Methods :
    /\ Len(Top.ops) > NumArgs[c]
    /\ CallWith(NumArgs[c] + 1, Activation(c, born + 1, LastArgs(NumArgs[c]), Zeros(NumTemps[c]), Push))

CallBlock ==
  \E n \in 0..1 :
    /\ Len(Top.ops) > n
    /\ Top.ops[Len(Top.ops) - n].k = "block"
    /\ CallWith(n + 1, BlockActivation(Top.ops[Len(Top.ops) - n], LastArgs(n), Push))

\* ensure:, on:do: and the transactions call a block of their operands.
Protect ==
  \E n \in 2..3, i, j \in 1..3 :
    /\ i <= n /\ j <= n /\ n <= Len(Top.ops)
    /\ LET operands == LastArgs(n)
       IN /\ operands[i].k = "block"
          /\ \/ CallWith(n, BlockActivation(operands[i], <<>>, Push))
             \/ CallWith(n, BlockActivation(operands[i], <<>>, Cleanup(operands[j])))

\* The value v of an activation whose callers are rest.
Deliver(rest, then, v) ==
  IF then.k = "cleanup"
    THEN /\ acts' = Append(rest, BlockActivation(then.w, <<>>, Restore(v)))
         /\ born' = born + 1
         /\ UNCHANGED <<blocks, status>>
    ELSE LET value == IF then.k = "restore" THEN then.w ELSE v
         IN /\ acts' = IF rest = <<>> THEN <<>>
                       ELSE [rest EXCEPT ![Len(rest)].ops = Append(@, value)]
            /\ status' = IF rest = <<>> THEN "done" ELSE "running"
            /\ UNCHANGED <<blocks, born>>

Return ==
  /\ Top.ops # <<>>
  /\ Deliver(SubSeq(acts, 1, Len(acts) - 1), Top.then, Top.ops[Len(Top.ops)])

\* ^ in a block returns from the method activation the block was written in.
NonLocalReturn ==
  \E i \in 1..(Len(acts) - 1) :
    /\ acts[i].id = Top.home
    /\ Top.ops # <<>>
    /\ Deliver(SubSeq(acts, 1, i - 1), acts[i].then, Top.ops[Len(Top.ops)])

HomeGone == \A i \in 1..Len(acts) : acts[i].id # Top.home

\* ... and if that activation has returned, the block is sent cannotReturn: with
\* the value, and hands on the answer: its code is over, which pc -1 stands for.
CannotReturn ==
  /\ HomeGone
  /\ Top.ops # <<>>
  /\ \E c \in Methods :
       acts' = Append([acts EXCEPT ![Len(acts)].ops = SubSeq(@, 1, Len(@) - 1), ![Len(acts)].pc = -1],
                      Activation(c, born + 1, LastArgs(1), Zeros(NumTemps[c]), Push))
  /\ born' = born + 1
  /\ UNCHANGED <<blocks, status>>

\* An error of the program stops the machine, and so does BC_HALT.
Stop ==
  /\ status' \in {"trap", "halt"}
  /\ acts' = <<>>
  /\ UNCHANGED <<blocks, born>>

Next ==
  /\ status = "running"
  /\ \/ Local \/ MakeBlock \/ Call \/ CallBlock \/ Protect
     \/ Return \/ NonLocalReturn \/ CannotReturn \/ Stop

Spec == Init /\ [][Next]_vars

=============================================================================
