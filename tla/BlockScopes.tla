---------------------------- MODULE BlockScopes ----------------------------
(***************************************************************************)
(* Where a compiled block finds the variables of the scopes around it.     *)
(*                                                                         *)
(* The bootstrap compiler (src/src/c/bootstrap_compiler.c) keeps a chain   *)
(* of CgStates, one for each scope that is being compiled, and turns a     *)
(* name into an argument index or a temporary slot.  The virtual machine   *)
(* (src/src/c_vm/interpret.c) builds the frames those numbers are used in: *)
(* BC_PUSH_CLOSURE copies the words of the frame into the block, and       *)
(* activate_block_call puts the copies in front of the block's own         *)
(* temporaries.  The module walks down a nest of scopes, compiling and     *)
(* running at once, and asks whether the two sides mean the same word.     *)
(*                                                                         *)
(* The names of a nest are all different; a variable is identified by its  *)
(* scope, its kind and its index.  Words hold variables, not values.       *)
(***************************************************************************)
EXTENDS Integers, Sequences

CONSTANTS
  MaxArgs,     \* Arguments of the method.
  MaxTemps,    \* Temporaries of a scope.
  MaxDepth,    \* Scopes of the nest, the method included.
  BlockArgs    \* The numbers of arguments the blocks of the nest take.

ASSUME ScopesAssumption ==
  /\ MaxArgs \in Nat
  /\ MaxTemps \in Nat
  /\ MaxDepth \in Nat
  /\ BlockArgs \subseteq Nat

VARIABLES
  scopes,   \* The chain of CgStates, the method first: [args, temps, offset].
  copied,   \* The number of words copied from the closure into the running frame.
  words     \* The temporaries of the running frame, copied words first.

scopesVars == <<scopes, copied, words>>

Depth == Len(scopes)
Current == scopes[Depth]

Arg(k, i) == [scope |-> k, kind |-> "arg", index |-> i]
Temp(k, i) == [scope |-> k, kind |-> "temp", index |-> i]
Variables == [scope : Nat \ {0}, kind : {"arg", "temp"}, index : Nat]

\* A method is activated: its temporaries are words of its frame, its arguments
\* are not.
ScopesInit ==
  \E a \in 0 .. MaxArgs, t \in 0 .. MaxTemps :
    /\ scopes = <<[args |-> a, temps |-> t, offset |-> 0]>>
    /\ copied = 0
    /\ words = [s \in 0 .. t - 1 |-> Temp(1, s)]

-----------------------------------------------------------------------------
\* The compiler.

\* Mutant: the arguments of the scope are not counted.
OffsetWithoutArgs == Current.offset + Current.temps

\* Where the variables of a block inside the current scope begin.
cg_compile_and_store_block == Current.offset + Current.args + Current.temps

\* The slot of a temporary of the current scope.
cg_local_temp_slot(i) ==
  IF Depth = 1 THEN i ELSE Current.offset + Current.args + i

\* The slots of a temporary and of an argument of an enclosing scope.
cg_outer_temp_slot(k, i) == scopes[k].offset + scopes[k].args + i

cg_outer_arg_slot(k, i) == scopes[k].offset + i

-----------------------------------------------------------------------------
\* The virtual machine.

\* The words a new closure holds: the frame's arguments, then its temporaries,
\* the copied ones included.
NumTemps == Current.temps + copied
CopiedCount == Current.args + NumTemps

\* Mutant: the temporaries go first.
TempsFirst(s) == IF s < NumTemps THEN words[s] ELSE Arg(Depth, s - NumTemps)

CopiedWord(s) == IF s < Current.args THEN Arg(Depth, s) ELSE words[s - Current.args]

\* Mutant: the frame has no room for the temporaries of its own.
CopiesOnly(t) == CopiedCount

\* The temporaries of a block's frame.
activate_block_call(t) == CopiedCount + t

\* A block with a arguments and t temporaries is compiled where control is, its
\* closure is made and activated.
Enter(a, t) ==
  /\ Depth < MaxDepth
  /\ scopes' = Append(scopes, [args |-> a, temps |-> t, offset |-> cg_compile_and_store_block])
  /\ copied' = CopiedCount
  /\ words' = [s \in 0 .. activate_block_call(t) - 1 |->
                 IF s < CopiedCount THEN CopiedWord(s) ELSE Temp(Depth + 1, s - CopiedCount)]

ScopesNext == \E a \in BlockArgs, t \in 0 .. MaxTemps : Enter(a, t)

ScopesSpec == ScopesInit /\ [][ScopesNext]_scopesVars

-----------------------------------------------------------------------------
Scope == [args : Nat, temps : Nat, offset : Nat]

\* The type invariant: the running frame has a word for every temporary of the
\* current scope and every copied word.
ScopesTypeOK ==
  /\ scopes \in Seq(Scope)
  /\ Depth >= 1
  /\ copied \in Nat
  /\ words \in [0 .. NumTemps - 1 -> Variables]

\* The word of the running frame that slot s names is variable v.
Holds(s, v) == s \in DOMAIN words /\ words[s] = v

\* A block's own variables begin where the words copied from its closure end, as
\* the comment in cg_compile_and_store_block says, at every depth and whatever
\* arguments the scopes have.
OffsetIsCopied == Current.offset = copied

\* The code compiled for a scope (cg_emit_primary_token and assignments) reads
\* and writes the variable its source names, whether it belongs to the scope
\* itself or to one around it.  Blocks with arguments break it (README,
\* deviation 22); the run checks PlainNestsAgree, below.
SlotsAgree ==
  /\ \A i \in 0 .. Current.temps - 1 : Holds(cg_local_temp_slot(i), Temp(Depth, i))
  /\ \A k \in 1 .. Depth - 1 :
       /\ \A i \in 0 .. scopes[k].temps - 1 : Holds(cg_outer_temp_slot(k, i), Temp(k, i))
       /\ \A i \in 0 .. scopes[k].args - 1 : Holds(cg_outer_arg_slot(k, i), Arg(k, i))

\* The blocks of the nest take no arguments; the method may.
Plain == \A k \in 2 .. Depth : scopes[k].args = 0

\* In such a nest, of any depth, all slots agree.  A block with an argument breaks
\* SlotsAgree: activate_block_call keeps its arguments out of the temporaries, but
\* the compiler counts them, as it must when an inner block copies them.
PlainNestsAgree == Plain => SlotsAgree
=============================================================================
