--------------------------- MODULE WordArithmetic ---------------------------
(***************************************************************************)
(* The SmallInteger and Character primitives of the interpreter            *)
(* (src/src/c_vm/interpret.c), at the width of the machine's words.        *)
(*                                                                         *)
(* A word is a number below 2^WordBits.  The module keeps, beside the      *)
(* words on the stack, the values a Smalltalk programmer takes them for:   *)
(* integers without a width, characters and Booleans.  The primitives work *)
(* on the words, exact arithmetic works on the values.                     *)
(***************************************************************************)
EXTENDS Integers, Sequences

CONSTANTS
  WordBits,      \* 64 in the code.
  MaxCodePoint,  \* The largest code point programs ask a character for.
  MaxStack       \* The depth of the evaluation stack.

Modulus == 2 ^ WordBits

Words == 0 .. Modulus - 1

IntMin == -(Modulus \div 2)
IntMax == (Modulus \div 2) - 1

ASSUME WordAssumption ==
  /\ WordBits \in Nat /\ WordBits >= 6
  /\ MaxCodePoint \in 0 .. (Modulus \div 16) - 1
  /\ MaxStack \in Nat

VARIABLES
  stack,    \* The evaluation stack, top first: words.
  values,   \* What the words stand for.
  failed    \* The primitive that failed and whose method body runs next.

vars == <<stack, values, failed>>

None == "none"

Number(n) == <<"int", n>>
Char(c) == <<"char", c>>
Bool(b) == <<"bool", b>>

Init == stack = <<>> /\ values = <<>> /\ failed = None

-----------------------------------------------------------------------------
\* Words.

TAGGED_TRUE == 7
TAGGED_FALSE == 11

\* The integers a compiled method may hold as literals.
SmallIntegers == -(Modulus \div 8) .. (Modulus \div 8) - 1

\* A word read as a signed integer.
Signed(word) == IF word <= IntMax THEN word ELSE word - Modulus

tag_smallint(n) == ((4 * n) % Modulus) + 1

untag_smallint(word) == Signed(word) \div 4

is_smallint_value(word) == word % 4 = 1

is_character_value(word) == word % 16 = 15

\* Mutants: no test of the range, and one that leaves out the largest integer.
AnyFits(n) == TRUE
LargestDoesNot(n) == n >= IntMin \div 4 /\ n < IntMax \div 4

fits_smallint(n) == n >= IntMin \div 4 /\ n <= IntMax \div 4

\* The three operations whose C built-ins also report an overflow of the word.
Exact(op, lhs, rhs) ==
  CASE op = "add" -> lhs + rhs
    [] op = "sub" -> lhs - rhs
    [] op = "mul" -> lhs * rhs

Overflows(n) == n < IntMin \/ n > IntMax

PRIM_CHAR_VALUE(word) == word \div 16

PRIM_AS_CHARACTER(word) == ((untag_smallint(word) * 16) % Modulus) + 15

TaggedBool(b) == IF b THEN TAGGED_TRUE ELSE TAGGED_FALSE

-----------------------------------------------------------------------------
\* The steps of a program.

Push(n) ==
  /\ failed = None
  /\ Len(stack) < MaxStack
  /\ stack' = <<tag_smallint(n)>> \o stack
  /\ values' = <<Number(n)>> \o values
  /\ UNCHANGED failed

Rest(s, n) == SubSeq(s, n + 1, Len(s))

\* The send found the method of SmallInteger, so the receiver is one; the
\* argument may be anything.
MayCompute ==
  /\ failed = None
  /\ Len(stack) >= 2
  /\ is_smallint_value(stack[2])

Receiver == untag_smallint(stack[2])
Argument == untag_smallint(stack[1])

\* +, - and *.
try_smallint_primitive(op) ==
  LET n == Exact(op, Receiver, Argument) IN
  /\ MayCompute
  /\ IF is_smallint_value(stack[1]) /\ ~Overflows(n) /\ fits_smallint(n)
     THEN /\ stack' = <<tag_smallint(n)>> \o Rest(stack, 2)
          /\ values' = <<Number(Exact(op, values[2][2], values[1][2]))>> \o Rest(values, 2)
          /\ UNCHANGED failed
     ELSE failed' = op /\ UNCHANGED <<stack, values>>

\* < and =.
PRIM_SMALLINT_COMPARE(op) ==
  LET Answer(a, b) == IF op = "lt" THEN a < b ELSE a = b IN
  /\ MayCompute
  /\ IF is_smallint_value(stack[1])
     THEN /\ stack' = <<TaggedBool(Answer(Receiver, Argument))>> \o Rest(stack, 2)
          /\ values' = <<Bool(Answer(values[2][2], values[1][2]))>> \o Rest(values, 2)
          /\ UNCHANGED failed
     ELSE failed' = op /\ UNCHANGED <<stack, values>>

\* asCharacter, sent to the integers that are code points, and value.
try_character_primitive(op) ==
  /\ failed = None
  /\ Len(stack) >= 1
  /\ \/ /\ op = "asCharacter"
        /\ is_smallint_value(stack[1])
        /\ untag_smallint(stack[1]) \in 0 .. MaxCodePoint
        /\ stack' = <<PRIM_AS_CHARACTER(stack[1])>> \o Rest(stack, 1)
        /\ values' = <<Char(values[1][2])>> \o Rest(values, 1)
     \/ /\ op = "value"
        /\ is_character_value(stack[1])
        /\ stack' = <<tag_smallint(PRIM_CHAR_VALUE(stack[1]))>> \o Rest(stack, 1)
        /\ values' = <<Number(values[1][2])>> \o Rest(values, 1)
  /\ UNCHANGED failed

\* The primitive failed: the body signals an error, and what the program makes of
\* it takes the place of receiver and argument.
MethodBody(n) ==
  /\ failed # None
  /\ stack' = <<tag_smallint(n)>> \o Rest(stack, 2)
  /\ values' = <<Number(n)>> \o Rest(values, 2)
  /\ failed' = None

Next ==
  \/ \E n \in SmallIntegers : Push(n) \/ MethodBody(n)
  \/ \E op \in {"add", "sub", "mul"} : try_smallint_primitive(op)
  \/ \E op \in {"lt", "eq"} : PRIM_SMALLINT_COMPARE(op)
  \/ \E op \in {"asCharacter", "value"} : try_character_primitive(op)

Spec == Init /\ [][Next]_vars

-----------------------------------------------------------------------------
\* What a reader of the word takes it for: the printing and comparing code looks
\* at the tags in this way.
Denotes(word) ==
  CASE is_smallint_value(word) -> Number(untag_smallint(word))
    [] is_character_value(word) -> Char(PRIM_CHAR_VALUE(word))
    [] word = TAGGED_TRUE -> Bool(TRUE)
    [] word = TAGGED_FALSE -> Bool(FALSE)

\* However long the computation, and however close to the largest and smallest
\* SmallInteger, the words on the stack are those of exact arithmetic: no result
\* wraps round, loses its sign or takes another tag (try_smallint_primitive,
\* try_character_primitive).
WordsAreExact ==
  /\ Len(stack) = Len(values)
  /\ \A i \in DOMAIN stack :
       stack[i] \in Words /\ Denotes(stack[i]) = values[i]

\* A primitive fails only where it must: the argument is no integer or exact
\* arithmetic leaves the SmallIntegers; and it leaves receiver and argument for
\* the method body (the fall-through of the send in interpret).
FailuresAreReal ==
  failed # None =>
    /\ Len(values) >= 2
    /\ values[2][1] = "int"
    /\ \/ values[1][1] # "int"
       \/ /\ failed \in {"add", "sub", "mul"}
          /\ LET n == Exact(failed, values[2][2], values[1][2])
             IN \A word \in Words : is_smallint_value(word) => untag_smallint(word) # n
=============================================================================
