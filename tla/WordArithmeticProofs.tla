------------------------ MODULE WordArithmeticProofs ------------------------
(***************************************************************************)
(* Proofs about WordArithmetic for words of every width from six bits on.  *)
(***************************************************************************)
EXTENDS WordArithmetic, InductionLemmas, SequenceTheorems

\* A sixteenth of the words: all bounds of the module are multiples of it.
Sixteenth == Modulus \div 16

\* A power of two from the sixth on is a multiple of 16, four of them or more.
LEMMA PowersFromSix ==
  \A n \in Nat : \E k \in Nat : k >= 4 /\ 2^(n + 6) = 16 * k
<1> DEFINE S == {n \in Nat : \E k \in Nat : k >= 4 /\ 2^(n + 6) = 16 * k}
<1>1. 0 \in S
  <2>1. 2^0 = 1
    <3>1. IsFiniteSet({}) /\ Cardinality({}) = 0
      BY FS_EmptySet
    <3>2. Cardinality(SUBSET {}) = 2^0
      BY <3>1, FS_SUBSET, Zenon
    <3>3. SUBSET {} = {{}}
      OBVIOUS
    <3>4. Cardinality({{}}) = 1
      BY FS_Singleton, Zenon
    <3> QED
      BY <3>2, <3>3, <3>4, Zenon
  <2>2. 2^(0 + 1) = 2 * 2^0 /\ 2^(1 + 1) = 2 * 2^1 /\ 2^(2 + 1) = 2 * 2^2
        /\ 2^(3 + 1) = 2 * 2^3 /\ 2^(4 + 1) = 2 * 2^4 /\ 2^(5 + 1) = 2 * 2^5
    BY PowerStep
  <2>3. 2^6 = 64
    BY <2>1, <2>2
  <2> QED
    BY <2>3
<1>2. ASSUME NEW n \in Nat, n \in S
      PROVE  n + 1 \in S
  <2>1. PICK k \in Nat : k >= 4 /\ 2^(n + 6) = 16 * k
    BY <1>2
  <2>2. 2^((n + 6) + 1) = 2 * 2^(n + 6)
    BY PowerStep
  <2>3. (n + 6) + 1 = (n + 1) + 6 /\ 2 * (16 * k) = 16 * (2 * k)
    OBVIOUS
  <2>4. 2^((n + 1) + 6) = 16 * (2 * k)
    BY <2>1, <2>2, <2>3, Zenon
  <2>5. 2 * k \in Nat /\ 2 * k >= 4
    BY <2>1
  <2>6. \E j \in Nat : j >= 4 /\ 2^((n + 1) + 6) = 16 * j
    BY <2>4, <2>5, Zenon
  <2> QED
    BY <2>6
<1> HIDE DEF S
<1>3. Nat \subseteq S
  BY <1>1, <1>2, NatSetInduction
<1> QED
  BY <1>3 DEF S

\* The bounds of the tagged words as multiples of a sixteenth of the words.
LEMMA Bounds ==
  /\ Sixteenth \in Nat /\ Sixteenth >= 4
  /\ Modulus = 16 * Sixteenth
  /\ IntMin = -8 * Sixteenth /\ IntMax = 8 * Sixteenth - 1
  /\ IntMin \div 4 = -2 * Sixteenth /\ IntMax \div 4 = 2 * Sixteenth - 1
  /\ SmallIntegers = -2 * Sixteenth .. 2 * Sixteenth - 1
  /\ Words = 0 .. 16 * Sixteenth - 1
  /\ MaxCodePoint \in 0 .. Sixteenth - 1
<1>1. WordBits - 6 \in Nat /\ (WordBits - 6) + 6 = WordBits
  BY WordAssumption
<1>2. PICK k \in Nat : k >= 4 /\ 2^((WordBits - 6) + 6) = 16 * k
  BY <1>1, PowersFromSix
<1>3. Modulus = 16 * k
  BY <1>1, <1>2, Zenon DEF Modulus
<1>4. Sixteenth = k
  BY <1>3 DEF Sixteenth
<1> QED
  BY <1>2, <1>3, <1>4, WordAssumption DEF IntMin, IntMax, SmallIntegers, Words

\* A remainder by a number that is not known: no multiple, or one, is added.
LEMMA SmallRemainder ==
  ASSUME NEW m \in Nat, m > 0, NEW x \in -m .. m - 1
  PROVE  x % m = IF x < 0 THEN x + m ELSE x
OBVIOUS

-----------------------------------------------------------------------------
(* Words and tags. *)

\* tag_smallint and untag_smallint are inverse on the SmallIntegers, and the
\* word that stands for one has the integer tag.
LEMMA Tagging ==
  ASSUME NEW n \in SmallIntegers
  PROVE  /\ tag_smallint(n) \in Words
         /\ is_smallint_value(tag_smallint(n))
         /\ untag_smallint(tag_smallint(n)) = n
<1> DEFINE K == Sixteenth
<1>1. /\ K \in Nat /\ K >= 4 /\ Modulus = 16 * K /\ IntMax = 8 * K - 1
      /\ n \in -2 * K .. 2 * K - 1 /\ Words = 0 .. 16 * K - 1
  BY Bounds
<1> HIDE DEF K
<1>2. (4 * n) % (16 * K) = IF n < 0 THEN 4 * n + 16 * K ELSE 4 * n
  <2>1. 16 * K \in Nat /\ 16 * K > 0 /\ 4 * n \in -(16 * K) .. 16 * K - 1
    BY <1>1
  <2>2. (4 * n) % (16 * K) = IF 4 * n < 0 THEN 4 * n + 16 * K ELSE 4 * n
    BY <2>1, SmallRemainder
  <2> QED
    BY <1>1, <2>2
<1>3. tag_smallint(n) = IF n < 0 THEN 4 * n + 16 * K + 1 ELSE 4 * n + 1
  BY <1>1, <1>2 DEF tag_smallint
<1>4. Signed(tag_smallint(n)) = 4 * n + 1
  BY <1>1, <1>3 DEF Signed
<1>5. (4 * n + 1) \div 4 = n
  BY <1>1
<1> QED
  BY <1>1, <1>3, <1>4, <1>5 DEF is_smallint_value, untag_smallint

\* A word with the integer tag stands for a SmallInteger.
LEMMA Untagging ==
  ASSUME NEW word \in Words, is_smallint_value(word)
  PROVE  untag_smallint(word) \in SmallIntegers
<1>1. word \in 0 .. 16 * Sixteenth - 1
  BY Bounds
<1>2. Signed(word) = IF word <= 8 * Sixteenth - 1 THEN word ELSE word - 16 * Sixteenth
  BY Bounds DEF Signed
<1>3. Signed(word) \in -8 * Sixteenth .. 8 * Sixteenth - 1
  BY <1>1, <1>2, Bounds
<1>4. Signed(word) \div 4 \in -2 * Sixteenth .. 2 * Sixteenth - 1
  BY <1>3, Bounds
<1> QED
  BY <1>4, Bounds DEF untag_smallint

\* PRIM_AS_CHARACTER keeps the code point and gives the character tag.
LEMMA AsCharacter ==
  ASSUME NEW word \in Words, untag_smallint(word) \in 0 .. MaxCodePoint
  PROVE  /\ PRIM_AS_CHARACTER(word) \in Words
         /\ is_character_value(PRIM_AS_CHARACTER(word))
         /\ PRIM_CHAR_VALUE(PRIM_AS_CHARACTER(word)) = untag_smallint(word)
<1> DEFINE c == untag_smallint(word)
           K == Sixteenth
<1>1. K \in Nat /\ K >= 4 /\ Modulus = 16 * K /\ c \in 0 .. K - 1 /\ Words = 0 .. 16 * K - 1
  BY Bounds
<1> HIDE DEF c, K
<1>2. (c * 16) % (16 * K) = c * 16
  <2>1. 16 * K \in Nat /\ 16 * K > 0 /\ c * 16 \in -(16 * K) .. 16 * K - 1 /\ ~ (c * 16 < 0)
    BY <1>1
  <2> QED
    BY <2>1, SmallRemainder
<1>3. PRIM_AS_CHARACTER(word) = c * 16 + 15
  BY <1>1, <1>2 DEF PRIM_AS_CHARACTER, c
<1>4. (c * 16 + 15) % 16 = 15 /\ (c * 16 + 15) \div 16 = c
  BY <1>1
<1> QED
  BY <1>1, <1>3, <1>4 DEF is_character_value, PRIM_CHAR_VALUE, c

\* The value of a character is a SmallInteger.
LEMMA CharacterValue ==
  ASSUME NEW word \in Words, is_character_value(word)
  PROVE  PRIM_CHAR_VALUE(word) \in SmallIntegers
<1>1. word \in 0 .. 16 * Sixteenth - 1
  BY Bounds
<1>2. word \div 16 \in 0 .. Sixteenth - 1
  BY <1>1, Bounds
<1> QED
  BY <1>2, Bounds DEF PRIM_CHAR_VALUE

-----------------------------------------------------------------------------
(* The inductive invariant: every word has a tag that a reader knows, and  *)
(* what the reader takes it for is the value beside it; a primitive that   *)
(* has failed left its operands.                                           *)

Value == ({"int"} \X Int) \cup ({"char"} \X Nat) \cup ({"bool"} \X BOOLEAN)

StandsFor(word, value) ==
  \/ is_smallint_value(word) /\ value = Number(untag_smallint(word))
  \/ is_character_value(word) /\ value = Char(PRIM_CHAR_VALUE(word))
  \/ word = TAGGED_TRUE /\ value = Bool(TRUE)
  \/ word = TAGGED_FALSE /\ value = Bool(FALSE)

StackInv ==
  /\ stack \in Seq(Words) /\ values \in Seq(Value)
  /\ Len(stack) = Len(values)
  /\ \A i \in 1 .. Len(stack) : StandsFor(stack[i], values[i])

FailedInv ==
  failed # None =>
    /\ Len(stack) >= 2
    /\ is_smallint_value(stack[2])
    /\ \/ ~is_smallint_value(stack[1])
       \/ /\ failed \in {"add", "sub", "mul"}
          /\ Exact(failed, Receiver, Argument) \notin SmallIntegers

IInv == StackInv /\ FailedInv

\* The tags exclude each other, so a word denotes the value it stands for.
LEMMA Denoting ==
  ASSUME NEW word \in Words, NEW value, StandsFor(word, value)
  PROVE  Denotes(word) = value
<1>1. word \in Nat
  BY Bounds
<1>2. ~ (is_smallint_value(word) /\ is_character_value(word))
  BY <1>1 DEF is_smallint_value, is_character_value
<1>3. /\ ~is_smallint_value(TAGGED_TRUE) /\ ~is_character_value(TAGGED_TRUE)
      /\ ~is_smallint_value(TAGGED_FALSE) /\ ~is_character_value(TAGGED_FALSE)
      /\ TAGGED_TRUE # TAGGED_FALSE
  BY DEF is_smallint_value, is_character_value, TAGGED_TRUE, TAGGED_FALSE
<1> QED
  BY <1>2, <1>3 DEF StandsFor, Denotes

\* The word of an integer value is the tagged integer, and is read back as it.
LEMMA IntegerWord ==
  ASSUME NEW word \in Words, NEW value, StandsFor(word, value)
  PROVE  /\ is_smallint_value(word) => /\ value = Number(untag_smallint(word))
                                       /\ value[1] = "int"
                                       /\ value[2] = untag_smallint(word)
         /\ is_character_value(word) => /\ value[2] = PRIM_CHAR_VALUE(word)
         /\ ~is_smallint_value(word) => value[1] # "int"
<1>1. word \in Nat
  BY Bounds
<1>2. ~ (is_smallint_value(word) /\ is_character_value(word))
  BY <1>1 DEF is_smallint_value, is_character_value
<1>3. /\ ~is_smallint_value(TAGGED_TRUE) /\ ~is_character_value(TAGGED_TRUE)
      /\ ~is_smallint_value(TAGGED_FALSE) /\ ~is_character_value(TAGGED_FALSE)
  BY DEF is_smallint_value, is_character_value, TAGGED_TRUE, TAGGED_FALSE
<1>4. /\ Number(untag_smallint(word))[1] = "int"
      /\ Number(untag_smallint(word))[2] = untag_smallint(word)
      /\ Char(PRIM_CHAR_VALUE(word))[1] # "int"
      /\ Char(PRIM_CHAR_VALUE(word))[2] = PRIM_CHAR_VALUE(word)
      /\ Bool(TRUE)[1] # "int" /\ Bool(FALSE)[1] # "int"
  BY DEF Number, Char, Bool
<1> QED
  BY <1>2, <1>3, <1>4, Zenon DEF StandsFor

\* What the primitives push.
LEMMA NumberStands ==
  ASSUME NEW n \in SmallIntegers
  PROVE  /\ tag_smallint(n) \in Words /\ Number(n) \in Value
         /\ StandsFor(tag_smallint(n), Number(n))
<1>1. n \in Int
  BY Bounds
<1> QED
  BY <1>1, Tagging DEF StandsFor, Number, Value

\* The tagged word of a Boolean stands for it.
LEMMA BoolStands ==
  ASSUME NEW b \in BOOLEAN
  PROVE  /\ TaggedBool(b) \in Words /\ Bool(b) \in Value
         /\ StandsFor(TaggedBool(b), Bool(b))
<1>1. TAGGED_TRUE \in Words /\ TAGGED_FALSE \in Words
  BY Bounds DEF TAGGED_TRUE, TAGGED_FALSE
<1>2. Bool(b) \in Value
  BY DEF Bool, Value
<1>3. CASE b = TRUE
  BY <1>1, <1>2, <1>3 DEF TaggedBool, StandsFor
<1>4. CASE b = FALSE
  BY <1>1, <1>2, <1>4 DEF TaggedBool, StandsFor
<1> QED
  BY <1>3, <1>4

\* Taking n words off and pushing one, on the stack and beside it.
LEMMA Replacing ==
  ASSUME NEW S, NEW s \in Seq(S), NEW n \in 0 .. Len(s), NEW x \in S
  PROVE  LET t == <<x>> \o Rest(s, n)
         IN  /\ t \in Seq(S) /\ Len(t) = Len(s) - n + 1
             /\ t[1] = x
             /\ \A i \in 2 .. Len(t) : t[i] = s[i - 1 + n] /\ i - 1 + n \in 1 .. Len(s)
<1> DEFINE r == SubSeq(s, n + 1, Len(s))
           one == <<x>>
           t == one \o r
<1>1. /\ r \in Seq(S) /\ Len(r) = Len(s) - n
      /\ \A i \in 1 .. Len(r) : r[i] = s[i + n]
  OBVIOUS
<1>2. one \in Seq(S) /\ Len(one) = 1 /\ one[1] = x
  OBVIOUS
<1> HIDE DEF r, one
<1>3. /\ t \in Seq(S) /\ Len(t) = 1 + Len(r) /\ t[1] = x
      /\ \A i \in 2 .. Len(t) : t[i] = r[i - 1]
  <2>1. /\ t \in Seq(S) /\ Len(t) = Len(one) + Len(r)
        /\ \A i \in 1 .. Len(one) + Len(r) :
             t[i] = IF i <= Len(one) THEN one[i] ELSE r[i - Len(one)]
    BY <1>1, <1>2, ConcatProperties
  <2> QED
    BY <1>1, <1>2, <2>1
<1> HIDE DEF t
<1>4. ASSUME NEW i \in 2 .. Len(t)
      PROVE  t[i] = s[i - 1 + n] /\ i - 1 + n \in 1 .. Len(s)
  <2>1. Len(r) \in Nat /\ Len(t) \in Nat /\ Len(s) \in Nat /\ n \in Nat
    BY <1>1, <1>3
  <2>2. i - 1 \in 1 .. Len(r)
    BY <1>3, <2>1
  <2>3. i - 1 + n \in 1 .. Len(s)
    BY <1>1, <2>1, <2>2
  <2> QED
    BY <1>1, <1>3, <2>2, <2>3
<1> QED
  BY <1>1, <1>3, <1>4 DEF t, r, one, Rest

\* The words and the values they stand for lose the same n on top and get the same answer.
LEMMA ReplacingBoth ==
  ASSUME StackInv, NEW n \in 0 .. Len(stack), NEW word \in Words, NEW value \in Value,
         StandsFor(word, value),
         stack' = <<word>> \o Rest(stack, n), values' = <<value>> \o Rest(values, n)
  PROVE  StackInv'
<1>1. /\ stack \in Seq(Words) /\ values \in Seq(Value) /\ Len(stack) = Len(values)
      /\ \A i \in 1 .. Len(stack) : StandsFor(stack[i], values[i])
      /\ n \in 0 .. Len(values)
  BY DEF StackInv
<1>2. /\ stack' \in Seq(Words) /\ Len(stack') = Len(stack) - n + 1 /\ stack'[1] = word
      /\ \A i \in 2 .. Len(stack') : /\ stack'[i] = stack[i - 1 + n]
                                     /\ i - 1 + n \in 1 .. Len(stack)
  BY <1>1, Replacing
<1>3. /\ values' \in Seq(Value) /\ Len(values') = Len(values) - n + 1 /\ values'[1] = value
      /\ \A i \in 2 .. Len(values') : values'[i] = values[i - 1 + n]
  BY <1>1, Replacing
<1>4. ASSUME NEW i \in 1 .. Len(stack')
      PROVE  StandsFor(stack'[i], values'[i])
  <2>1. CASE i = 1
    BY <1>2, <1>3, <2>1
  <2>2. CASE i # 1
    <3>1. i \in 2 .. Len(stack') /\ i \in 2 .. Len(values')
      BY <1>1, <1>2, <1>3, <2>2
    <3> QED
      BY <1>1, <1>2, <1>3, <3>1
  <2> QED
    BY <2>1, <2>2
<1>5. Len(stack') = Len(values')
  BY <1>1, <1>2, <1>3
<1>6. \A i \in 1 .. Len(stack') : StandsFor(stack'[i], values'[i])
  BY <1>4
<1> QED
  BY <1>2, <1>3, <1>5, <1>6, Zenon DEF StackInv, StandsFor

\* The result of +, - or * on two SmallIntegers.
LEMMA ExactIsInteger ==
  ASSUME NEW op \in {"add", "sub", "mul"}, NEW a \in Int, NEW b \in Int
  PROVE  Exact(op, a, b) \in Int
BY DEF Exact

\* The overflow of the C built-in is no further reason to fail.
LEMMA Fitting ==
  ASSUME NEW n \in Int
  PROVE  ~Overflows(n) /\ fits_smallint(n) <=> n \in SmallIntegers
BY Bounds DEF Overflows, fits_smallint

\* The operands of a primitive that computes.
LEMMA Operands ==
  ASSUME IInv, MayCompute
  PROVE  /\ 2 \in 0 .. Len(stack) /\ Len(values) >= 2
         /\ stack[1] \in Words /\ stack[2] \in Words
         /\ StandsFor(stack[1], values[1]) /\ StandsFor(stack[2], values[2])
         /\ Receiver \in SmallIntegers /\ values[2] = Number(Receiver)
         /\ values[2][1] = "int" /\ values[2][2] = Receiver
         /\ is_smallint_value(stack[1]) =>
              /\ Argument \in SmallIntegers /\ values[1] = Number(Argument)
              /\ values[1][2] = Argument
<1>1. /\ 2 \in 0 .. Len(stack) /\ Len(values) >= 2
      /\ stack[1] \in Words /\ stack[2] \in Words
      /\ StandsFor(stack[1], values[1]) /\ StandsFor(stack[2], values[2])
  BY DEF IInv, StackInv, MayCompute
<1>2. is_smallint_value(stack[2])
  BY DEF MayCompute
<1> QED
  BY <1>1, <1>2, IntegerWord, Untagging DEF Receiver, Argument

\* +, - and *: the result is in range and tagged, or the primitive fails for a
\* reason and leaves its operands (try_smallint_primitive).
LEMMA ComputePreserves ==
  ASSUME IInv, NEW op \in {"add", "sub", "mul"}, try_smallint_primitive(op)
  PROVE  IInv'
<1> DEFINE n == Exact(op, Receiver, Argument)
<1>1. MayCompute
  BY DEF try_smallint_primitive
<1>2. CASE is_smallint_value(stack[1]) /\ ~Overflows(n) /\ fits_smallint(n)
  <2>1. /\ stack' = <<tag_smallint(n)>> \o Rest(stack, 2)
        /\ values' = <<Number(Exact(op, values[2][2], values[1][2]))>> \o Rest(values, 2)
        /\ failed' = failed
    BY <1>2 DEF try_smallint_primitive
  <2>2. values[2][2] = Receiver /\ values[1][2] = Argument
    BY <1>1, <1>2, Operands
  <2>3. values' = <<Number(n)>> \o Rest(values, 2)
    BY <2>1, <2>2, Zenon
  <2>4. n \in SmallIntegers
    <3>1. Receiver \in Int /\ Argument \in Int
      BY <1>1, <1>2, Operands, Bounds
    <3>2. n \in Int
      BY <3>1, ExactIsInteger
    <3> QED
      BY <1>2, <3>2, Fitting
  <2> HIDE DEF n
  <2>5. StackInv'
    <3>1. 2 \in 0 .. Len(stack) /\ StackInv
      BY <1>1, Operands DEF IInv
    <3>2. /\ tag_smallint(n) \in Words /\ Number(n) \in Value
          /\ StandsFor(tag_smallint(n), Number(n))
      BY <2>4, NumberStands
    <3> QED
      BY <2>1, <2>3, <3>1, <3>2, ReplacingBoth
  <2>6. FailedInv'
    BY <1>1, <2>1 DEF MayCompute, FailedInv
  <2> QED
    BY <2>5, <2>6 DEF IInv
<1>3. CASE ~(is_smallint_value(stack[1]) /\ ~Overflows(n) /\ fits_smallint(n))
  <2>1. failed' = op /\ stack' = stack /\ values' = values
    BY <1>3 DEF try_smallint_primitive
  <2>2. is_smallint_value(stack[1]) => n \notin SmallIntegers
    <3>1. SUFFICES ASSUME is_smallint_value(stack[1]) PROVE n \notin SmallIntegers
      OBVIOUS
    <3>2. Receiver \in Int /\ Argument \in Int
      BY <1>1, <3>1, Operands, Bounds
    <3>3. n \in Int
      BY <3>2, ExactIsInteger
    <3> QED
      BY <1>3, <3>1, <3>3, Fitting
  <2>3. FailedInv'
    BY <1>1, <2>1, <2>2 DEF FailedInv, MayCompute, Receiver, Argument
  <2>4. StackInv'
    BY <2>1 DEF IInv, StackInv
  <2> QED
    BY <2>3, <2>4 DEF IInv
<1> QED
  BY <1>2, <1>3

\* < and =: the words compare as the integers do.
LEMMA ComparePreserves ==
  ASSUME IInv, NEW op \in {"lt", "eq"}, PRIM_SMALLINT_COMPARE(op)
  PROVE  IInv'
<1> DEFINE Answer(a, b) == IF op = "lt" THEN a < b ELSE a = b
           answer == Answer(Receiver, Argument)
<1>1. MayCompute
  BY DEF PRIM_SMALLINT_COMPARE
<1>2. CASE is_smallint_value(stack[1])
  <2>1. /\ stack' = <<TaggedBool(answer)>> \o Rest(stack, 2)
        /\ values' = <<Bool(Answer(values[2][2], values[1][2]))>> \o Rest(values, 2)
        /\ failed' = failed
    BY <1>2 DEF PRIM_SMALLINT_COMPARE
  <2>2. values[2][2] = Receiver /\ values[1][2] = Argument
    BY <1>1, <1>2, Operands
  <2>3. values' = <<Bool(answer)>> \o Rest(values, 2)
    BY <2>1, <2>2, Zenon
  <2>4. answer \in BOOLEAN
    <3>1. Receiver \in Int /\ Argument \in Int
      BY <1>1, <1>2, Operands, Bounds
    <3> HIDE DEF answer
    <3>2. CASE op = "lt"
      BY <3>1, <3>2 DEF answer
    <3>3. CASE op = "eq"
      BY <3>1, <3>3 DEF answer
    <3> QED
      BY <3>2, <3>3
  <2> HIDE DEF answer
  <2>5. StackInv'
    <3>1. 2 \in 0 .. Len(stack) /\ StackInv
      BY <1>1, Operands DEF IInv
    <3>2. /\ TaggedBool(answer) \in Words /\ Bool(answer) \in Value
          /\ StandsFor(TaggedBool(answer), Bool(answer))
      BY <2>4, BoolStands
    <3> QED
      BY <2>1, <2>3, <3>1, <3>2, ReplacingBoth
  <2>6. FailedInv'
    BY <1>1, <2>1 DEF MayCompute, FailedInv
  <2> QED
    BY <2>5, <2>6 DEF IInv
<1>3. CASE ~is_smallint_value(stack[1])
  <2>1. failed' = op /\ stack' = stack /\ values' = values
    BY <1>3 DEF PRIM_SMALLINT_COMPARE
  <2>2. FailedInv'
    BY <1>1, <1>3, <2>1 DEF FailedInv, MayCompute
  <2>3. StackInv'
    BY <2>1 DEF IInv, StackInv
  <2> QED
    BY <2>2, <2>3 DEF IInv
<1> QED
  BY <1>2, <1>3

\* asCharacter and value exchange the tag and keep the code point.
LEMMA CharacterPreserves ==
  ASSUME IInv, NEW op \in {"asCharacter", "value"}, try_character_primitive(op)
  PROVE  IInv'
<1>1. /\ failed = None /\ failed' = None
      /\ 1 \in 0 .. Len(stack) /\ stack[1] \in Words /\ StackInv
      /\ StandsFor(stack[1], values[1])
  BY DEF try_character_primitive, IInv, StackInv
<1>2. FailedInv'
  BY <1>1 DEF FailedInv
<1>3. CASE op = "asCharacter"
  <2> DEFINE word == PRIM_AS_CHARACTER(stack[1])
             c == untag_smallint(stack[1])
  <2>1. /\ is_smallint_value(stack[1])
        /\ c \in 0 .. MaxCodePoint
        /\ stack' = <<word>> \o Rest(stack, 1)
        /\ values' = <<Char(values[1][2])>> \o Rest(values, 1)
    BY <1>3 DEF try_character_primitive
  <2>2. values[1][2] = c
    BY <1>1, <2>1, IntegerWord
  <2>3. values' = <<Char(c)>> \o Rest(values, 1)
    BY <2>1, <2>2, Zenon
  <2>4. word \in Words /\ is_character_value(word) /\ PRIM_CHAR_VALUE(word) = c
    BY <1>1, <2>1, AsCharacter
  <2>5. c \in Nat
    BY <2>1
  <2> HIDE DEF word, c
  <2>6. Char(c) \in Value
    BY <2>5 DEF Char, Value
  <2>7. StandsFor(word, Char(c))
    BY <2>4, Zenon DEF StandsFor
  <2>8. StackInv'
    BY <1>1, <2>1, <2>3, <2>4, <2>6, <2>7, ReplacingBoth
  <2> QED
    BY <1>2, <2>8 DEF IInv
<1>4. CASE op = "value"
  <2> DEFINE c == PRIM_CHAR_VALUE(stack[1])
  <2>1. /\ is_character_value(stack[1])
        /\ stack' = <<tag_smallint(c)>> \o Rest(stack, 1)
        /\ values' = <<Number(values[1][2])>> \o Rest(values, 1)
    BY <1>4 DEF try_character_primitive
  <2>2. values[1][2] = c
    BY <1>1, <2>1, IntegerWord
  <2>3. values' = <<Number(c)>> \o Rest(values, 1)
    BY <2>1, <2>2, Zenon
  <2>4. c \in SmallIntegers
    BY <1>1, <2>1, CharacterValue
  <2> HIDE DEF c
  <2>5. /\ tag_smallint(c) \in Words /\ Number(c) \in Value
        /\ StandsFor(tag_smallint(c), Number(c))
    BY <2>4, NumberStands
  <2>6. StackInv'
    BY <1>1, <2>1, <2>3, <2>5, ReplacingBoth
  <2> QED
    BY <1>2, <2>6 DEF IInv
<1> QED
  BY <1>3, <1>4

\* A literal pushed, and what a method body leaves for receiver and argument.
LEMMA PushPreserves ==
  ASSUME IInv, NEW n \in SmallIntegers, Push(n)
  PROVE  IInv'
<1>1. /\ tag_smallint(n) \in Words /\ Number(n) \in Value
      /\ StandsFor(tag_smallint(n), Number(n))
  BY NumberStands
<1>2. /\ stack \in Seq(Words) /\ values \in Seq(Value) /\ StackInv /\ 0 \in 0 .. Len(stack)
  BY DEF IInv, StackInv
<1>3. Rest(stack, 0) = stack /\ Rest(values, 0) = values
  BY <1>2, SubSeqFull DEF Rest
<1>4. /\ stack' = <<tag_smallint(n)>> \o Rest(stack, 0)
      /\ values' = <<Number(n)>> \o Rest(values, 0)
      /\ failed = None /\ failed' = None
  BY <1>3 DEF Push
<1>5. StackInv'
  BY <1>1, <1>2, <1>4, ReplacingBoth
<1> QED
  BY <1>4, <1>5 DEF IInv, FailedInv

\* The method a failed primitive falls back to answers a number in place of two words.
LEMMA MethodBodyPreserves ==
  ASSUME IInv, NEW n \in SmallIntegers, MethodBody(n)
  PROVE  IInv'
<1>1. /\ tag_smallint(n) \in Words /\ Number(n) \in Value
      /\ StandsFor(tag_smallint(n), Number(n))
  BY NumberStands
<1>2. StackInv /\ 2 \in 0 .. Len(stack)
  BY DEF IInv, StackInv, FailedInv, MethodBody
<1>3. /\ stack' = <<tag_smallint(n)>> \o Rest(stack, 2)
      /\ values' = <<Number(n)>> \o Rest(values, 2)
      /\ failed' = None
  BY DEF MethodBody
<1>4. StackInv'
  BY <1>1, <1>2, <1>3, ReplacingBoth
<1> QED
  BY <1>3, <1>4 DEF IInv, FailedInv

\* The invariant of the primitives, from the empty stack on.
THEOREM Invariant == Spec => []IInv
<1>1. Init => IInv
  BY DEF Init, IInv, StackInv, FailedInv
<1>2. IInv /\ [Next]_vars => IInv'
  <2> SUFFICES ASSUME IInv, [Next]_vars PROVE IInv'
    OBVIOUS
  <2>1. ASSUME NEW n \in SmallIntegers, Push(n) PROVE IInv'
    BY <2>1, PushPreserves
  <2>2. ASSUME NEW n \in SmallIntegers, MethodBody(n) PROVE IInv'
    BY <2>2, MethodBodyPreserves
  <2>3. ASSUME NEW op \in {"add", "sub", "mul"}, try_smallint_primitive(op) PROVE IInv'
    BY <2>3, ComputePreserves
  <2>4. ASSUME NEW op \in {"lt", "eq"}, PRIM_SMALLINT_COMPARE(op) PROVE IInv'
    BY <2>4, ComparePreserves
  <2>5. ASSUME NEW op \in {"asCharacter", "value"}, try_character_primitive(op) PROVE IInv'
    BY <2>5, CharacterPreserves
  <2>6. CASE UNCHANGED vars
    BY <2>6 DEF vars, IInv, StackInv, FailedInv, Receiver, Argument
  <2> QED
    BY <2>1, <2>2, <2>3, <2>4, <2>5, <2>6 DEF Next
<1> QED
  BY <1>1, <1>2, PTL DEF Spec

\* At every width of the machine word, and after any computation, the words on
\* the stack are those of exact arithmetic: no result of +, -, * or of a
\* character conversion wraps round, loses its sign or changes its tag
\* (try_smallint_primitive, try_character_primitive).
THEOREM ExactTheorem == Spec => []WordsAreExact
<1>1. IInv => WordsAreExact
  <2> SUFFICES ASSUME IInv PROVE WordsAreExact
    OBVIOUS
  <2>1. /\ stack \in Seq(Words) /\ Len(stack) = Len(values)
        /\ \A i \in 1 .. Len(stack) : StandsFor(stack[i], values[i])
    BY DEF IInv, StackInv
  <2>2. ASSUME NEW i \in DOMAIN stack
        PROVE  stack[i] \in Words /\ Denotes(stack[i]) = values[i]
    BY <2>1, Denoting
  <2> QED
    BY <2>1, <2>2 DEF WordsAreExact
<1> QED
  BY <1>1, Invariant, PTL

\* At every width, a primitive fails only where no SmallInteger is the answer,
\* and the method body then finds receiver and argument where they were (the
\* fall-through of a send whose primitive fails).
THEOREM FailuresTheorem == Spec => []FailuresAreReal
<1>1. IInv => FailuresAreReal
  <2> SUFFICES ASSUME IInv, failed # None PROVE FailuresAreReal
    BY DEF FailuresAreReal
  <2>1. /\ Len(stack) >= 2 /\ is_smallint_value(stack[2])
        /\ \/ ~is_smallint_value(stack[1])
           \/ /\ failed \in {"add", "sub", "mul"}
              /\ Exact(failed, Receiver, Argument) \notin SmallIntegers
    BY DEF IInv, FailedInv
  <2>2. /\ Len(values) >= 2
        /\ stack[1] \in Words /\ stack[2] \in Words
        /\ StandsFor(stack[1], values[1]) /\ StandsFor(stack[2], values[2])
    BY <2>1 DEF IInv, StackInv
  <2>3. values[2][1] = "int" /\ values[2][2] = Receiver
    BY <2>1, <2>2, IntegerWord DEF Receiver
  <2>4. CASE ~is_smallint_value(stack[1])
    <3>1. values[1][1] # "int"
      BY <2>2, <2>4, IntegerWord
    <3> QED
      BY <2>2, <2>3, <3>1 DEF FailuresAreReal
  <2>5. CASE is_smallint_value(stack[1])
    <3>1. values[1][2] = Argument
      BY <2>2, <2>5, IntegerWord DEF Argument
    <3>2. failed \in {"add", "sub", "mul"}
          /\ Exact(failed, values[2][2], values[1][2]) \notin SmallIntegers
      BY <2>1, <2>3, <2>5, <3>1, Zenon
    <3>3. ASSUME NEW word \in Words, is_smallint_value(word)
          PROVE  untag_smallint(word) # Exact(failed, values[2][2], values[1][2])
      BY <3>2, <3>3, Untagging, Zenon
    <3> QED
      BY <2>2, <2>3, <3>2, <3>3 DEF FailuresAreReal
  <2> QED
    BY <2>4, <2>5
<1> QED
  BY <1>1, Invariant, PTL

=============================================================================
