----------------------- MODULE ProtectedBlocksProofs -----------------------
(***************************************************************************)
(* Proofs about ProtectedBlocks, for every set of slots, values and        *)
(* exception classes, every log capacity and every nesting depth.          *)
(***************************************************************************)
EXTENDS ProtectedBlocks, SequenceTheorems, TLAPS

-----------------------------------------------------------------------------
(* Lemmas about the helpers. *)

\* The first n elements of a chain.
LEMMA PrefixFacts ==
  ASSUME NEW S, NEW q \in Seq(S), NEW n \in 0..Len(q)
  PROVE  /\ Prefix(q, n) \in Seq(S)
         /\ Len(Prefix(q, n)) = n
         /\ DOMAIN Prefix(q, n) = 1..n
         /\ \A i \in 1..n : Prefix(q, n)[i] = q[i]
BY SubSeqProperties DEF Prefix

\* Depths below a depth.
LEMMA InitialSegment ==
  ASSUME NEW n \in Nat, NEW k \in 0..n PROVE \A d \in 1..k : d \in 1..n
OBVIOUS

\* What longjmp to the activation at depth d leaves on the stack.
LEMMA ResumeFacts ==
  ASSUME stack \in Seq(Activation), NEW d \in 1..Len(stack), NEW act \in Activation
  PROVE  /\ Resume(d, act) \in Seq(Activation)
         /\ Len(Resume(d, act)) = d
         /\ DOMAIN Resume(d, act) = 1..d
         /\ \A i \in 1..(d - 1) : Resume(d, act)[i] = stack[i]
         /\ Resume(d, act)[d] = act
<1> DEFINE q == SubSeq(stack, 1, d - 1)
<1>1. /\ q \in Seq(Activation) /\ Len(q) = d - 1
      /\ \A i \in 1..(d - 1) : q[i] = stack[i]
  BY SubSeqProperties
<1> HIDE DEF q
<1>2. /\ Append(q, act) \in Seq(Activation)
      /\ Len(Append(q, act)) = d
      /\ \A i \in 1..(d - 1) : Append(q, act)[i] = q[i]
      /\ Append(q, act)[d] = act
  BY <1>1, AppendProperties
<1>3. DOMAIN Append(q, act) = 1..d
  BY <1>2
<1> QED
  BY <1>1, <1>2, <1>3 DEF Resume, q

\* Abandoning frames keeps the length and the surviving pointers of a chain.
LEMMA AbandonFacts ==
  ASSUME NEW q \in Seq(Nat), NEW d \in Nat
  PROVE  /\ Abandon(q, d) \in Seq(Nat)
         /\ Len(Abandon(q, d)) = Len(q)
         /\ DOMAIN Abandon(q, d) = DOMAIN q
         /\ \A i \in DOMAIN q :
              Abandon(q, d)[i] = IF q[i] > d THEN 0 ELSE q[i]
<1>1. DOMAIN q = 1..Len(q) /\ \A i \in 1..Len(q) : q[i] \in Nat /\ Len(q) \in Nat
  OBVIOUS
<1>2. Abandon(q, d) \in [1..Len(q) -> Nat]
  BY <1>1 DEF Abandon
<1> QED
  BY <1>1, <1>2, SeqDef DEF Abandon

\* An activation record has the fields it is built from.
LEMMA ActivateFacts ==
  ASSUME NEW k \in Kind, NEW c \in ExceptionClass \cup {NoClass},
         NEW l \in BOOLEAN, NEW p \in Nat
  PROVE  /\ Activate(k, c, l, p) \in Activation
         /\ Activate(k, c, l, p).kind = k
         /\ Activate(k, c, l, p).class = c
         /\ Activate(k, c, l, p).logged = l
         /\ Activate(k, c, l, p).previous = p
BY DEF Activate, Activation

\* The type of a store's result, and of one step of the install loop.
LEMMA StoredType ==
  ASSUME NEW s \in Slot, NEW v \in Oop
  PROVE  /\ s \in ByteSlot => Stored(s, v) \in Byte
         /\ s \in WordSlot => Stored(s, v) \in Oop
         /\ \A h \in Heap : [h EXCEPT ![s] = Stored(s, v)] \in Heap
<1>1. v \in Int
  BY OopAssumption
<1>2. untag_smallint(v) \in Int
  BY <1>1 DEF untag_smallint
<1>3. untag_smallint(v) % 256 \in Byte
  BY <1>2 DEF Byte
<1>4. (s \in ByteSlot => Stored(s, v) \in Byte) /\ (s \in WordSlot => Stored(s, v) \in Oop)
  BY <1>3, SlotAssumption DEF Stored
<1> QED
  BY <1>4 DEF Heap, Slot

\* What TypeOK says of the stack, the chains and the log, element by element.
StackShape ==
  /\ Len(stack) \in Nat /\ DOMAIN stack = 1..Len(stack)
  /\ \A d \in 1..Len(stack) :
       /\ stack[d] \in Activation
       /\ stack[d].kind \in Kind
       /\ stack[d].class \in ExceptionClass \cup {NoClass}
       /\ stack[d].logged \in BOOLEAN
       /\ stack[d].previous \in Nat

EnsuresShape ==
  /\ Len(ensures) \in Nat /\ DOMAIN ensures = 1..Len(ensures)
  /\ \A i \in 1..Len(ensures) : ensures[i] \in Nat

HandlersShape ==
  /\ Len(handlers) \in Nat /\ DOMAIN handlers = 1..Len(handlers)
  /\ \A i \in 1..Len(handlers) : handlers[i] \in Nat

LogShape ==
  /\ Len(log) \in Nat /\ DOMAIN log = 1..Len(log)
  /\ \A i \in 1..Len(log) : log[i].slot \in Slot /\ log[i].value \in Oop

\* The shapes follow from the types.
LEMMA Shapes ==
  ASSUME TypeOK PROVE StackShape /\ EnsuresShape /\ HandlersShape /\ LogShape
<1>1. /\ Len(stack) \in Nat /\ DOMAIN stack = 1..Len(stack)
      /\ \A d \in 1..Len(stack) : stack[d] \in Activation
  BY DEF TypeOK
<1>2. ASSUME NEW d \in 1..Len(stack)
      PROVE  /\ stack[d].kind \in Kind
             /\ stack[d].class \in ExceptionClass \cup {NoClass}
             /\ stack[d].logged \in BOOLEAN
             /\ stack[d].previous \in Nat
  BY <1>1 DEF Activation
<1>3. EnsuresShape /\ HandlersShape
  BY DEF TypeOK, EnsuresShape, HandlersShape
<1>4. /\ Len(log) \in Nat /\ DOMAIN log = 1..Len(log)
      /\ \A i \in 1..Len(log) : log[i] \in Entry
  BY DEF TypeOK
<1>5. \A i \in 1..Len(log) : log[i].slot \in Slot /\ log[i].value \in Oop
  BY <1>4 DEF Entry
<1> QED
  BY <1>1, <1>2, <1>3, <1>4, <1>5 DEF StackShape, LogShape

-----------------------------------------------------------------------------
(* The ensure chain. *)

\* The innermost frame of the chain, its link and what lies above it.
LEMMA Innermost ==
  ASSUME TypeOK, EnsureChainSound, ensures # <<>>
  PROVE  /\ InnermostEnsure \in 1..Len(stack)
         /\ InnermostEnsure \in Waiting
         /\ stack[InnermostEnsure].kind \in Catching
         /\ stack[InnermostEnsure].previous = Len(ensures) - 1
         /\ \A i \in 1..(Len(ensures) - 1) : ensures[i] \in 1..(InnermostEnsure - 1)
         /\ \A d \in Waiting : d <= InnermostEnsure
<1>0. StackShape /\ EnsuresShape
  BY Shapes
<1>1. Len(ensures) \in DOMAIN ensures /\ Len(ensures) >= 1
  BY DEF TypeOK
<1>2. /\ InnermostEnsure \in 1..Len(stack)
      /\ InnermostEnsure \in Waiting
      /\ stack[InnermostEnsure].kind \in Catching
      /\ stack[InnermostEnsure].previous = Len(ensures) - 1
  BY <1>0, <1>1 DEF EnsureChainSound, InnermostEnsure, Waiting, StackShape
<1>3. ASSUME NEW i \in 1..(Len(ensures) - 1)
      PROVE  ensures[i] \in 1..(InnermostEnsure - 1)
  <2>1. i \in DOMAIN ensures /\ i < Len(ensures)
    BY <1>0 DEF EnsuresShape
  <2>2. ensures[i] < ensures[Len(ensures)] /\ ensures[i] \in DOMAIN stack
    BY <1>1, <2>1 DEF EnsureChainSound, Waiting
  <2> QED
    BY <1>0, <1>2, <2>2 DEF InnermostEnsure, StackShape
<1>4. ASSUME NEW d \in Waiting PROVE d <= InnermostEnsure
  <2>1. PICK p \in 1..Len(ensures) : ensures[p] = d
    BY <1>0, <1>4 DEF EnsureChainSound, StackShape, EnsuresShape
  <2>2. d \in Nat
    BY <1>0 DEF Waiting, StackShape
  <2>3. CASE p = Len(ensures)
    BY <1>2, <2>1, <2>2, <2>3 DEF InnermostEnsure
  <2>4. CASE p \in 1..(Len(ensures) - 1)
    BY <1>2, <1>3, <2>1, <2>4
  <2> QED
    BY <1>1, <2>1, <2>3, <2>4
<1> QED
  BY <1>2, <1>3, <1>4

\* A frame on top of the stack that waits for its block is the innermost one.
LEMMA TopWaiting ==
  ASSUME TypeOK, EnsureChainSound, Len(stack) \in Waiting
  PROVE  ensures # <<>> /\ InnermostEnsure = Len(stack)
<1>0. StackShape /\ EnsuresShape
  BY Shapes
<1>2. ensures # <<>>
  <2>1. stack[Len(stack)].previous + 1 \in DOMAIN ensures
    BY DEF EnsureChainSound
  <2> QED
    BY <1>0, <2>1 DEF EnsuresShape
<1> QED
  BY <1>0, <1>2, Innermost DEF StackShape

\* Taking the innermost frame off the chain, whatever happens to the stack at
\* that depth and above it, as long as the frame no longer waits.
LEMMA EnsureChainTruncate ==
  ASSUME TypeOK, EnsureChainSound, ensures # <<>>,
         ensures' = Prefix(ensures, stack[InnermostEnsure].previous),
         Waiting' = Waiting \ {InnermostEnsure},
         \A d \in 1..(InnermostEnsure - 1) : stack'[d] = stack[d]
  PROVE  EnsureChainSound'
<1>0. StackShape /\ EnsuresShape
  BY Shapes
<1>1. PICK E \in 1..Len(stack) : E = InnermostEnsure
  BY Innermost
<1>2. Len(ensures) >= 1 /\ Len(ensures) \in Nat
  BY DEF TypeOK
<1>3. PICK n \in Nat : n = Len(ensures) - 1
  <2>1. Len(ensures) - 1 \in Nat
    BY <1>2
  <2> QED
    BY <2>1, Zenon
<1>4. /\ stack[E].previous = n
      /\ ensures[n + 1] = E
      /\ \A i \in 1..n : ensures[i] \in 1..(E - 1)
  <2>1. /\ stack[InnermostEnsure].previous = Len(ensures) - 1
        /\ \A i \in 1..(Len(ensures) - 1) : ensures[i] \in 1..(InnermostEnsure - 1)
    BY Innermost
  <2>2. n + 1 = Len(ensures)
    BY <1>2, <1>3
  <2> QED
    BY <1>1, <1>3, <2>1, <2>2 DEF InnermostEnsure
<1>5. DOMAIN ensures' = 1..n /\ \A i \in 1..n : ensures'[i] = ensures[i]
  <2>1. ensures \in Seq(Nat) /\ n \in 0..Len(ensures) /\ ensures' = Prefix(ensures, n)
    BY <1>1, <1>2, <1>3, <1>4 DEF TypeOK
  <2>2. /\ DOMAIN Prefix(ensures, n) = 1..n
        /\ \A i \in 1..n : Prefix(ensures, n)[i] = ensures[i]
    BY <2>1, PrefixFacts
  <2> QED
    BY <2>1, <2>2
<1>6. DOMAIN ensures = 1..(n + 1)
  BY <1>0, <1>2, <1>3 DEF EnsuresShape
<1>7. \A d \in Waiting : d \in 1..E
  <2>1. \A d \in Waiting : d <= E
    BY <1>1, Innermost
  <2> QED
    BY <1>0, <1>1, <2>1 DEF Waiting, StackShape
<1>8. ASSUME NEW i \in DOMAIN ensures'
      PROVE  ensures'[i] \in Waiting' /\ stack'[ensures'[i]].previous = i - 1
  <2>1. i \in 1..n /\ i \in DOMAIN ensures
    BY <1>5, <1>6, <1>8
  <2>2. PICK d \in 1..(E - 1) : d = ensures[i] /\ d = ensures'[i]
    BY <1>4, <1>5, <2>1
  <2>3. d \in Waiting /\ stack[d].previous = i - 1
    BY <2>1, <2>2 DEF EnsureChainSound
  <2>4. stack'[d] = stack[d] /\ d \in Waiting'
    BY <1>1, <2>2, <2>3
  <2> QED
    BY <2>2, <2>3, <2>4
<1>9. ASSUME NEW d \in Waiting'
      PROVE  /\ stack'[d].previous + 1 \in DOMAIN ensures'
             /\ ensures'[stack'[d].previous + 1] = d
  <2>1. d \in 1..(E - 1) /\ d \in Waiting
    BY <1>1, <1>7, <1>9
  <2>2. stack'[d] = stack[d]
    BY <1>1, <2>1
  <2>3. PICK p \in 1..(n + 1) : p = stack[d].previous + 1 /\ ensures[p] = d
    BY <1>6, <2>1 DEF EnsureChainSound
  <2>4. p \in 1..n
    BY <1>4, <2>1, <2>3
  <2> QED
    BY <1>5, <2>2, <2>3, <2>4
<1>10. ASSUME NEW i \in DOMAIN ensures', NEW j \in DOMAIN ensures', i < j
       PROVE  ensures'[i] < ensures'[j]
  <2>1. i \in DOMAIN ensures /\ j \in DOMAIN ensures
    BY <1>5, <1>6
  <2> QED
    BY <1>5, <1>10, <2>1 DEF EnsureChainSound
<1> QED
  BY <1>8, <1>9, <1>10 DEF EnsureChainSound

\* Popping frames that do not wait, or replacing one, leaves the chain alone.
LEMMA EnsureChainKeep ==
  ASSUME EnsureChainSound, UNCHANGED ensures, Waiting' = Waiting,
         \A d \in Waiting : stack'[d].previous = stack[d].previous
  PROVE  EnsureChainSound'
BY DEF EnsureChainSound

\* Pushing a frame that waits, linked to the chain it is pushed on.
LEMMA EnsureChainPush ==
  ASSUME TypeOK, EnsureChainSound,
         ensures' = Append(ensures, Len(stack) + 1),
         Waiting' = Waiting \cup {Len(stack) + 1},
         stack'[Len(stack) + 1].previous = Len(ensures),
         \A d \in 1..Len(stack) : stack'[d] = stack[d]
  PROVE  EnsureChainSound'
<1>0. StackShape /\ EnsuresShape
  BY Shapes
<1>1. PICK n \in Nat : n = Len(ensures) /\ DOMAIN ensures = 1..n
  BY <1>0 DEF EnsuresShape
<1>2. PICK t \in Nat : t = Len(stack)
  BY <1>0 DEF StackShape
<1>3. /\ DOMAIN ensures' = 1..(n + 1)
      /\ \A i \in 1..n : ensures'[i] = ensures[i]
      /\ ensures'[n + 1] = t + 1
  <2>1. ensures \in Seq(Nat) /\ t + 1 \in Nat /\ ensures' = Append(ensures, t + 1)
    BY <1>2 DEF TypeOK
  <2> QED
    BY <1>1, <2>1, AppendProperties
<1>4. \A d \in Waiting : d \in 1..t
  BY <1>0, <1>2 DEF Waiting, StackShape
<1>5. ASSUME NEW i \in DOMAIN ensures'
      PROVE  ensures'[i] \in Waiting' /\ stack'[ensures'[i]].previous = i - 1
  <2>1. CASE i = n + 1
    BY <1>1, <1>2, <1>3, <2>1
  <2>2. CASE i \in 1..n
    <3>1. PICK d \in 1..t : d = ensures[i] /\ d \in Waiting /\ stack[d].previous = i - 1
      BY <1>1, <1>4, <2>2 DEF EnsureChainSound
    <3> QED
      BY <1>2, <1>3, <2>2, <3>1
  <2> QED
    BY <1>3, <1>5, <2>1, <2>2
<1>6. ASSUME NEW d \in Waiting'
      PROVE  /\ stack'[d].previous + 1 \in DOMAIN ensures'
             /\ ensures'[stack'[d].previous + 1] = d
  <2>1. CASE d = t + 1
    BY <1>1, <1>2, <1>3, <2>1
  <2>2. CASE d \in Waiting
    <3>1. PICK p \in 1..n : p = stack[d].previous + 1 /\ ensures[p] = d
      BY <1>1, <2>2 DEF EnsureChainSound
    <3>2. stack'[d] = stack[d]
      BY <1>2, <1>4, <2>2
    <3> QED
      BY <1>3, <3>1, <3>2
  <2> QED
    BY <1>2, <1>6, <2>1, <2>2
<1>7. ASSUME NEW i \in DOMAIN ensures', NEW j \in DOMAIN ensures', i < j
      PROVE  ensures'[i] < ensures'[j]
  <2>1. CASE j \in 1..n
    BY <1>1, <1>3, <1>7, <2>1 DEF EnsureChainSound
  <2>2. CASE j = n + 1
    <3>1. i \in 1..n /\ ensures'[i] = ensures[i] /\ ensures[i] \in 1..t
      BY <1>1, <1>3, <1>4, <1>7, <2>2 DEF EnsureChainSound
    <3> QED
      BY <1>3, <2>2, <3>1
  <2> QED
    BY <1>3, <1>7, <2>1, <2>2
<1> QED
  BY <1>5, <1>6, <1>7 DEF EnsureChainSound

-----------------------------------------------------------------------------
(* The handler chain. *)

Guards == OnDos \cup HandlerBlocks

\* Frames of on:do: come and go with nothing else about them changing.
LEMMA HandlerChainKeep ==
  ASSUME HandlersLinked, UNCHANGED handlers,
         OnDos' = OnDos, HandlerBlocks' = HandlerBlocks,
         \A d \in Guards : stack'[d].previous = stack[d].previous
  PROVE  HandlersLinked'
BY DEF HandlersLinked, Guards

\* on:do: pushes its frame.
LEMMA HandlerChainPush ==
  ASSUME TypeOK, HandlersLinked,
         handlers' = Append(handlers, Len(stack) + 1),
         OnDos' = OnDos \cup {Len(stack) + 1},
         HandlerBlocks' = HandlerBlocks,
         stack'[Len(stack) + 1].previous = Len(handlers),
         \A d \in 1..Len(stack) : stack'[d] = stack[d]
  PROVE  HandlersLinked'
<1>0. StackShape /\ HandlersShape
  BY Shapes
<1>1. PICK n \in Nat : n = Len(handlers) /\ DOMAIN handlers = 1..n
  BY <1>0 DEF HandlersShape
<1>2. PICK t \in Nat : t = Len(stack)
  BY <1>0 DEF StackShape
<1>3. /\ DOMAIN handlers' = 1..(n + 1)
      /\ Len(handlers') = n + 1
      /\ \A i \in 1..n : handlers'[i] = handlers[i]
      /\ handlers'[n + 1] = t + 1
  <2>1. handlers \in Seq(Nat) /\ t + 1 \in Nat /\ handlers' = Append(handlers, t + 1)
    BY <1>2 DEF TypeOK
  <2> QED
    BY <1>1, <2>1, AppendProperties
<1>4. \A d \in Guards : /\ d \in 1..t
                        /\ stack'[d].previous = stack[d].previous
                        /\ stack[d].previous \in Nat
  BY <1>0, <1>2 DEF Guards, OnDos, HandlerBlocks, StackShape
<1>5. \A d \in OnDos : stack[d].previous < n
  BY <1>1, <1>4 DEF HandlersLinked, Guards
<1>6. \A d \in HandlerBlocks : stack[d].previous <= n
  BY <1>1 DEF HandlersLinked
<1>7. ASSUME NEW i \in DOMAIN handlers', handlers'[i] # 0
      PROVE  handlers'[i] \in OnDos' /\ stack'[handlers'[i]].previous = i - 1
  <2>1. CASE i = n + 1
    BY <1>1, <1>2, <1>3, <2>1
  <2>2. CASE i \in 1..n
    BY <1>1, <1>3, <1>4, <1>7, <2>2 DEF HandlersLinked, Guards
  <2> QED
    BY <1>3, <2>1, <2>2
<1>8. ASSUME NEW d \in OnDos'
      PROVE  /\ stack'[d].previous + 1 \in DOMAIN handlers'
             /\ handlers'[stack'[d].previous + 1] = d
  <2>1. CASE d = t + 1
    BY <1>1, <1>2, <1>3, <2>1
  <2>2. CASE d \in OnDos
    <3>1. PICK p \in 1..n : p = stack[d].previous + 1 /\ handlers[p] = d
      BY <1>1, <2>2 DEF HandlersLinked
    <3> QED
      BY <1>3, <1>4, <2>2, <3>1 DEF Guards
  <2> QED
    BY <1>2, <2>1, <2>2
<1>9. \A d \in HandlerBlocks' : stack'[d].previous <= Len(handlers')
  BY <1>3, <1>4, <1>6 DEF Guards
<1>10. ASSUME NEW e \in Guards'
       PROVE /\ \A d \in OnDos' : d < e => stack'[d].previous < stack'[e].previous
             /\ \A d \in HandlerBlocks' : d < e => stack'[d].previous <= stack'[e].previous
  <2>1. CASE e = t + 1
    <3>1. stack'[e].previous = n
      BY <1>1, <1>2, <2>1
    <3>2. \A d \in OnDos' : d < e => d \in OnDos
      BY <1>2, <2>1
    <3> QED
      BY <1>4, <1>5, <1>6, <3>1, <3>2 DEF Guards
  <2>2. CASE e \in Guards
    BY <1>2, <1>4, <2>2 DEF HandlersLinked, Guards
  <2> QED
    BY <1>2, <2>1, <2>2 DEF Guards
<1> QED
  BY <1>7, <1>8, <1>9, <1>10 DEF HandlersLinked, Guards

\* The frame of the guard at depth g is popped, together with what was pushed
\* after it: its on:do: is over, or its handler block starts in its place.
LEMMA HandlerChainPop ==
  ASSUME TypeOK, HandlersLinked, NEW g \in Guards,
         handlers' = Prefix(handlers, stack[g].previous),
         OnDos' = {d \in OnDos : d < g},
         \/ HandlerBlocks' = {d \in HandlerBlocks : d < g}
         \/ /\ HandlerBlocks' = {d \in HandlerBlocks : d < g} \cup {g}
            /\ stack'[g].previous = stack[g].previous,
         \A d \in 1..(g - 1) : stack'[d] = stack[d]
  PROVE  HandlersLinked'
<1>0. StackShape /\ HandlersShape
  BY Shapes
<1>1. \A d \in Guards : d \in 1..Len(stack) /\ stack[d].previous \in Nat
  BY <1>0 DEF Guards, OnDos, HandlerBlocks, StackShape
<1>2. PICK n \in Nat : n = stack[g].previous /\ n <= Len(handlers)
  BY <1>0, <1>1 DEF HandlersLinked, Guards, HandlersShape
<1>3. /\ DOMAIN handlers' = 1..n
      /\ Len(handlers') = n
      /\ \A i \in 1..n : handlers'[i] = handlers[i] /\ i \in DOMAIN handlers
  <2>1. handlers \in Seq(Nat) /\ n \in 0..Len(handlers) /\ handlers' = Prefix(handlers, n)
    BY <1>0, <1>2 DEF TypeOK, HandlersShape
  <2>2. DOMAIN handlers = 1..Len(handlers)
    BY <1>0 DEF HandlersShape
  <2>3. /\ DOMAIN Prefix(handlers, n) = 1..n
        /\ Len(Prefix(handlers, n)) = n
        /\ \A i \in 1..n : Prefix(handlers, n)[i] = handlers[i]
    BY <2>1, PrefixFacts
  <2>4. \A i \in 1..n : i \in DOMAIN handlers
    BY <2>1, <2>2
  <2> QED
    BY <2>1, <2>3, <2>4
<1>4. \A d \in Guards : d < g => stack'[d].previous = stack[d].previous
  BY <1>1
<1>5. \A d \in OnDos : d < g => stack[d].previous < n
  BY <1>2 DEF HandlersLinked, Guards
<1>6. \A d \in HandlerBlocks : d < g => stack[d].previous <= n
  BY <1>2 DEF HandlersLinked, Guards
<1>7. ASSUME NEW i \in DOMAIN handlers', handlers'[i] # 0
      PROVE  handlers'[i] \in OnDos' /\ stack'[handlers'[i]].previous = i - 1
  <2>1. PICK d \in OnDos : d = handlers'[i] /\ stack[d].previous = i - 1
    BY <1>3, <1>7 DEF HandlersLinked
  <2>2. stack[d].previous < n /\ d \in Guards
    BY <1>3, <1>7, <2>1 DEF Guards
  <2>3. CASE d > g
    BY <1>1, <1>2, <2>2, <2>3 DEF HandlersLinked, Guards
  <2>4. CASE d = g
    BY <1>2, <2>2, <2>4
  <2>5. CASE d < g
    BY <1>4, <2>1, <2>2, <2>5
  <2> QED
    BY <1>1, <2>2, <2>3, <2>4, <2>5
<1>8. ASSUME NEW d \in OnDos'
      PROVE  /\ stack'[d].previous + 1 \in DOMAIN handlers'
             /\ handlers'[stack'[d].previous + 1] = d
  <2>1. d \in OnDos /\ d < g /\ d \in Guards
    BY <1>8 DEF Guards
  <2>2. handlers[stack[d].previous + 1] = d
    BY <2>1 DEF HandlersLinked
  <2>3. stack[d].previous + 1 \in 1..n
    <3>1. stack[d].previous \in Nat /\ stack[d].previous < n
      BY <1>1, <1>5, <2>1
    <3> QED
      BY <3>1
  <2> QED
    BY <1>3, <1>4, <2>1, <2>2, <2>3
<1>9. \A d \in HandlerBlocks' : stack'[d].previous <= Len(handlers')
  BY <1>2, <1>3, <1>4, <1>6 DEF Guards
<1>10. \A d \in OnDos' : d \in OnDos /\ d < g /\ stack'[d].previous = stack[d].previous
  BY <1>4 DEF Guards
<1>11. ASSUME NEW e \in Guards'
       PROVE /\ \A d \in OnDos' : d < e => stack'[d].previous < stack'[e].previous
             /\ \A d \in HandlerBlocks' : d < e => stack'[d].previous <= stack'[e].previous
  <2>1. CASE e = g /\ stack'[g].previous = stack[g].previous
    <3>1. \A d \in HandlerBlocks' : d < e =>
             d \in HandlerBlocks /\ stack'[d].previous = stack[d].previous
      BY <1>1, <1>4, <2>1 DEF Guards
    <3> QED
      BY <1>2, <1>5, <1>6, <1>10, <2>1, <3>1
  <2>2. CASE e \in Guards /\ e < g
    <3>1. \A d \in HandlerBlocks' : d < e =>
             d \in HandlerBlocks /\ stack'[d].previous = stack[d].previous
      BY <1>1, <1>4, <2>2 DEF Guards
    <3> QED
      BY <1>4, <1>10, <2>2, <3>1 DEF HandlersLinked, Guards
  <2> QED
    BY <2>1, <2>2 DEF Guards
<1> QED
  BY <1>7, <1>8, <1>9, <1>11 DEF HandlersLinked, Guards

\* longjmp past handler frames: those at depth c and above are gone and the
\* pointers to them dangle.
LEMMA HandlerChainAbandon ==
  ASSUME TypeOK, HandlersLinked, NEW c \in Nat,
         handlers' = Abandon(handlers, c),
         c \notin OnDos,
         OnDos' = {d \in OnDos : d < c},
         HandlerBlocks' = {d \in HandlerBlocks : d < c},
         \A d \in 1..(c - 1) : stack'[d] = stack[d]
  PROVE  HandlersLinked'
<1>0. StackShape /\ HandlersShape
  BY Shapes
<1>1. \A d \in Guards : d \in 1..Len(stack) /\ stack[d].previous \in Nat
  BY <1>0 DEF Guards, OnDos, HandlerBlocks, StackShape
<1>2. /\ DOMAIN handlers' = DOMAIN handlers
      /\ Len(handlers') = Len(handlers)
      /\ \A i \in DOMAIN handlers :
           handlers'[i] = IF handlers[i] > c THEN 0 ELSE handlers[i]
  BY AbandonFacts DEF TypeOK
<1>3. \A d \in Guards : d < c => stack'[d].previous = stack[d].previous
  BY <1>1
<1>4. ASSUME NEW i \in DOMAIN handlers', handlers'[i] # 0
      PROVE  handlers'[i] \in OnDos' /\ stack'[handlers'[i]].previous = i - 1
  <2>1. i \in DOMAIN handlers /\ handlers[i] # 0 /\ handlers'[i] = handlers[i]
        /\ ~(handlers[i] > c)
    BY <1>2, <1>4
  <2>2. handlers[i] \in OnDos /\ stack[handlers[i]].previous = i - 1
    BY <2>1 DEF HandlersLinked
  <2>3. handlers[i] \in Guards /\ handlers[i] < c
    BY <1>1, <2>1, <2>2 DEF Guards
  <2> QED
    BY <1>3, <2>1, <2>2, <2>3
<1>5. ASSUME NEW d \in OnDos'
      PROVE  /\ stack'[d].previous + 1 \in DOMAIN handlers'
             /\ handlers'[stack'[d].previous + 1] = d
  <2>1. d \in OnDos /\ d < c /\ d \in Guards
    BY <1>5 DEF Guards
  <2>2. stack[d].previous + 1 \in DOMAIN handlers /\ handlers[stack[d].previous + 1] = d
    BY <2>1 DEF HandlersLinked
  <2> QED
    BY <1>1, <1>2, <1>3, <2>1, <2>2
<1>6. \A d \in HandlerBlocks' : stack'[d].previous <= Len(handlers')
  BY <1>2, <1>3 DEF Guards, HandlersLinked
<1>7. \A d \in Guards' : d \in Guards /\ stack'[d].previous = stack[d].previous
  BY <1>3 DEF Guards
<1>8. \A e \in Guards' :
        /\ \A d \in OnDos' : d < e => stack'[d].previous < stack'[e].previous
        /\ \A d \in HandlerBlocks' : d < e => stack'[d].previous <= stack'[e].previous
  BY <1>7 DEF Guards, HandlersLinked
<1> QED
  BY <1>4, <1>5, <1>6, <1>8 DEF HandlersLinked, Guards

-----------------------------------------------------------------------------
(* What a change of the stack does to the sets of activations. *)

Catchers == {d \in DOMAIN stack : stack[d].kind \in Catching}

\* Every catching activation waits, except the one that is committing.
LEMMA WaitingCatchers ==
  ASSUME status # "committing" PROVE Waiting = Catchers
BY DEF Waiting, Catchers

\* The activations above the first k are popped.
LEMMA StackCut ==
  ASSUME TypeOK, NEW k \in 0..Len(stack), stack' = Prefix(stack, k)
  PROVE  /\ stack' \in Seq(Activation)
         /\ Len(stack') = k
         /\ DOMAIN stack' = 1..k
         /\ \A d \in 1..k : stack'[d] = stack[d]
         /\ OnDos' = {d \in OnDos : d < k + 1}
         /\ HandlerBlocks' = {d \in HandlerBlocks : d < k + 1}
         /\ Catchers' = {d \in Catchers : d < k + 1}
<1>0. StackShape
  BY Shapes
<1>1. /\ stack' \in Seq(Activation)
      /\ Len(stack') = k
      /\ DOMAIN stack' = 1..k
      /\ \A d \in 1..k : stack'[d] = stack[d]
  BY PrefixFacts DEF TypeOK
<1>2. \A d : d \in 1..k <=> d \in DOMAIN stack /\ d < k + 1
  BY <1>0 DEF StackShape
<1>3. OnDos' = {d \in OnDos : d < k + 1}
  BY <1>1, <1>2 DEF OnDos
<1>4. HandlerBlocks' = {d \in HandlerBlocks : d < k + 1}
  BY <1>1, <1>2 DEF HandlerBlocks
<1>5. Catchers' = {d \in Catchers : d < k + 1}
  BY <1>1, <1>2 DEF Catchers
<1> QED
  BY <1>1, <1>3, <1>4, <1>5

\* The activations above the first k are replaced by one, act.
LEMMA StackGraft ==
  ASSUME TypeOK, NEW k \in 0..Len(stack), NEW act \in Activation,
         stack' = Append(Prefix(stack, k), act)
  PROVE  /\ stack' \in Seq(Activation)
         /\ Len(stack') = k + 1
         /\ DOMAIN stack' = 1..(k + 1)
         /\ \A d \in 1..k : stack'[d] = stack[d]
         /\ stack'[k + 1] = act
         /\ OnDos' = {d \in OnDos : d < k + 1}
                       \cup (IF act.kind = "onDo" THEN {k + 1} ELSE {})
         /\ HandlerBlocks' = {d \in HandlerBlocks : d < k + 1}
                       \cup (IF act.kind = "handler" THEN {k + 1} ELSE {})
         /\ Catchers' = {d \in Catchers : d < k + 1}
                       \cup (IF act.kind \in Catching THEN {k + 1} ELSE {})
<1>0. StackShape
  BY Shapes
<1>1. PICK q \in Seq(Activation) : /\ q = Prefix(stack, k) /\ Len(q) = k
                                   /\ \A d \in 1..k : q[d] = stack[d]
  BY PrefixFacts DEF TypeOK
<1>2. /\ Append(q, act) \in Seq(Activation)
      /\ Len(Append(q, act)) = k + 1
      /\ \A d \in 1..k : Append(q, act)[d] = q[d]
      /\ Append(q, act)[k + 1] = act
  BY <1>1, AppendProperties
<1>3. DOMAIN Append(q, act) = 1..(k + 1)
  <2>1. PICK r \in Seq(Activation) : r = Append(q, act)
    BY <1>2
  <2>2. DOMAIN r = 1..Len(r)
    OBVIOUS
  <2> QED BY <1>2, <2>1, <2>2
<1>4. /\ stack' \in Seq(Activation)
      /\ Len(stack') = k + 1
      /\ DOMAIN stack' = 1..(k + 1)
      /\ \A d \in 1..k : stack'[d] = stack[d]
      /\ stack'[k + 1] = act
  BY <1>1, <1>2, <1>3
<1>5. /\ \A d : d \in 1..k <=> d \in DOMAIN stack /\ d < k + 1
      /\ \A d : d \in 1..(k + 1) <=> d \in 1..k \/ d = k + 1
  <2>1. DOMAIN stack = 1..Len(stack) /\ Len(stack) \in Nat /\ k \in Nat /\ k <= Len(stack)
    BY <1>0 DEF StackShape
  <2>2. ASSUME NEW d PROVE d \in 1..k <=> d \in DOMAIN stack /\ d < k + 1
    BY <2>1
  <2>3. ASSUME NEW d PROVE d \in 1..(k + 1) <=> d \in 1..k \/ d = k + 1
    BY <2>1
  <2> QED BY <2>2, <2>3
<1>6. OnDos' = {d \in OnDos : d < k + 1}
                 \cup (IF act.kind = "onDo" THEN {k + 1} ELSE {})
  BY <1>4, <1>5 DEF OnDos
<1>7. HandlerBlocks' = {d \in HandlerBlocks : d < k + 1}
                 \cup (IF act.kind = "handler" THEN {k + 1} ELSE {})
  BY <1>4, <1>5 DEF HandlerBlocks
<1>8. Catchers' = {d \in Catchers : d < k + 1}
                 \cup (IF act.kind \in Catching THEN {k + 1} ELSE {})
  BY <1>4, <1>5 DEF Catchers
<1> QED
  BY <1>4, <1>6, <1>7, <1>8

\* Pushing an activation on the whole stack.
LEMMA StackPush ==
  ASSUME TypeOK, NEW act \in Activation, stack' = Append(stack, act)
  PROVE  /\ stack' \in Seq(Activation)
         /\ Len(stack') = Len(stack) + 1
         /\ DOMAIN stack' = 1..(Len(stack) + 1)
         /\ \A d \in 1..Len(stack) : stack'[d] = stack[d]
         /\ stack'[Len(stack) + 1] = act
         /\ OnDos' = OnDos \cup (IF act.kind = "onDo" THEN {Len(stack) + 1} ELSE {})
         /\ HandlerBlocks' = HandlerBlocks
                       \cup (IF act.kind = "handler" THEN {Len(stack) + 1} ELSE {})
         /\ Catchers' = Catchers
                       \cup (IF act.kind \in Catching THEN {Len(stack) + 1} ELSE {})
<1>0. StackShape
  BY Shapes
<1>1. PICK k \in 0..Len(stack) : k = Len(stack)
  <2>1. Len(stack) \in 0..Len(stack)
    BY <1>0 DEF StackShape
  <2> QED
    BY <2>1, Zenon
<1>2. Prefix(stack, k) = stack
  BY <1>1, SubSeqFull DEF Prefix, TypeOK
<1>3. \A d \in DOMAIN stack : d < k + 1
  BY <1>0, <1>1 DEF StackShape
<1>4. /\ OnDos = {d \in OnDos : d < k + 1}
      /\ HandlerBlocks = {d \in HandlerBlocks : d < k + 1}
      /\ Catchers = {d \in Catchers : d < k + 1}
  BY <1>3 DEF OnDos, HandlerBlocks, Catchers
<1>5. stack' = Append(Prefix(stack, k), act)
  BY <1>2
<1> QED
  BY <1>1, <1>4, <1>5, StackGraft

-----------------------------------------------------------------------------
(* The scope of the log. *)

\* The transaction is as it was and the stack keeps its activation.
LEMMA LogScopeKeep ==
  ASSUME LogInScope, NEW k \in Nat,
         DOMAIN stack' = 1..k \/
           /\ DOMAIN stack' = 1..(k + 1)
           /\ stack'[k + 1].kind \notin TransactionMode
           /\ stack'[k + 1].logged <=> txnFrame # 0,
         \A d \in 1..k : d \in DOMAIN stack /\ stack'[d] = stack[d],
         txnFrame = 0 \/ txnFrame \in 1..k,
         UNCHANGED <<log, txnFrame>>, status' # "committing"
  PROVE  LogInScope'
<1>1. \A d \in 1..k : /\ stack'[d].logged <=> (txnFrame # 0 /\ d >= txnFrame)
                      /\ stack'[d].kind \in TransactionMode <=> d = txnFrame
  BY DEF LogInScope
<1>2. \A d \in DOMAIN stack' : d \in 1..k \/ d = k + 1
  OBVIOUS
<1>3. txnFrame' # 0 => txnFrame' \in DOMAIN stack'
  OBVIOUS
<1>4. ASSUME NEW d \in DOMAIN stack'
      PROVE  /\ stack'[d].logged <=> (txnFrame # 0 /\ d >= txnFrame)
             /\ stack'[d].kind \in TransactionMode <=> d = txnFrame
  <2>1. CASE d \in 1..k
    BY <1>1, <2>1
  <2>2. CASE d = k + 1 /\ d \notin 1..k
    BY <1>4, <2>2
  <2> QED
    BY <1>2, <2>1, <2>2
<1>5. txnFrame' = 0 => log' = <<>>
  BY DEF LogInScope
<1> QED
  BY <1>3, <1>4, <1>5 DEF LogInScope

\* The transaction is closed and everything from its activation up is popped.
LEMMA LogScopeClose ==
  ASSUME LogInScope, NEW k \in Nat, DOMAIN stack' = 1..k,
         \A d \in 1..k : d \in DOMAIN stack /\ stack'[d] = stack[d],
         txnFrame = k + 1, txnFrame' = 0, log' = <<>>, status' # "committing"
  PROVE  LogInScope'
<1>1. \A d \in 1..k : ~stack'[d].logged /\ stack'[d].kind \notin TransactionMode
  BY DEF LogInScope
<1> QED
  BY <1>1 DEF LogInScope

-----------------------------------------------------------------------------
(* The heap and the log. *)

\* Outside a commit the heap is the committed heap, and the invariant says no
\* more of it.
LEMMA HeapCommitted ==
  ASSUME TypeOK, InstalledPrefix, status # "committing"
  PROVE  heap = committed /\ installed = 0
<1>1. installed = 0
  BY DEF InstalledPrefix
<1>2. \A s \in Slot : heap[s] = committed[s]
  BY <1>1 DEF InstalledPrefix
<1>3. heap \in [Slot -> Oop \cup Byte] /\ committed \in [Slot -> Oop \cup Byte]
  BY DEF TypeOK, Heap
<1> QED
  BY <1>1, <1>2, <1>3

\* Whatever the log holds, nothing of it is installed.
LEMMA NothingInstalled ==
  ASSUME installed' = 0, heap' = committed', Len(log') \in Nat
  PROVE  InstalledPrefix'
BY DEF InstalledPrefix

\* An empty log.
LEMMA EmptyLog ==
  ASSUME log' = <<>> PROVE Len(log') = 0 /\ log' \in Seq(Entry) /\ YoungestExists'
BY DEF YoungestExists, txn_log_found

\* The youngest triple of a slot is the one the backward scan answers.
LEMMA ReadYoungest ==
  ASSUME TypeOK, YoungestExists, NEW s \in Slot, txn_log_found(log, s)
  PROVE  \E i \in DOMAIN log :
            /\ log[i].slot = s
            /\ \A j \in DOMAIN log : j > i => log[j].slot # s
            /\ txn_log_read(log, s) = log[i].value
<1> DEFINE P(i) == log[i].slot = s /\ \A j \in DOMAIN log : j > i => log[j].slot # s
<1>1. \E i \in DOMAIN log : P(i)
  BY DEF YoungestExists
<1>2. PICK c : c = (CHOOSE i \in DOMAIN log : P(i))
  OBVIOUS
<1>3. c \in DOMAIN log /\ P(c)
  BY <1>1, <1>2
<1>4. txn_log_read(log, s) = log[c].value
  BY <1>2 DEF txn_log_read
<1> QED
  BY <1>3, <1>4

\* A logged store.
LEMMA YoungestAppend ==
  ASSUME TypeOK, YoungestExists, NEW s \in Slot, NEW v \in Oop,
         log' = txn_log_write(log, s, v)
  PROVE  log' \in Seq(Entry) /\ YoungestExists'
<1>0. LogShape
  BY Shapes
<1>1. PICK e \in Entry : e = [slot |-> s, value |-> v] /\ e.slot = s
  <2>1. [slot |-> s, value |-> v] \in Entry /\ [slot |-> s, value |-> v].slot = s
    BY DEF Entry
  <2> QED
    BY <2>1, Zenon
<1>2. PICK n \in Nat : n = Len(log) /\ DOMAIN log = 1..n
  BY <1>0 DEF LogShape
<1>3. /\ log' \in Seq(Entry)
      /\ DOMAIN log' = 1..(n + 1)
      /\ \A i \in 1..n : log'[i] = log[i]
      /\ log'[n + 1] = e
  <2>1. log \in Seq(Entry) /\ log' = Append(log, e)
    BY <1>1 DEF TypeOK, txn_log_write
  <2> QED
    BY <1>2, <2>1, AppendProperties
<1>4. ASSUME NEW u \in Slot, txn_log_found(log', u)
      PROVE  \E i \in DOMAIN log' : /\ log'[i].slot = u
                                    /\ \A j \in DOMAIN log' : j > i => log'[j].slot # u
  <2>1. CASE u = s
    <3>1. n + 1 \in DOMAIN log' /\ log'[n + 1].slot = u
      BY <1>1, <1>3, <2>1
    <3>2. \A j \in DOMAIN log' : ~(j > n + 1)
      BY <1>3
    <3> QED
      BY <3>1, <3>2
  <2>2. CASE u # s
    <3>1. txn_log_found(log, u)
      BY <1>1, <1>2, <1>3, <1>4, <2>2 DEF txn_log_found
    <3>2. PICK i \in 1..n : /\ log[i].slot = u
                            /\ \A j \in 1..n : j > i => log[j].slot # u
      BY <1>2, <3>1 DEF YoungestExists
    <3>3. i \in DOMAIN log' /\ log'[i].slot = u
      BY <1>3, <3>2
    <3>4. \A j \in DOMAIN log' : j \in 1..n \/ j = n + 1
      BY <1>3
    <3>5. \A j \in DOMAIN log' : j > i => log'[j].slot # u
      BY <1>1, <1>3, <2>2, <3>2, <3>4
    <3> QED
      BY <3>3, <3>5
  <2> QED
    BY <2>1, <2>2
<1> QED
  BY <1>3, <1>4 DEF YoungestExists

\* One iteration of the install loop.
LEMMA InstallStep ==
  ASSUME TypeOK, InstalledPrefix, status' = "committing", installed < Len(log),
         heap' = InstallEntry(heap, log[installed + 1]),
         installed' = installed + 1, UNCHANGED <<log, committed>>
  PROVE  heap' \in Heap /\ InstalledPrefix'
<1>0. LogShape
  BY Shapes
<1>1. PICK n \in Nat : n = installed /\ n + 1 \in DOMAIN log /\ n + 1 <= Len(log)
  <2>1. installed \in Nat /\ installed + 1 \in DOMAIN log /\ installed + 1 <= Len(log)
    BY <1>0 DEF TypeOK, LogShape
  <2> QED
    BY <2>1
<1>2. PICK u \in Slot, v \in Oop : u = log[n + 1].slot /\ v = log[n + 1].value
  BY <1>0, <1>1 DEF LogShape
<1>3. heap' = [heap EXCEPT ![u] = Stored(u, v)]
  BY <1>1, <1>2 DEF InstallEntry
<1>4. heap' \in Heap
  <2>1. heap \in Heap
    BY DEF TypeOK
  <2>2. \A h \in Heap : [h EXCEPT ![u] = Stored(u, v)] \in Heap
    BY StoredType
  <2> QED
    BY <1>3, <2>1, <2>2, Zenon
<1>5. heap \in [Slot -> Oop \cup Byte]
  BY DEF TypeOK, Heap
<1>6. installed' = n + 1 /\ \A j \in 1..(n + 1) : j \in 1..n \/ j = n + 1
  BY <1>1
<1>7. ASSUME NEW s \in Slot
      PROVE  \/ /\ \A i \in 1..(n + 1) : log[i].slot # s
                /\ heap'[s] = committed[s]
             \/ \E i \in 1..(n + 1) :
                  /\ log[i].slot = s
                  /\ \A j \in (i + 1)..(n + 1) : log[j].slot # s
                  /\ heap'[s] = Stored(s, log[i].value)
  <2>1. CASE s = u
    <3>1. n + 1 \in 1..(n + 1) /\ (n + 1 + 1)..(n + 1) = {}
      OBVIOUS
    <3>2. heap'[s] = Stored(s, log[n + 1].value)
      BY <1>2, <1>3, <1>5, <2>1
    <3> QED
      BY <1>2, <2>1, <3>1, <3>2
  <2>2. CASE s # u
    <3>1. heap'[s] = heap[s] /\ log[n + 1].slot # s
      BY <1>2, <1>3, <1>5, <2>2
    <3>2. CASE (\A i \in 1..n : log[i].slot # s) /\ heap[s] = committed[s]
      BY <1>6, <3>1, <3>2
    <3>3. CASE \E i \in 1..n : /\ log[i].slot = s
                               /\ \A j \in (i + 1)..n : log[j].slot # s
                               /\ heap[s] = Stored(s, log[i].value)
      <4>1. PICK i \in 1..n : /\ log[i].slot = s
                              /\ \A j \in (i + 1)..n : log[j].slot # s
                              /\ heap[s] = Stored(s, log[i].value)
        BY <3>3
      <4>2. i \in 1..(n + 1) /\ \A j \in (i + 1)..(n + 1) : j \in (i + 1)..n \/ j = n + 1
        OBVIOUS
      <4> QED
        BY <3>1, <4>1, <4>2
    <3> QED
      BY <1>1, <3>2, <3>3 DEF InstalledPrefix
  <2> QED
    BY <2>1, <2>2
<1> QED
  BY <1>1, <1>4, <1>6, <1>7 DEF InstalledPrefix

-----------------------------------------------------------------------------
(* The invariant holds initially and every action preserves it. *)

\* A block works on the log exactly when a transaction is open.
LEMMA LoggedFacts ==
  ASSUME TypeOK, LogInScope
  PROVE  Logged \in BOOLEAN /\ (Logged <=> txnFrame # 0)
<1>0. StackShape
  BY Shapes
<1>1. CASE stack = <<>>
  BY <1>1 DEF Logged, LogInScope
<1>2. CASE stack # <<>>
  <2>1. Len(stack) \in DOMAIN stack
    BY <1>2 DEF TypeOK
  <2>2. stack[Len(stack)].logged <=> (txnFrame # 0 /\ Len(stack) >= txnFrame)
    BY <2>1 DEF LogInScope
  <2>3. txnFrame # 0 => Len(stack) >= txnFrame
    BY <1>0 DEF LogInScope, StackShape
  <2> QED
    BY <1>2, <2>2, <2>3 DEF Logged, Top
<1> QED
  BY <1>1, <1>2

\* The machine starts with nothing open and nothing logged.
LEMMA InitIInv == ASSUME Init PROVE IInv
<1>1. TypeOK
  <2>1. heap \in Heap /\ committed \in Heap
    BY InitialHeapAssumption DEF Init
  <2>2. answer \in Oop \cup Answers
    BY DEF Init, Answers
  <2>3. /\ log \in Seq(Entry) /\ stack \in Seq(Activation)
        /\ handlers \in Seq(Nat) /\ ensures \in Seq(Nat)
    BY DEF Init
  <2>4. txnFrame \in Nat /\ installed \in Nat /\ status \in Status
        /\ signal \in ExceptionClass \cup {NoClass}
    BY DEF Init, Status
  <2> QED
    BY <2>1, <2>2, <2>3, <2>4 DEF TypeOK
<1>2. DOMAIN stack = {} /\ DOMAIN ensures = {} /\ DOMAIN handlers = {} /\ DOMAIN log = {}
  BY DEF Init
<1>3. EnsureChainSound /\ HandlersLinked
  BY <1>2 DEF EnsureChainSound, HandlersLinked, Waiting, OnDos, HandlerBlocks
<1>4. LogInScope
  BY <1>2 DEF LogInScope, Init
<1>5. InstalledPrefix
  BY DEF InstalledPrefix, Init
<1>6. YoungestExists
  BY <1>2 DEF YoungestExists, txn_log_found
<1> QED
  BY <1>1, <1>3, <1>4, <1>5, <1>6 DEF IInv

\* Steps that leave the stack and the chains alone.
LEMMA ControlKeep ==
  ASSUME IInv, UNCHANGED <<stack, chains>>,
         status # "committing", status' # "committing"
  PROVE  EnsureChainSound' /\ HandlersLinked'
BY DEF IInv, chains, EnsureChainSound, HandlersLinked, Waiting, OnDos,
       HandlerBlocks

\* A read changes only what was pushed on the operand stack.
LEMMA ReadIInv ==
  ASSUME IInv, NEW s \in Slot, Read(s) PROVE IInv'
<1>1. answer' \in Oop \cup Answers
  <2>1. CASE Logged /\ txn_log_found(log, s)
    <3>1. LogShape /\ TypeOK /\ YoungestExists
      BY Shapes DEF IInv
    <3>2. PICK i \in DOMAIN log : txn_log_read(log, s) = log[i].value
      BY <2>1, <3>1, ReadYoungest
    <3> QED
      BY <2>1, <3>1, <3>2 DEF Read, ValueRead, LogShape
  <2>2. CASE ~(Logged /\ txn_log_found(log, s))
    <3>1. answer' = Fetched(heap, s)
      BY <2>2 DEF Read, ValueRead
    <3>2. heap \in Heap
      BY DEF IInv, TypeOK
    <3>3. CASE s \in ByteSlot
      BY <3>1, <3>2, <3>3 DEF Fetched, Heap, Answers
    <3>4. CASE s \in WordSlot /\ s \notin ByteSlot
      BY <3>1, <3>2, <3>4 DEF Fetched, Heap
    <3> QED
      BY <3>3, <3>4 DEF Slot
  <2> QED
    BY <2>1, <2>2
<1>2. TypeOK'
  BY <1>1 DEF IInv, TypeOK, Read, chains
<1>3. EnsureChainSound' /\ HandlersLinked'
  BY ControlKeep DEF Read
<1>4. LogInScope' /\ InstalledPrefix' /\ YoungestExists'
  BY DEF IInv, LogInScope, InstalledPrefix, YoungestExists, Read, chains
<1> QED
  BY <1>2, <1>3, <1>4 DEF IInv

\* A store inside a transaction adds a triple, or overruns the log.
LEMMA LoggedStoreIInv ==
  ASSUME IInv, NEW s \in Slot, NEW v \in Oop, LoggedStore(s, v) PROVE IInv'
<1>0. /\ TypeOK /\ LogInScope /\ InstalledPrefix /\ YoungestExists
      /\ status = "running" /\ status' # "committing"
      /\ UNCHANGED <<heap, installed, answer, committed, stack, chains, signal>>
  BY DEF IInv, LoggedStore
<1>1. log' \in Seq(Entry) /\ YoungestExists' /\ (log' # log => txnFrame # 0)
  <2>1. CASE log' = txn_log_write(log, s, v)
    BY <1>0, <2>1, YoungestAppend, LoggedFacts DEF LoggedStore
  <2>2. CASE UNCHANGED log
    BY <1>0, <2>2 DEF TypeOK, YoungestExists
  <2> QED
    BY <2>1, <2>2 DEF LoggedStore
<1>2. TypeOK'
  BY <1>0, <1>1 DEF TypeOK, LoggedStore, chains, Status
<1>3. EnsureChainSound' /\ HandlersLinked'
  BY <1>0, ControlKeep
<1>4. LogInScope'
  BY <1>0, <1>1 DEF LogInScope, chains
<1>5. InstalledPrefix'
  BY <1>0, <1>1, HeapCommitted, NothingInstalled
<1> QED
  BY <1>1, <1>2, <1>3, <1>4, <1>5 DEF IInv

\* A store outside a transaction goes to the heap and to the committed heap.
LEMMA DirectStoreIInv ==
  ASSUME IInv, NEW s \in Slot, NEW v \in Oop, DirectStore(s, v) PROVE IInv'
<1>0. /\ TypeOK /\ LogInScope /\ InstalledPrefix /\ YoungestExists
      /\ status = "running"
      /\ heap' = [heap EXCEPT ![s] = Stored(s, v)] /\ committed' = heap'
      /\ UNCHANGED <<log, installed, answer, stack, chains, status, signal>>
  BY DEF IInv, DirectStore
<1>1. heap' \in Heap
  BY <1>0, StoredType DEF TypeOK
<1>2. TypeOK'
  BY <1>0, <1>1 DEF TypeOK, chains
<1>3. EnsureChainSound' /\ HandlersLinked'
  BY <1>0, ControlKeep
<1>4. LogInScope' /\ YoungestExists'
  BY <1>0 DEF LogInScope, YoungestExists, chains
<1>5. InstalledPrefix'
  <2>1. installed' = 0 /\ Len(log') \in Nat
    BY <1>0, HeapCommitted DEF TypeOK
  <2> QED
    BY <1>0, <2>1, NothingInstalled
<1> QED
  BY <1>2, <1>3, <1>4, <1>5 DEF IInv

\* Steps that touch neither the memory nor the stack: signals raised, and
\* signals that stop the process.
LEMMA StatusIInv ==
  ASSUME IInv, UNCHANGED <<memory, stack, chains>>, status # "committing",
         status' \in Status \ {"committing"},
         signal' \in ExceptionClass \cup {NoClass}
  PROVE  IInv'
<1>2. TypeOK'
  BY DEF IInv, TypeOK, chains, memory
<1>3. EnsureChainSound' /\ HandlersLinked'
  BY ControlKeep
<1>4. LogInScope' /\ InstalledPrefix' /\ YoungestExists'
  BY DEF IInv, LogInScope, InstalledPrefix, YoungestExists, memory, chains
<1> QED
  BY <1>2, <1>3, <1>4 DEF IInv

\* What leaving the memory alone, outside a commit, preserves.
LEMMA MemoryKeep ==
  ASSUME IInv, UNCHANGED memory, status # "committing", status' # "committing"
  PROVE  InstalledPrefix' /\ YoungestExists'
BY DEF IInv, InstalledPrefix, YoungestExists, memory

\* on:do: pushes its activation and its handler frame.
LEMMA OnDoIInv ==
  ASSUME IInv, NEW c \in ExceptionClass, OnDo(c) PROVE IInv'
<1>0. /\ TypeOK /\ EnsureChainSound /\ HandlersLinked /\ LogInScope
      /\ status = "running" /\ UNCHANGED <<status, signal, memory, ensures, txnFrame>>
      /\ handlers' = Append(handlers, Len(stack) + 1)
  BY DEF IInv, OnDo, Open
<1>1. StackShape /\ HandlersShape /\ Logged \in BOOLEAN /\ (Logged <=> txnFrame # 0)
  BY <1>0, Shapes, LoggedFacts
<1>2. PICK act \in Activation : /\ stack' = Append(stack, act) /\ act.kind = "onDo"
                                /\ act.logged = Logged /\ act.previous = Len(handlers)
  <2>1. "onDo" \in Kind /\ Len(handlers) \in Nat
    BY <1>1 DEF Kind, HandlersShape
  <2>2. PICK act \in Activation : /\ act = Activate("onDo", c, Logged, Len(handlers))
                                  /\ act.kind = "onDo"
                                  /\ act.logged = Logged /\ act.previous = Len(handlers)
    BY <1>1, <2>1, ActivateFacts
  <2> QED
    BY <2>2 DEF OnDo, Open
<1>3. /\ stack' \in Seq(Activation)
      /\ DOMAIN stack' = 1..(Len(stack) + 1)
      /\ \A d \in 1..Len(stack) : stack'[d] = stack[d]
      /\ stack'[Len(stack) + 1] = act
      /\ OnDos' = OnDos \cup {Len(stack) + 1}
      /\ HandlerBlocks' = HandlerBlocks
      /\ Catchers' = Catchers
  BY <1>0, <1>2, StackPush DEF Catching, TransactionMode
<1>4. TypeOK'
  <2>1. handlers' \in Seq(Nat)
    BY <1>0, <1>1 DEF TypeOK, StackShape
  <2> QED
    BY <1>0, <1>3, <2>1 DEF TypeOK, memory
<1>5. EnsureChainSound'
  <2>1. Waiting' = Waiting
    BY <1>0, <1>3, WaitingCatchers DEF Waiting, Catchers
  <2>2. \A d \in Waiting : stack'[d].previous = stack[d].previous
    BY <1>1, <1>3 DEF Waiting, StackShape
  <2> QED
    BY <1>0, <2>1, <2>2, EnsureChainKeep
<1>6. HandlersLinked'
  BY <1>0, <1>2, <1>3, HandlerChainPush
<1>7. LogInScope'
  <2>1. PICK k \in Nat : k = Len(stack) /\ DOMAIN stack = 1..k
    BY <1>1 DEF StackShape
  <2>2. txnFrame = 0 \/ txnFrame \in 1..k
    BY <1>0, <2>1 DEF LogInScope
  <2>3. stack'[k + 1].kind \notin TransactionMode /\ (stack'[k + 1].logged <=> txnFrame # 0)
    BY <1>1, <1>2, <1>3, <2>1 DEF TransactionMode
  <2> QED
    BY <1>0, <1>3, <2>1, <2>2, <2>3, LogScopeKeep DEF memory
<1>8. InstalledPrefix' /\ YoungestExists'
  BY <1>0, MemoryKeep
<1> QED
  BY <1>4, <1>5, <1>6, <1>7, <1>8 DEF IInv

\* ensure: pushes its activation and its ensure frame.
LEMMA EnsureIInv ==
  ASSUME IInv, Ensure PROVE IInv'
<1>0. /\ TypeOK /\ EnsureChainSound /\ HandlersLinked /\ LogInScope
      /\ status = "running" /\ UNCHANGED <<status, signal, memory, handlers, txnFrame>>
      /\ ensures' = Append(ensures, Len(stack) + 1)
  BY DEF IInv, Ensure, Open
<1>1. StackShape /\ EnsuresShape /\ Logged \in BOOLEAN /\ (Logged <=> txnFrame # 0)
  BY <1>0, Shapes, LoggedFacts
<1>2. PICK act \in Activation : /\ stack' = Append(stack, act) /\ act.kind = "ensure"
                                /\ act.logged = Logged /\ act.previous = Len(ensures)
  <2>1. "ensure" \in Kind /\ Len(ensures) \in Nat
    BY <1>1 DEF Kind, EnsuresShape
  <2>2. PICK act \in Activation : /\ act = Activate("ensure", NoClass, Logged, Len(ensures))
                                  /\ act.kind = "ensure"
                                  /\ act.logged = Logged /\ act.previous = Len(ensures)
    BY <1>1, <2>1, ActivateFacts
  <2> QED
    BY <2>2 DEF Ensure, Open
<1>3. /\ stack' \in Seq(Activation)
      /\ DOMAIN stack' = 1..(Len(stack) + 1)
      /\ \A d \in 1..Len(stack) : stack'[d] = stack[d]
      /\ stack'[Len(stack) + 1] = act
      /\ OnDos' = OnDos
      /\ HandlerBlocks' = HandlerBlocks
      /\ Catchers' = Catchers \cup {Len(stack) + 1}
  BY <1>0, <1>2, StackPush DEF Catching
<1>4. TypeOK'
  <2>1. ensures' \in Seq(Nat)
    BY <1>0, <1>1 DEF TypeOK, StackShape
  <2> QED
    BY <1>0, <1>3, <2>1 DEF TypeOK, memory
<1>5. EnsureChainSound'
  <2>1. Waiting' = Waiting \cup {Len(stack) + 1}
    BY <1>0, <1>3, WaitingCatchers DEF Waiting, Catchers
  <2> QED
    BY <1>0, <1>2, <1>3, <2>1, EnsureChainPush
<1>6. HandlersLinked'
  <2>1. \A d \in Guards : stack'[d].previous = stack[d].previous
    BY <1>1, <1>3 DEF Guards, OnDos, HandlerBlocks, StackShape
  <2> QED
    BY <1>0, <1>3, <2>1, HandlerChainKeep
<1>7. LogInScope'
  <2>1. PICK k \in Nat : k = Len(stack) /\ DOMAIN stack = 1..k
    BY <1>1 DEF StackShape
  <2>2. txnFrame = 0 \/ txnFrame \in 1..k
    BY <1>0, <2>1 DEF LogInScope
  <2>3. stack'[k + 1].kind \notin TransactionMode /\ (stack'[k + 1].logged <=> txnFrame # 0)
    BY <1>1, <1>2, <1>3, <2>1 DEF TransactionMode
  <2> QED
    BY <1>0, <1>3, <2>1, <2>2, <2>3, LogScopeKeep DEF memory
<1>8. InstalledPrefix' /\ YoungestExists'
  BY <1>0, MemoryKeep
<1> QED
  BY <1>4, <1>5, <1>6, <1>7, <1>8 DEF IInv

\* A transaction inside a transaction pushes an activation and no frame.
LEMMA JoinTransactionIInv ==
  ASSUME IInv, JoinTransaction PROVE IInv'
<1>0. /\ TypeOK /\ EnsureChainSound /\ HandlersLinked /\ LogInScope
      /\ status = "running" /\ UNCHANGED <<status, signal, memory, chains>>
      /\ txnFrame # 0
  BY DEF IInv, JoinTransaction, Open
<1>1. StackShape
  BY <1>0, Shapes
<1>2. PICK act \in Activation : /\ stack' = Append(stack, act) /\ act.kind = "joined"
                                /\ act.logged = TRUE
  <2>1. "joined" \in Kind
    BY DEF Kind
  <2>2. PICK act \in Activation : /\ act = Activate("joined", NoClass, TRUE, 0)
                                  /\ act.kind = "joined" /\ act.logged = TRUE
    BY <2>1, ActivateFacts
  <2> QED
    BY <2>2 DEF JoinTransaction, Open
<1>3. /\ stack' \in Seq(Activation)
      /\ DOMAIN stack' = 1..(Len(stack) + 1)
      /\ \A d \in 1..Len(stack) : stack'[d] = stack[d]
      /\ stack'[Len(stack) + 1] = act
      /\ OnDos' = OnDos
      /\ HandlerBlocks' = HandlerBlocks
      /\ Catchers' = Catchers
  BY <1>0, <1>2, StackPush DEF Catching, TransactionMode
<1>4. TypeOK'
  BY <1>0, <1>3 DEF TypeOK, memory, chains
<1>5. EnsureChainSound'
  <2>1. Waiting' = Waiting
    BY <1>0, <1>3, WaitingCatchers DEF Waiting, Catchers
  <2>2. \A d \in Waiting : stack'[d].previous = stack[d].previous
    BY <1>1, <1>3 DEF Waiting, StackShape
  <2> QED
    BY <1>0, <2>1, <2>2, EnsureChainKeep DEF chains
<1>6. HandlersLinked'
  <2>1. \A d \in Guards : stack'[d].previous = stack[d].previous
    BY <1>1, <1>3 DEF Guards, OnDos, HandlerBlocks, StackShape
  <2> QED
    BY <1>0, <1>3, <2>1, HandlerChainKeep DEF chains
<1>7. LogInScope'
  <2>1. PICK k \in Nat : k = Len(stack) /\ DOMAIN stack = 1..k
    BY <1>1 DEF StackShape
  <2>2. txnFrame = 0 \/ txnFrame \in 1..k
    BY <1>0, <2>1 DEF LogInScope
  <2>3. stack'[k + 1].kind \notin TransactionMode /\ (stack'[k + 1].logged <=> txnFrame # 0)
    BY <1>0, <1>2, <1>3, <2>1 DEF TransactionMode
  <2> QED
    BY <1>0, <1>3, <2>1, <2>2, <2>3, LogScopeKeep DEF memory, chains
<1>8. InstalledPrefix' /\ YoungestExists'
  BY <1>0, MemoryKeep
<1> QED
  BY <1>4, <1>5, <1>6, <1>7, <1>8 DEF IInv

\* An outermost transaction pushes an activation, an ensure frame and an empty log.
LEMMA BeginTransactionIInv ==
  ASSUME IInv, NEW m \in TransactionMode, BeginTransaction(m) PROVE IInv'
<1>0. /\ TypeOK /\ EnsureChainSound /\ HandlersLinked /\ LogInScope /\ InstalledPrefix
      /\ status = "running" /\ txnFrame = 0
      /\ UNCHANGED <<status, signal, heap, answer, committed, handlers>>
      /\ log' = <<>> /\ installed' = 0 /\ txnFrame' = Len(stack) + 1
      /\ ensures' = Append(ensures, Len(stack) + 1)
  BY DEF IInv, BeginTransaction, Open
<1>1. StackShape /\ EnsuresShape
  BY <1>0, Shapes
<1>2. PICK act \in Activation : /\ stack' = Append(stack, act) /\ act.kind = m
                                /\ act.logged = TRUE /\ act.previous = Len(ensures)
  <2>1. m \in Kind /\ Len(ensures) \in Nat
    BY <1>1 DEF Kind, EnsuresShape
  <2>2. PICK act \in Activation : /\ act = Activate(m, NoClass, TRUE, Len(ensures))
                                  /\ act.kind = m
                                  /\ act.logged = TRUE /\ act.previous = Len(ensures)
    <3>1. PICK n \in Nat : n = Len(ensures)
      BY <2>1
    <3>2. /\ Activate(m, NoClass, TRUE, n) \in Activation
          /\ Activate(m, NoClass, TRUE, n).kind = m
          /\ Activate(m, NoClass, TRUE, n).logged = TRUE
          /\ Activate(m, NoClass, TRUE, n).previous = n
      BY <2>1 DEF Activate, Activation
    <3> QED
      BY <3>1, <3>2, Zenon
  <2> QED
    BY <2>2 DEF BeginTransaction, Open
<1>3. /\ stack' \in Seq(Activation)
      /\ DOMAIN stack' = 1..(Len(stack) + 1)
      /\ \A d \in 1..Len(stack) : stack'[d] = stack[d]
      /\ stack'[Len(stack) + 1] = act
      /\ OnDos' = OnDos
      /\ HandlerBlocks' = HandlerBlocks
      /\ Catchers' = Catchers \cup {Len(stack) + 1}
  BY <1>0, <1>2, StackPush DEF Catching, TransactionMode
<1>4. TypeOK'
  <2>1. ensures' \in Seq(Nat)
    BY <1>0, <1>1 DEF TypeOK, StackShape
  <2>2. log' \in Seq(Entry) /\ txnFrame' \in Nat /\ installed' \in Nat
    BY <1>0, <1>1, EmptyLog DEF StackShape
  <2> QED
    BY <1>0, <1>3, <2>1, <2>2 DEF TypeOK
<1>5. EnsureChainSound'
  <2>1. Waiting' = Waiting \cup {Len(stack) + 1}
    BY <1>0, <1>3, WaitingCatchers DEF Waiting, Catchers
  <2> QED
    BY <1>0, <1>2, <1>3, <2>1, EnsureChainPush
<1>6. HandlersLinked'
  <2>1. \A d \in Guards : stack'[d].previous = stack[d].previous
    BY <1>1, <1>3 DEF Guards, OnDos, HandlerBlocks, StackShape
  <2> QED
    BY <1>0, <1>3, <2>1, HandlerChainKeep
<1>7. LogInScope'
  <2>1. PICK k \in Nat : k = Len(stack) /\ DOMAIN stack = 1..k
    BY <1>1 DEF StackShape
  <2>2. \A d \in 1..k : ~stack'[d].logged /\ stack'[d].kind \notin TransactionMode
    BY <1>0, <1>3, <2>1 DEF LogInScope
  <2>3. DOMAIN stack' = 1..(k + 1) /\ txnFrame' = k + 1 /\ stack'[k + 1].logged
        /\ stack'[k + 1].kind \in TransactionMode /\ status' # "committing"
    BY <1>0, <1>2, <1>3, <2>1
  <2>4. \A d \in 1..(k + 1) : d \in 1..k \/ d = k + 1
    OBVIOUS
  <2>5. ASSUME NEW d \in DOMAIN stack'
        PROVE  /\ stack'[d].logged <=> (txnFrame' # 0 /\ d >= txnFrame')
               /\ stack'[d].kind \in TransactionMode <=> d = txnFrame'
    BY <2>2, <2>3, <2>4
  <2> QED
    BY <2>3, <2>5 DEF LogInScope
<1>8. InstalledPrefix' /\ YoungestExists'
  <2>1. heap' = committed'
    BY <1>0, HeapCommitted
  <2> QED
    BY <1>0, <2>1, EmptyLog, NothingInstalled
<1> QED
  BY <1>4, <1>5, <1>6, <1>7, <1>8 DEF IInv

\* The activation on top of the stack.
LEMMA TopFacts ==
  ASSUME TypeOK, stack # <<>>
  PROVE  \E k \in Nat : /\ k = Len(stack) - 1 /\ k + 1 = Len(stack)
                        /\ k \in 0..Len(stack)
                        /\ DOMAIN stack = 1..(k + 1)
                        /\ Top = stack[k + 1]
<1>1. Len(stack) \in Nat /\ Len(stack) >= 1 /\ DOMAIN stack = 1..Len(stack)
  BY DEF TypeOK
<1>2. /\ Len(stack) - 1 \in Nat /\ Len(stack) - 1 + 1 = Len(stack)
      /\ Len(stack) - 1 \in 0..Len(stack)
  BY <1>1
<1> QED
  BY <1>1, <1>2, Zenon DEF Top

\* Popping a top activation that is neither an on:do: nor waits, or replacing
\* it by one of that sort: the chains stay.
LEMMA PlainTop ==
  ASSUME IInv, status # "committing", status' # "committing",
         NEW k \in Nat, k \in 0..Len(stack), DOMAIN stack = 1..(k + 1),
         stack[k + 1].kind \notin Catching \cup {"onDo", "handler"},
         stack' = Prefix(stack, k), UNCHANGED <<memory, chains>>,
         signal' \in ExceptionClass \cup {NoClass}, status' \in Status
  PROVE  IInv'
<1>0. TypeOK /\ EnsureChainSound /\ HandlersLinked /\ LogInScope
  BY DEF IInv
<1>1. /\ stack' \in Seq(Activation)
      /\ DOMAIN stack' = 1..k
      /\ \A d \in 1..k : stack'[d] = stack[d]
      /\ OnDos' = {d \in OnDos : d < k + 1}
      /\ HandlerBlocks' = {d \in HandlerBlocks : d < k + 1}
      /\ Catchers' = {d \in Catchers : d < k + 1}
  BY <1>0, StackCut
<1>2. \A d \in OnDos \cup HandlerBlocks \cup Catchers : d < k + 1 /\ d \in 1..k
  <2>1. \A d \in OnDos \cup HandlerBlocks \cup Catchers : d \in 1..(k + 1) /\ d # k + 1
    BY DEF OnDos, HandlerBlocks, Catchers
  <2> QED
    BY <2>1
<1>3. OnDos' = OnDos /\ HandlerBlocks' = HandlerBlocks /\ Catchers' = Catchers
  BY <1>1, <1>2
<1>4. TypeOK'
  BY <1>0, <1>1 DEF TypeOK, memory, chains
<1>5. EnsureChainSound'
  <2>1. Waiting' = Waiting /\ Waiting = Catchers
    BY <1>3 DEF Waiting, Catchers
  <2>2. \A d \in Waiting : stack'[d].previous = stack[d].previous
    BY <1>1, <1>2, <2>1
  <2> QED
    BY <1>0, <2>1, <2>2, EnsureChainKeep DEF chains
<1>6. HandlersLinked'
  <2>1. \A d \in Guards : stack'[d].previous = stack[d].previous
    BY <1>1, <1>2 DEF Guards
  <2> QED
    BY <1>0, <1>3, <2>1, HandlerChainKeep DEF chains
<1>7. LogInScope'
  <2>1. txnFrame = 0 \/ txnFrame \in 1..k
    <3>1. txnFrame # k + 1
      BY <1>0 DEF LogInScope, Catching
    <3> QED
      BY <1>0, <3>1 DEF LogInScope
  <2>2. \A d \in 1..k : d \in DOMAIN stack
    OBVIOUS
  <2> QED
    BY <1>0, <1>1, <2>1, <2>2, LogScopeKeep DEF memory, chains
<1>8. InstalledPrefix' /\ YoungestExists'
  BY MemoryKeep
<1> QED
  BY <1>4, <1>5, <1>6, <1>7, <1>8 DEF IInv

\* The end of an ensure block or of a joined transaction pops an activation no chain knows.
LEMMA EndPlainIInv == ASSUME IInv, EndPlain PROVE IInv'
<1>1. PICK k \in Nat : /\ k = Len(stack) - 1 /\ k \in 0..Len(stack)
                       /\ DOMAIN stack = 1..(k + 1) /\ Top = stack[k + 1]
  BY TopFacts DEF IInv, EndPlain, Ends
<1>2. /\ stack[k + 1].kind \notin Catching \cup {"onDo", "handler"}
      /\ status = "running" /\ stack' = Prefix(stack, k)
  BY <1>1 DEF EndPlain, Ends, Pop, Catching, TransactionMode
<1>3. UNCHANGED <<memory, chains, status, signal>>
  BY DEF EndPlain
<1>4. signal' \in ExceptionClass \cup {NoClass} /\ status' \in Status
  BY <1>3 DEF IInv, TypeOK
<1> QED
  BY <1>1, <1>2, <1>3, <1>4, PlainTop

\* The end of an ensure block that a signal started pops it and sends the signal on.
LEMMA EndUnwindIInv == ASSUME IInv, EndUnwind PROVE IInv'
<1>0. StackShape
  BY Shapes DEF IInv
<1>1. PICK k \in Nat : /\ k = Len(stack) - 1 /\ k \in 0..Len(stack)
                       /\ DOMAIN stack = 1..(k + 1) /\ Top = stack[k + 1]
  BY TopFacts DEF IInv, EndUnwind, Ends
<1>2. /\ stack[k + 1].kind \notin Catching \cup {"onDo", "handler"}
      /\ status = "running" /\ status' = "signaling" /\ stack' = Prefix(stack, k)
  BY <1>1 DEF EndUnwind, Ends, Pop, Catching, TransactionMode
<1>3. UNCHANGED <<memory, chains>>
  BY DEF EndUnwind
<1>4. signal' \in ExceptionClass \cup {NoClass} /\ status' \in Status
  BY <1>0, <1>1, <1>2 DEF EndUnwind, StackShape, Status
<1> QED
  BY <1>1, <1>2, <1>3, <1>4, PlainTop

\* The end of on:do: pops its activation and its handler frame.
LEMMA EndOnDoIInv == ASSUME IInv, EndOnDo PROVE IInv'
<1>0. /\ TypeOK /\ EnsureChainSound /\ HandlersLinked /\ LogInScope
      /\ status = "running" /\ UNCHANGED <<memory, ensures, txnFrame, status, signal>>
  BY DEF IInv, EndOnDo, Ends
<1>1. PICK k \in Nat : /\ k = Len(stack) - 1 /\ k \in 0..Len(stack)
                       /\ DOMAIN stack = 1..(k + 1) /\ Top = stack[k + 1]
  BY <1>0, TopFacts DEF EndOnDo, Ends
<1>2. /\ stack[k + 1].kind \in {"onDo", "handler"}
      /\ stack' = Prefix(stack, k)
      /\ handlers' = Prefix(handlers, stack[k + 1].previous)
  BY <1>1 DEF EndOnDo, Ends, Pop
<1>3. /\ stack' \in Seq(Activation)
      /\ DOMAIN stack' = 1..k
      /\ \A d \in 1..k : stack'[d] = stack[d]
      /\ OnDos' = {d \in OnDos : d < k + 1}
      /\ HandlerBlocks' = {d \in HandlerBlocks : d < k + 1}
      /\ Catchers' = {d \in Catchers : d < k + 1}
  BY <1>0, <1>1, <1>2, StackCut
<1>4. k + 1 \in Guards /\ k + 1 \in 1..(k + 1)
  BY <1>1, <1>2 DEF Guards, OnDos, HandlerBlocks
<1>5. TypeOK'
  <2>1. HandlersShape /\ StackShape
    BY <1>0, Shapes
  <2>2. stack[k + 1].previous \in 0..Len(handlers)
    BY <1>0, <1>1, <1>4, <2>1 DEF HandlersLinked, Guards, HandlersShape, StackShape
  <2>3. handlers' \in Seq(Nat)
    BY <1>0, <1>2, <2>2, PrefixFacts DEF TypeOK
  <2> QED
    BY <1>0, <1>3, <2>3 DEF TypeOK, memory
<1>6. EnsureChainSound'
  <2>1. \A d \in Catchers : d \in 1..k /\ d < k + 1
    <3>1. \A d \in Catchers : d \in 1..(k + 1) /\ d # k + 1
      BY <1>1, <1>2 DEF Catchers, Catching, TransactionMode
    <3> QED
      BY <3>1
  <2>2. Waiting' = Waiting /\ Waiting = Catchers
    BY <1>0, <1>3, <2>1 DEF Waiting, Catchers
  <2>3. \A d \in Waiting : stack'[d].previous = stack[d].previous
    BY <1>3, <2>1, <2>2
  <2> QED
    BY <1>0, <2>2, <2>3, EnsureChainKeep
<1>7. HandlersLinked'
  <2>1. \A d \in 1..((k + 1) - 1) : stack'[d] = stack[d]
    BY <1>3
  <2> QED
    BY <1>0, <1>2, <1>3, <1>4, <2>1, HandlerChainPop
<1>8. LogInScope'
  <2>1. txnFrame = 0 \/ txnFrame \in 1..k
    <3>1. txnFrame # k + 1
      BY <1>0, <1>1, <1>2, <1>4 DEF LogInScope, TransactionMode
    <3> QED
      BY <1>0, <1>1, <3>1 DEF LogInScope
  <2>2. \A d \in 1..k : d \in DOMAIN stack
    BY <1>1
  <2> QED
    BY <1>0, <1>3, <2>1, <2>2, LogScopeKeep DEF memory
<1>9. InstalledPrefix' /\ YoungestExists'
  BY <1>0, MemoryKeep
<1> QED
  BY <1>5, <1>6, <1>7, <1>8, <1>9 DEF IInv

\* The end of the receiver of ensure: pops the frame and starts the ensure block.
LEMMA EndEnsureIInv == ASSUME IInv, EndEnsure PROVE IInv'
<1>0. /\ TypeOK /\ EnsureChainSound /\ HandlersLinked /\ LogInScope
      /\ status = "running" /\ UNCHANGED <<memory, handlers, txnFrame, status, signal>>
  BY DEF IInv, EndEnsure, Ends
<1>1. PICK k \in Nat : /\ k = Len(stack) - 1 /\ k + 1 = Len(stack) /\ k \in 0..Len(stack)
                       /\ DOMAIN stack = 1..(k + 1) /\ Top = stack[k + 1]
  BY <1>0, TopFacts DEF EndEnsure, Ends
<1>2. /\ stack[k + 1].kind = "ensure" /\ k + 1 \in 1..(k + 1)
      /\ ensures' = Prefix(ensures, stack[k + 1].previous)
  BY <1>1 DEF EndEnsure, Ends
<1>3. PICK act \in Activation : /\ stack' = Append(Prefix(stack, k), act)
                                /\ act.kind = "cleanup"
                                /\ act.logged = stack[k + 1].logged
  <2>1. "cleanup" \in Kind /\ stack[k + 1].logged \in BOOLEAN
    BY <1>0, <1>1, <1>2, Shapes DEF Kind, StackShape
  <2>2. PICK act \in Activation :
          /\ act = Activate("cleanup", NoClass, stack[k + 1].logged, 0)
          /\ act.kind = "cleanup" /\ act.logged = stack[k + 1].logged
    BY <2>1, ActivateFacts
  <2>3. stack' = Append(Prefix(stack, k), act)
    BY <1>1, <2>2 DEF EndEnsure, Resume, Prefix
  <2> QED
    BY <2>2, <2>3
<1>4. /\ stack' \in Seq(Activation)
      /\ DOMAIN stack' = 1..(k + 1)
      /\ \A d \in 1..k : stack'[d] = stack[d]
      /\ stack'[k + 1] = act
      /\ OnDos' = {d \in OnDos : d < k + 1}
      /\ HandlerBlocks' = {d \in HandlerBlocks : d < k + 1}
      /\ Catchers' = {d \in Catchers : d < k + 1}
  BY <1>0, <1>1, <1>3, StackGraft DEF Catching, TransactionMode
<1>5. k + 1 \in Waiting /\ ensures # <<>> /\ InnermostEnsure = k + 1
  <2>1. k + 1 \in Waiting
    BY <1>0, <1>1, <1>2 DEF Waiting, Catching
  <2> QED
    BY <1>0, <1>1, <2>1, TopWaiting
<1>6. TypeOK'
  <2>1. stack[k + 1].previous \in 0..Len(ensures)
    BY <1>0, <1>5, Innermost, Shapes DEF EnsuresShape
  <2>2. ensures' \in Seq(Nat)
    BY <1>0, <1>2, <2>1, PrefixFacts DEF TypeOK
  <2> QED
    BY <1>0, <1>4, <2>2 DEF TypeOK, memory
<1>7. EnsureChainSound'
  <2>1. Waiting = Catchers /\ Waiting' = Catchers'
    BY <1>0 DEF Waiting, Catchers
  <2>2. \A d \in Catchers : d \in 1..(k + 1)
    BY <1>1 DEF Catchers
  <2>3. Waiting' = Waiting \ {InnermostEnsure}
    BY <1>4, <1>5, <2>1, <2>2
  <2>4. \A d \in 1..(InnermostEnsure - 1) : stack'[d] = stack[d]
    BY <1>4, <1>5
  <2> QED
    BY <1>0, <1>2, <1>5, <2>3, <2>4, EnsureChainTruncate
<1>8. HandlersLinked'
  <2>1. \A d \in Guards : d \in 1..k /\ d < k + 1
    <3>1. \A d \in Guards : d \in 1..(k + 1) /\ d # k + 1
      BY <1>1, <1>2 DEF Guards, OnDos, HandlerBlocks
    <3> QED
      BY <3>1
  <2>2. OnDos' = OnDos /\ HandlerBlocks' = HandlerBlocks
    BY <1>4, <2>1 DEF Guards
  <2>3. \A d \in Guards : stack'[d].previous = stack[d].previous
    BY <1>4, <2>1
  <2> QED
    BY <1>0, <2>2, <2>3, HandlerChainKeep
<1>9. LogInScope'
  <2>1. txnFrame # k + 1
    BY <1>0, <1>1, <1>2 DEF LogInScope, TransactionMode
  <2>2. txnFrame = 0 \/ txnFrame \in 1..k
    BY <1>0, <1>1, <2>1 DEF LogInScope
  <2>3. stack'[k + 1].kind \notin TransactionMode
    BY <1>3, <1>4 DEF TransactionMode
  <2>4. stack'[k + 1].logged <=> txnFrame # 0
    BY <1>0, <1>1, <1>2, <1>3, <1>4, <2>2 DEF LogInScope
  <2>5. \A d \in 1..k : d \in DOMAIN stack
    BY <1>1
  <2>6. UNCHANGED <<log, txnFrame>> /\ status' # "committing" /\ LogInScope
    BY <1>0 DEF memory
  <2>7. \A d \in 1..k : d \in DOMAIN stack /\ stack'[d] = stack[d]
    BY <1>4, <2>5
  <2>8. /\ DOMAIN stack' = 1..(k + 1)
        /\ stack'[k + 1].kind \notin TransactionMode
        /\ stack'[k + 1].logged <=> txnFrame # 0
    BY <1>4, <2>3, <2>4
  <2> QED
    BY <2>2, <2>6, <2>7, <2>8, LogScopeKeep
<1>10. InstalledPrefix' /\ YoungestExists'
  BY <1>0, MemoryKeep
<1> QED
  BY <1>6, <1>7, <1>8, <1>9, <1>10 DEF IInv

\* A transaction is closed without a commit: its activation, at depth k + 1, is
\* the innermost frame that waits, and the log is dropped.
LEMMA CloseIInv ==
  ASSUME IInv, status # "committing", status' \in Status \ {"committing"},
         NEW k \in Nat, k + 1 \in DOMAIN stack,
         stack[k + 1].kind \in TransactionMode,
         ensures # <<>>, InnermostEnsure = k + 1,
         stack' = Prefix(stack, k),
         ensures' = Prefix(ensures, stack[k + 1].previous),
         (handlers' = handlers /\ k + 1 = Len(stack))
           \/ handlers' = Abandon(handlers, k + 1),
         txn_abort, UNCHANGED signal
  PROVE  IInv'
<1>0. TypeOK /\ EnsureChainSound /\ HandlersLinked /\ LogInScope
      /\ InstalledPrefix
  BY DEF IInv
<1>1. StackShape /\ EnsuresShape /\ k \in 0..Len(stack)
  <2>1. StackShape /\ EnsuresShape
    BY <1>0, Shapes
  <2>2. Len(stack) \in Nat /\ k + 1 \in 1..Len(stack)
    BY <2>1 DEF StackShape
  <2> QED
    BY <2>1, <2>2
<1>2. /\ stack' \in Seq(Activation)
      /\ DOMAIN stack' = 1..k
      /\ \A d \in 1..k : stack'[d] = stack[d] /\ d \in DOMAIN stack
      /\ OnDos' = {d \in OnDos : d < k + 1}
      /\ HandlerBlocks' = {d \in HandlerBlocks : d < k + 1}
      /\ Catchers' = {d \in Catchers : d < k + 1}
  <2>1. DOMAIN stack = 1..Len(stack) /\ Len(stack) \in Nat /\ k \in 0..Len(stack)
    BY <1>1, Zenon DEF StackShape
  <2>2. \A d \in 1..k : d \in DOMAIN stack
    BY <2>1, InitialSegment, Zenon
  <2> QED
    BY <1>0, <1>1, <2>2, StackCut
<1>3. /\ log' = <<>> /\ txnFrame' = 0 /\ log' \in Seq(Entry)
      /\ UNCHANGED <<heap, installed, answer, committed>>
  BY EmptyLog DEF txn_abort
<1>4. TypeOK'
  <2>1. stack[k + 1].previous \in 0..Len(ensures)
    BY <1>0, <1>1, Innermost DEF EnsuresShape
  <2>2. ensures' \in Seq(Nat)
    BY <1>0, <2>1, PrefixFacts DEF TypeOK
  <2>3. handlers \in Seq(Nat) /\ k + 1 \in Nat
    BY <1>0 DEF TypeOK
  <2>4. Abandon(handlers, k + 1) \in Seq(Nat)
    BY <2>3, AbandonFacts
  <2>5. handlers' = handlers \/ handlers' = Abandon(handlers, k + 1)
    OBVIOUS
  <2>6. handlers' \in Seq(Nat)
    BY <2>3, <2>4, <2>5, Zenon
  <2> QED
    BY <1>0, <1>2, <1>3, <2>2, <2>6 DEF TypeOK
<1>5. EnsureChainSound'
  <2>1. Waiting = Catchers /\ Waiting' = Catchers'
    BY DEF Waiting, Catchers
  <2>2. \A d \in Waiting : d \in Nat /\ d <= k + 1
    BY <1>0, <1>1, Innermost DEF Waiting, StackShape
  <2>3. Waiting' = Waiting \ {InnermostEnsure}
    BY <1>2, <2>1, <2>2
  <2>4. \A d \in 1..(InnermostEnsure - 1) : stack'[d] = stack[d]
    BY <1>2
  <2> QED
    BY <1>0, <2>3, <2>4, EnsureChainTruncate
<1>6. HandlersLinked'
  <2>1. k + 1 \notin Guards
    BY DEF Guards, OnDos, HandlerBlocks, TransactionMode
  <2>2. CASE handlers' = handlers /\ k + 1 = Len(stack)
    <3>1. \A d \in Guards : d \in 1..k /\ d < k + 1
      <4>1. \A d \in Guards : d \in 1..(k + 1) /\ d # k + 1
        BY <1>1, <2>1, <2>2 DEF Guards, OnDos, HandlerBlocks, StackShape
      <4> QED
        BY <4>1
    <3>2. OnDos' = OnDos /\ HandlerBlocks' = HandlerBlocks
      BY <1>2, <3>1 DEF Guards
    <3>3. \A d \in Guards : stack'[d].previous = stack[d].previous
      BY <1>2, <3>1
    <3> QED
      BY <1>0, <2>2, <3>2, <3>3, HandlerChainKeep
  <2>3. CASE handlers' = Abandon(handlers, k + 1)
    <3>1. \A d \in 1..((k + 1) - 1) : stack'[d] = stack[d]
      BY <1>2
    <3> QED
      BY <1>0, <1>2, <2>1, <2>3, <3>1, HandlerChainAbandon DEF Guards
  <2> QED
    BY <2>2, <2>3
<1>7. LogInScope'
  <2>1. txnFrame = k + 1
    BY <1>0 DEF LogInScope
  <2> QED
    BY <1>0, <1>2, <1>3, <2>1, LogScopeClose
<1>8. InstalledPrefix' /\ YoungestExists'
  <2>1. heap' = committed' /\ installed' = 0
    BY <1>0, <1>3, HeapCommitted
  <2> QED
    BY <1>3, <2>1, EmptyLog, NothingInstalled
<1> QED
  BY <1>4, <1>5, <1>6, <1>7, <1>8 DEF IInv

\* A readOnly: block, or a durable: block whose record failed, closes without a store.
LEMMA EndAbortIInv == ASSUME IInv, EndReadOnly \/ DurableFails PROVE IInv'
<1>0. /\ TypeOK /\ EnsureChainSound /\ status = "running" /\ stack # <<>>
      /\ Top.kind \in TransactionMode /\ Pop
      /\ ensures' = Prefix(ensures, Top.previous)
      /\ txn_abort /\ UNCHANGED <<handlers, signal>>
      /\ status' \in Status \ {"committing"}
  BY DEF IInv, EndReadOnly, DurableFails, Ends, TransactionMode, Status
<1>1. PICK k \in Nat : /\ k = Len(stack) - 1 /\ k + 1 = Len(stack)
                       /\ DOMAIN stack = 1..(k + 1) /\ Top = stack[k + 1]
  BY <1>0, TopFacts
<1>2. k + 1 \in Waiting /\ k + 1 \in DOMAIN stack
  BY <1>0, <1>1 DEF Waiting, Catching
<1>3. ensures # <<>> /\ InnermostEnsure = k + 1
  BY <1>0, <1>1, <1>2, TopWaiting
<1>4. stack' = Prefix(stack, k)
  BY <1>0, <1>1 DEF Pop
<1> QED
  BY <1>0, <1>1, <1>2, <1>3, <1>4, CloseIInv

\* A signal that reaches a transaction closes it and goes on.
LEMMA PropagateToTransactionIInv ==
  ASSUME IInv, PropagateToTransaction PROVE IInv'
<1>0. /\ TypeOK /\ EnsureChainSound /\ status = "signaling" /\ ensures # <<>>
      /\ stack[InnermostEnsure].kind \in TransactionMode
      /\ stack' = Prefix(stack, InnermostEnsure - 1)
      /\ ensures' = Prefix(ensures, stack[InnermostEnsure].previous)
      /\ handlers' = Abandon(handlers, InnermostEnsure)
      /\ txn_abort /\ UNCHANGED <<status, signal>>
      /\ status' \in Status \ {"committing"}
  BY DEF IInv, PropagateToTransaction, Status
<1>1. InnermostEnsure \in 1..Len(stack) /\ StackShape
  BY <1>0, Innermost, Shapes
<1>2. PICK k \in Nat : k = InnermostEnsure - 1 /\ k + 1 = InnermostEnsure
  <2>1. InnermostEnsure - 1 \in Nat /\ InnermostEnsure - 1 + 1 = InnermostEnsure
    BY <1>1
  <2> QED
    BY <2>1, Zenon
<1>3. k + 1 \in DOMAIN stack
  BY <1>1, <1>2 DEF StackShape
<1> QED
  BY <1>0, <1>2, <1>3, CloseIInv

\* The commit starts with the ensure frame popped and nothing installed.
LEMMA StartCommitIInv == ASSUME IInv, StartCommit PROVE IInv'
<1>0. /\ TypeOK /\ EnsureChainSound /\ HandlersLinked /\ LogInScope
      /\ InstalledPrefix /\ YoungestExists
      /\ status = "running" /\ stack # <<>> /\ Top.kind \in TransactionMode
      /\ Top.kind # "readOnly" /\ ensures' = Prefix(ensures, Top.previous)
      /\ status' = "committing" /\ installed' = 0
      /\ UNCHANGED <<heap, log, answer, committed, stack, handlers, txnFrame, signal>>
  BY DEF IInv, StartCommit, Ends, TransactionMode
<1>1. PICK k \in Nat : /\ k + 1 = Len(stack)
                       /\ DOMAIN stack = 1..(k + 1) /\ Top = stack[k + 1]
  BY <1>0, TopFacts
<1>2. k + 1 \in Waiting /\ k + 1 \in DOMAIN stack
  BY <1>0, <1>1 DEF Waiting, Catching
<1>3. ensures # <<>> /\ InnermostEnsure = k + 1
  BY <1>0, <1>1, <1>2, TopWaiting
<1>4. TypeOK'
  <2>1. stack[k + 1].previous \in 0..Len(ensures)
    BY <1>0, <1>3, Innermost, Shapes DEF EnsuresShape
  <2>2. ensures' \in Seq(Nat)
    BY <1>0, <1>1, <2>1, PrefixFacts DEF TypeOK
  <2> QED
    BY <1>0, <2>2 DEF TypeOK, Status
<1>5. EnsureChainSound'
  <2>1. Waiting' = Waiting \ {InnermostEnsure}
    BY <1>0, <1>1, <1>3 DEF Waiting
  <2> QED
    BY <1>0, <1>1, <1>3, <2>1, EnsureChainTruncate
<1>6. HandlersLinked'
  BY <1>0 DEF HandlersLinked, OnDos, HandlerBlocks
<1>7. LogInScope'
  <2>1. txnFrame = k + 1
    BY <1>0, <1>1, <1>2 DEF LogInScope
  <2> QED
    BY <1>0, <1>1, <2>1 DEF LogInScope, Top
<1>8. InstalledPrefix' /\ YoungestExists'
  <2>1. heap' = committed' /\ Len(log') \in Nat
    BY <1>0, HeapCommitted DEF TypeOK
  <2> QED
    BY <1>0, <2>1, NothingInstalled DEF YoungestExists
<1> QED
  BY <1>4, <1>5, <1>6, <1>7, <1>8 DEF IInv

\* Installing one triple makes the installed prefix one longer.
LEMMA CommitEntryIInv == ASSUME IInv, CommitEntry PROVE IInv'
<1>0. /\ TypeOK /\ EnsureChainSound /\ HandlersLinked /\ LogInScope
      /\ InstalledPrefix /\ YoungestExists
      /\ status = "committing" /\ installed < Len(log)
      /\ heap' = InstallEntry(heap, log[installed + 1]) /\ installed' = installed + 1
      /\ UNCHANGED <<log, answer, committed, stack, chains, status, signal>>
  BY DEF IInv, CommitEntry
<1>1. heap' \in Heap /\ InstalledPrefix'
  BY <1>0, InstallStep
<1>2. TypeOK'
  BY <1>0, <1>1 DEF TypeOK, chains
<1>3. EnsureChainSound' /\ HandlersLinked'
  BY <1>0 DEF EnsureChainSound, HandlersLinked, Waiting, OnDos, HandlerBlocks, chains
<1>4. LogInScope' /\ YoungestExists'
  BY <1>0 DEF LogInScope, YoungestExists, Top, chains
<1> QED
  BY <1>1, <1>2, <1>3, <1>4 DEF IInv

\* The last triple is in the heap: the heap is the committed heap, the log is closed.
LEMMA FinishCommitIInv == ASSUME IInv, FinishCommit PROVE IInv'
<1>0. /\ TypeOK /\ EnsureChainSound /\ HandlersLinked /\ LogInScope
      /\ status = "committing" /\ status' = "running"
      /\ log' = <<>> /\ installed' = 0 /\ committed' = heap /\ txnFrame' = 0 /\ Pop
      /\ UNCHANGED <<heap, answer, handlers, ensures, signal>>
  BY DEF IInv, FinishCommit
<1>1. txnFrame = Len(stack) /\ Len(stack) \in DOMAIN stack /\ stack # <<>>
  BY <1>0 DEF LogInScope
<1>2. PICK k \in Nat : /\ k = Len(stack) - 1 /\ k + 1 = Len(stack) /\ k \in 0..Len(stack)
                       /\ DOMAIN stack = 1..(k + 1)
  BY <1>0, <1>1, TopFacts
<1>3. stack' = Prefix(stack, k)
  BY <1>0, <1>2 DEF Pop
<1>4. /\ stack' \in Seq(Activation)
      /\ DOMAIN stack' = 1..k
      /\ \A d \in 1..k : stack'[d] = stack[d]
      /\ OnDos' = {d \in OnDos : d < k + 1}
      /\ HandlerBlocks' = {d \in HandlerBlocks : d < k + 1}
      /\ Catchers' = {d \in Catchers : d < k + 1}
  BY <1>0, <1>2, <1>3, StackCut
<1>5. TypeOK'
  <2>1. log' \in Seq(Entry)
    BY <1>0, EmptyLog
  <2> QED
    BY <1>0, <1>4, <2>1 DEF TypeOK, Status
<1>6. EnsureChainSound'
  <2>1. Waiting' = Catchers'
    BY <1>0 DEF Waiting, Catchers
  <2>2. \A d : d \in Waiting <=> d \in Catchers /\ d # k + 1
    BY <1>0, <1>2 DEF Waiting, Catchers
  <2>3. \A d \in 1..(k + 1) : d < k + 1 <=> d # k + 1
    OBVIOUS
  <2>4. \A d \in Catchers : d \in 1..(k + 1)
    BY <1>2 DEF Catchers
  <2>5. Waiting' = Waiting
    BY <1>4, <2>1, <2>2, <2>3, <2>4
  <2>6. \A d \in Waiting : d \in 1..k
    BY <2>2, <2>4
  <2>7. \A d \in Waiting : stack'[d].previous = stack[d].previous
    BY <1>4, <2>6
  <2> QED
    BY <1>0, <2>5, <2>7, EnsureChainKeep
<1>7. HandlersLinked'
  <2>1. \A d \in Guards : d \in 1..k /\ d < k + 1
    <3>1. \A d \in Guards : d \in 1..(k + 1) /\ d # k + 1
      BY <1>0, <1>1, <1>2 DEF Guards, OnDos, HandlerBlocks, LogInScope, TransactionMode
    <3> QED
      BY <3>1
  <2>2. OnDos' = OnDos /\ HandlerBlocks' = HandlerBlocks
    BY <1>4, <2>1 DEF Guards
  <2>3. \A d \in Guards : stack'[d].previous = stack[d].previous
    BY <1>4, <2>1
  <2> QED
    BY <1>0, <2>2, <2>3, HandlerChainKeep
<1>8. LogInScope'
  <2>1. \A d \in 1..k : d \in DOMAIN stack
    BY <1>2
  <2> QED
    BY <1>0, <1>1, <1>2, <1>4, <2>1, LogScopeClose
<1>9. InstalledPrefix' /\ YoungestExists'
  BY <1>0, EmptyLog, NothingInstalled
<1> QED
  BY <1>5, <1>6, <1>7, <1>8, <1>9 DEF IInv

\* A signal that reaches an ensure: pops its frame and runs its ensure block.
LEMMA PropagateToEnsureIInv ==
  ASSUME IInv, PropagateToEnsure PROVE IInv'
<1>0. /\ TypeOK /\ EnsureChainSound /\ HandlersLinked /\ LogInScope
      /\ status = "signaling" /\ ensures # <<>>
      /\ stack[InnermostEnsure].kind = "ensure"
      /\ stack' = Resume(InnermostEnsure, Activate("unwind", signal,
                                            stack[InnermostEnsure].logged, 0))
      /\ ensures' = Prefix(ensures, stack[InnermostEnsure].previous)
      /\ handlers' = Abandon(handlers, InnermostEnsure)
      /\ status' = "running" /\ signal' = NoClass
      /\ UNCHANGED <<memory, txnFrame>>
  BY DEF IInv, PropagateToEnsure
<1>1. InnermostEnsure \in 1..Len(stack) /\ StackShape /\ EnsuresShape
  BY <1>0, Innermost, Shapes
<1>2. PICK k \in Nat : k = InnermostEnsure - 1 /\ k + 1 = InnermostEnsure
  <2>1. InnermostEnsure - 1 \in Nat /\ InnermostEnsure - 1 + 1 = InnermostEnsure
    BY <1>1
  <2> QED
    BY <2>1, Zenon
<1>3. k \in 0..Len(stack) /\ k + 1 \in DOMAIN stack /\ \A d \in 1..k : d \in DOMAIN stack
  BY <1>1, <1>2 DEF StackShape
<1>4. PICK act \in Activation : /\ stack' = Append(Prefix(stack, k), act)
                                /\ act.kind = "unwind"
                                /\ act.logged = stack[k + 1].logged
  <2>1. /\ "unwind" \in Kind /\ stack[k + 1].logged \in BOOLEAN
        /\ signal \in ExceptionClass \cup {NoClass}
    BY <1>0, <1>1, <1>2 DEF Kind, StackShape, TypeOK
  <2>2. PICK act \in Activation :
          /\ act = Activate("unwind", signal, stack[k + 1].logged, 0)
          /\ act.kind = "unwind" /\ act.logged = stack[k + 1].logged
    BY <2>1, ActivateFacts
  <2>3. stack' = Append(Prefix(stack, k), act)
    BY <1>0, <1>2, <2>2 DEF Resume, Prefix
  <2> QED
    BY <2>2, <2>3
<1>5. /\ stack' \in Seq(Activation)
      /\ DOMAIN stack' = 1..(k + 1)
      /\ \A d \in 1..k : stack'[d] = stack[d]
      /\ stack'[k + 1] = act
      /\ OnDos' = {d \in OnDos : d < k + 1}
      /\ HandlerBlocks' = {d \in HandlerBlocks : d < k + 1}
      /\ Catchers' = {d \in Catchers : d < k + 1}
  BY <1>0, <1>3, <1>4, StackGraft DEF Catching, TransactionMode
<1>6. TypeOK'
  <2>1. stack[InnermostEnsure].previous \in 0..Len(ensures)
    BY <1>0, <1>1, Innermost DEF EnsuresShape
  <2>2. ensures' \in Seq(Nat)
    BY <1>0, <2>1, PrefixFacts DEF TypeOK
  <2>3. handlers' \in Seq(Nat)
    BY <1>0, <1>2, AbandonFacts DEF TypeOK
  <2> QED
    BY <1>0, <1>5, <2>2, <2>3 DEF TypeOK, memory, Status
<1>7. \A d \in Waiting : d \in Nat /\ d <= k + 1
  BY <1>0, <1>1, <1>2, Innermost DEF Waiting, StackShape
<1>8. EnsureChainSound'
  <2>1. Waiting = Catchers /\ Waiting' = Catchers'
    BY <1>0 DEF Waiting, Catchers
  <2>2. Waiting' = Waiting \ {InnermostEnsure}
    BY <1>2, <1>5, <1>7, <2>1
  <2>3. \A d \in 1..(InnermostEnsure - 1) : stack'[d] = stack[d]
    BY <1>2, <1>5
  <2> QED
    BY <1>0, <2>2, <2>3, EnsureChainTruncate
<1>9. HandlersLinked'
  <2>1. k + 1 \notin OnDos
    BY <1>0, <1>2 DEF OnDos
  <2>2. \A d \in 1..((k + 1) - 1) : stack'[d] = stack[d]
    BY <1>5
  <2>3. handlers' = Abandon(handlers, k + 1)
    BY <1>0, <1>2
  <2> QED
    BY <1>0, <1>5, <2>1, <2>2, <2>3, HandlerChainAbandon
<1>10. LogInScope'
  <2>1. txnFrame # k + 1
    BY <1>0, <1>2, <1>3 DEF LogInScope, TransactionMode
  <2>2. txnFrame # 0 => txnFrame \in Waiting
    BY <1>0 DEF LogInScope, Waiting, Catching
  <2>3. txnFrame = 0 \/ txnFrame \in 1..k
    BY <1>7, <2>1, <2>2
  <2>4. stack'[k + 1].kind \notin TransactionMode
    BY <1>4, <1>5 DEF TransactionMode
  <2>5. stack'[k + 1].logged <=> txnFrame # 0
    BY <1>0, <1>3, <1>4, <1>5, <2>3 DEF LogInScope
  <2> QED
    BY <1>0, <1>3, <1>5, <2>3, <2>4, <2>5, LogScopeKeep DEF memory
<1>11. InstalledPrefix' /\ YoungestExists'
  BY <1>0, MemoryKeep
<1> QED
  BY <1>6, <1>8, <1>9, <1>10, <1>11 DEF IInv

\* When the handler chain is searched nothing waits any more: no ensure block
\* is pending and no transaction is open.
LEMMA NothingWaits ==
  ASSUME IInv, status = "signaling", ensures = <<>>
  PROVE  Waiting = {} /\ Catchers = {} /\ txnFrame = 0
<1>1. Waiting = {}
  BY DEF IInv, EnsureChainSound
<1>2. Catchers = {}
  BY <1>1 DEF Waiting, Catchers
<1>3. txnFrame = 0
  BY <1>1 DEF IInv, LogInScope, Waiting, Catching
<1> QED
  BY <1>1, <1>2, <1>3

\* A signal that no ensure frame takes resumes an on:do:, or follows a dangling frame.
LEMMA PropagateToHandlerIInv ==
  ASSUME IInv, PropagateToHandler PROVE IInv'
<1>0. /\ TypeOK /\ EnsureChainSound /\ HandlersLinked /\ LogInScope
      /\ status = "signaling" /\ ensures = <<>> /\ signal' = NoClass
      /\ UNCHANGED <<memory, ensures, txnFrame>>
  BY DEF IInv, PropagateToHandler
<1>1. Waiting = {} /\ Catchers = {} /\ txnFrame = 0
  BY <1>0, NothingWaits
<1>2. PICK i \in DOMAIN handlers :
         IF handlers[i] = 0
         THEN status' = "undefined" /\ UNCHANGED <<stack, handlers>>
         ELSE /\ status' = "running"
              /\ stack' = Resume(handlers[i],
                             Activate("handler", NoClass, stack[handlers[i]].logged,
                                      stack[handlers[i]].previous))
              /\ handlers' = Prefix(handlers, stack[handlers[i]].previous)
  BY DEF PropagateToHandler
<1>3. CASE handlers[i] = 0
  BY <1>0, <1>2, <1>3, StatusIInv DEF chains, Status
<1>4. CASE handlers[i] # 0
  <2>1. PICK g \in OnDos : g = handlers[i]
    BY <1>0, <1>4 DEF HandlersLinked
  <2>2. StackShape /\ HandlersShape /\ g \in 1..Len(stack) /\ stack[g].kind = "onDo"
    BY <1>0, Shapes DEF OnDos, StackShape
  <2>3. PICK k \in Nat : k = g - 1 /\ k + 1 = g
    <3>1. g - 1 \in Nat /\ g - 1 + 1 = g
      BY <2>2
    <3> QED
      BY <3>1, Zenon
  <2>4. k \in 0..Len(stack) /\ \A d \in 1..k : d \in DOMAIN stack
    BY <2>2, <2>3 DEF StackShape
  <2>5. PICK act \in Activation :
          /\ stack' = Append(Prefix(stack, k), act)
          /\ act.kind = "handler" /\ act.logged = stack[g].logged
          /\ act.previous = stack[g].previous
    <3>1. "handler" \in Kind /\ stack[g].logged \in BOOLEAN /\ stack[g].previous \in Nat
      BY <2>2 DEF Kind, StackShape
    <3>2. PICK act \in Activation :
            /\ act = Activate("handler", NoClass, stack[g].logged, stack[g].previous)
            /\ act.kind = "handler" /\ act.logged = stack[g].logged
            /\ act.previous = stack[g].previous
      BY <3>1, ActivateFacts
    <3>3. stack' = Append(Prefix(stack, k), act)
      BY <1>2, <1>4, <2>1, <2>3, <3>2 DEF Resume, Prefix
    <3> QED
      BY <3>2, <3>3
  <2>6. /\ stack' \in Seq(Activation)
        /\ DOMAIN stack' = 1..(k + 1)
        /\ \A d \in 1..k : stack'[d] = stack[d]
        /\ stack'[k + 1] = act
        /\ OnDos' = {d \in OnDos : d < k + 1}
        /\ HandlerBlocks' = {d \in HandlerBlocks : d < k + 1} \cup {k + 1}
        /\ Catchers' = {d \in Catchers : d < k + 1}
    BY <1>0, <2>4, <2>5, StackGraft DEF Catching, TransactionMode
  <2>7. status' = "running" /\ handlers' = Prefix(handlers, stack[g].previous)
    BY <1>2, <1>4, <2>1
  <2>8. TypeOK'
    <3>1. stack[g].previous \in 0..Len(handlers)
      BY <1>0, <2>1, <2>2 DEF HandlersLinked, HandlersShape, StackShape
    <3>2. handlers' \in Seq(Nat)
      BY <1>0, <2>7, <3>1, PrefixFacts DEF TypeOK
    <3> QED
      BY <1>0, <2>6, <2>7, <3>2 DEF TypeOK, memory, Status
  <2>9. EnsureChainSound'
    <3>1. Waiting' = {}
      BY <1>1, <2>6, <2>7 DEF Waiting, Catchers
    <3> QED
      BY <1>0, <1>1, <3>1, EnsureChainKeep
  <2>10. HandlersLinked'
    <3>1. g \in Guards /\ stack'[g].previous = stack[g].previous
      BY <2>1, <2>3, <2>5, <2>6 DEF Guards
    <3>2. \A d \in 1..(g - 1) : stack'[d] = stack[d]
      BY <2>3, <2>6
    <3>3. /\ OnDos' = {d \in OnDos : d < g}
          /\ HandlerBlocks' = {d \in HandlerBlocks : d < g} \cup {g}
      BY <2>3, <2>6
    <3> QED
      BY <1>0, <2>7, <3>1, <3>2, <3>3, HandlerChainPop
  <2>11. LogInScope'
    <3>1. stack'[k + 1].kind \notin TransactionMode
      BY <2>5, <2>6 DEF TransactionMode
    <3>2. stack'[k + 1].logged <=> txnFrame # 0
      BY <1>0, <1>1, <2>1, <2>5, <2>6 DEF LogInScope, OnDos
    <3> QED
      BY <1>0, <1>1, <2>4, <2>6, <2>7, <3>1, <3>2, LogScopeKeep DEF memory
  <2>12. InstalledPrefix' /\ YoungestExists'
    BY <1>0, <2>7, MemoryKeep
  <2> QED
    BY <2>8, <2>9, <2>10, <2>11, <2>12 DEF IInv
<1> QED
  BY <1>3, <1>4

\* Every step preserves the invariant.
LEMMA NextIInv == ASSUME IInv, [Next]_vars PROVE IInv'
<1>1. CASE \E s \in Slot : Read(s)
  BY <1>1, ReadIInv
<1>2. CASE \E s \in Slot, v \in Oop : LoggedStore(s, v) \/ DirectStore(s, v)
  BY <1>2, LoggedStoreIInv, DirectStoreIInv
<1>3. CASE \E c \in ExceptionClass : OnDo(c) \/ Signal(c) \/ SignalUnhandled(c)
  <2>1. PICK c \in ExceptionClass : OnDo(c) \/ Signal(c) \/ SignalUnhandled(c)
    BY <1>3
  <2>2. CASE OnDo(c)
    BY <2>2, OnDoIInv
  <2>3. CASE Signal(c)
    BY <2>3, StatusIInv DEF Signal, Status
  <2>4. CASE SignalUnhandled(c)
    <3>1. signal \in ExceptionClass \cup {NoClass}
      BY DEF IInv, TypeOK
    <3> QED
      BY <2>4, <3>1, StatusIInv DEF SignalUnhandled, Status
  <2> QED
    BY <2>1, <2>2, <2>3, <2>4
<1>4. CASE Ensure \/ JoinTransaction \/ \E m \in TransactionMode : BeginTransaction(m)
  BY <1>4, EnsureIInv, JoinTransactionIInv, BeginTransactionIInv
<1>5. CASE EndBlock
  BY <1>5, EndOnDoIInv, EndPlainIInv, EndEnsureIInv, EndUnwindIInv, EndAbortIInv,
     StartCommitIInv DEF EndBlock
<1>6. CASE CommitEntry \/ FinishCommit
  BY <1>6, CommitEntryIInv, FinishCommitIInv
<1>7. CASE propagate_signal
  <2>1. CASE PropagateToNobody
    BY <2>1, StatusIInv DEF PropagateToNobody, Status
  <2> QED
    BY <1>7, <2>1, PropagateToEnsureIInv, PropagateToTransactionIInv,
       PropagateToHandlerIInv DEF propagate_signal
<1>8. CASE UNCHANGED vars
  BY <1>8 DEF vars, IInv, TypeOK, EnsureChainSound, HandlersLinked, LogInScope,
     InstalledPrefix, YoungestExists, Waiting, OnDos, HandlerBlocks, Top
<1> QED
  BY <1>1, <1>2, <1>3, <1>4, <1>5, <1>6, <1>7, <1>8 DEF Next, Stopped

\* The inductive invariant is an invariant of the interpreter.
THEOREM Invariance == Spec => []IInv
<1>1. Init => IInv
  BY InitIInv
<1>2. IInv /\ [Next]_vars => IInv'
  BY NextIInv
<1> QED
  BY <1>1, <1>2, PTL DEF Spec

\* Every variable keeps its type, for every set of slots, values and classes
\* and every bound.
THEOREM TypeCorrect == Spec => []TypeOK
<1>1. IInv => TypeOK
  BY DEF IInv
<1> QED
  BY <1>1, Invariance, PTL

\* propagate_signal never jumps to a dead ensure frame and never misses one.
THEOREM EnsureChainCorrect == Spec => []EnsureChainSound
<1>1. IInv => EnsureChainSound
  BY DEF IInv
<1> QED
  BY <1>1, Invariance, PTL

\* The log is used exactly inside the open transaction.
THEOREM LogScopeCorrect == Spec => []LogInScope
<1>1. IInv => LogInScope
  BY DEF IInv
<1> QED
  BY <1>1, Invariance, PTL

\* The commit loop installs the log in order and nothing else touches the heap.
THEOREM InstallCorrect == Spec => []InstalledPrefix
<1>1. IInv => InstalledPrefix
  BY DEF IInv
<1> QED
  BY <1>1, Invariance, PTL

-----------------------------------------------------------------------------
(* Where the handler chain is dead. *)

\* Every dead entry is set apart by an ensure block that a signal runs.
Divided ==
  \A i \in DOMAIN handlers :
    handlers[i] = 0 => \E u \in DOMAIN stack : Separates(u, i)

UnwindsKept ==
  \A u \in DOMAIN stack : stack[u].kind = "unwind" =>
    u \in DOMAIN stack' /\ stack'[u].kind = "unwind"

\* The ensure blocks that signals run stay, and the chain only loses entries at
\* its end or gains one for the activation that is pushed.
LEMMA DividedKeep ==
  ASSUME TypeOK, TypeOK', Divided, UnwindsKept,
         \A j \in DOMAIN handlers' :
           \/ j \in DOMAIN handlers /\ handlers'[j] = handlers[j]
           \/ j = Len(handlers) + 1 /\ handlers'[j] = Len(stack) + 1
  PROVE  Divided'
<1>0. StackShape /\ HandlersShape
  BY Shapes
<1> SUFFICES ASSUME NEW i \in DOMAIN handlers', handlers'[i] = 0
             PROVE  \E u \in DOMAIN stack' : Separates(u, i)'
  BY DEF Divided
<1>1. i \in DOMAIN handlers /\ handlers[i] = 0
  BY <1>0 DEF StackShape
<1>2. PICK u \in DOMAIN stack : Separates(u, i)
  BY <1>1 DEF Divided
<1>3. u \in DOMAIN stack' /\ stack'[u].kind = "unwind"
  BY <1>2 DEF Separates, UnwindsKept
<1>4. ASSUME NEW j \in DOMAIN handlers', handlers'[j] # 0
      PROVE  (j < i => handlers'[j] < u) /\ (j > i => handlers'[j] > u)
  <2>1. CASE j \in DOMAIN handlers /\ handlers'[j] = handlers[j]
    BY <1>2, <1>4, <2>1 DEF Separates
  <2>2. CASE j = Len(handlers) + 1 /\ handlers'[j] = Len(stack) + 1
    <3>1. i \in 1..Len(handlers) /\ Len(handlers) \in Nat
      BY <1>0, <1>1 DEF HandlersShape
    <3>2. u \in 1..Len(stack) /\ Len(stack) \in Nat
      BY <1>0 DEF StackShape
    <3> QED
      BY <2>2, <3>1, <3>2
  <2> QED
    BY <1>4, <2>1, <2>2
<1> QED
  BY <1>3, <1>4 DEF Separates

LEMMA PopKeepsUnwinds ==
  ASSUME TypeOK, stack # <<>>, Top.kind # "unwind", Pop PROVE UnwindsKept
<1>1. PICK k \in Nat : /\ k = Len(stack) - 1 /\ k \in 0..Len(stack)
                       /\ DOMAIN stack = 1..(k + 1) /\ Top = stack[k + 1]
  BY TopFacts
<1>2. DOMAIN stack' = 1..k /\ \A d \in 1..k : stack'[d] = stack[d]
  BY <1>1, StackCut DEF Pop
<1>3. \A d \in DOMAIN stack : d \in 1..k \/ d = k + 1
  BY <1>1
<1> QED
  BY <1>1, <1>2, <1>3 DEF UnwindsKept

LEMMA PushKeepsUnwinds ==
  ASSUME TypeOK, NEW act, stack' = Append(stack, act) PROVE UnwindsKept
<1>1. Len(stack) \in Nat /\ DOMAIN stack = 1..Len(stack)
  BY DEF TypeOK
<1>2. DOMAIN stack' = 1..(Len(stack) + 1) /\ \A d \in 1..Len(stack) : stack'[d] = stack[d]
  BY <1>1 DEF TypeOK
<1>3. \A d \in 1..Len(stack) : d \in DOMAIN stack'
  BY <1>1, <1>2
<1> QED
  BY <1>1, <1>2, <1>3 DEF UnwindsKept

\* longjmp to an ensure: leaves only on:do:s around it, and sets the dead
\* entries apart by the ensure block it starts or by one further out.
LEMMA PropagateToEnsureDivides ==
  ASSUME IInv, IInv', DeadHandlersConfined, PropagateToEnsure PROVE Divided'
<1>0. /\ TypeOK /\ StackShape /\ HandlersShape /\ EnsureChainSound
      /\ status = "signaling" /\ ensures # <<>>
  BY Shapes DEF IInv, PropagateToEnsure
<1>1. PICK e \in 1..Len(stack) : e = InnermostEnsure
  BY <1>0, Innermost
<1>2. /\ stack[e].kind = "ensure"
      /\ stack' = Resume(e, Activate("unwind", signal, stack[e].logged, 0))
      /\ handlers' = Abandon(handlers, e)
  BY <1>1 DEF PropagateToEnsure
<1>3. PICK act \in Activation : act.kind = "unwind" /\ stack' = Resume(e, act)
  <2>1. /\ "unwind" \in Kind /\ stack[e].logged \in BOOLEAN
        /\ signal \in ExceptionClass \cup {NoClass}
    BY <1>0 DEF Kind, StackShape, TypeOK
  <2>2. /\ Activate("unwind", signal, stack[e].logged, 0) \in Activation
        /\ Activate("unwind", signal, stack[e].logged, 0).kind = "unwind"
    BY <2>1, ActivateFacts
  <2> QED
    BY <1>2, <2>2
<1>4. /\ DOMAIN stack' = 1..e /\ stack'[e] = act
      /\ \A d \in 1..(e - 1) : stack'[d] = stack[d]
  BY <1>0, <1>3, ResumeFacts DEF TypeOK
<1>5. /\ DOMAIN handlers' = DOMAIN handlers
      /\ \A i \in DOMAIN handlers :
           handlers'[i] = IF handlers[i] > e THEN 0 ELSE handlers[i]
  BY <1>0, <1>2, AbandonFacts DEF TypeOK
<1>6. \A i \in DOMAIN handlers : handlers[i] # 0 => handlers[i] # e
  BY <1>0, <1>2 DEF IInv, HandlersLinked, OnDos
<1>7. \A i, j \in DOMAIN handlers :
        handlers[i] # 0 /\ handlers[j] # 0 /\ i < j => handlers[i] < handlers[j]
  <2> SUFFICES ASSUME NEW i \in DOMAIN handlers, NEW j \in DOMAIN handlers,
                      handlers[i] # 0, handlers[j] # 0, i < j
               PROVE  handlers[i] < handlers[j]
    OBVIOUS
  <2>1. /\ handlers[i] \in OnDos /\ stack[handlers[i]].previous = i - 1
        /\ handlers[j] \in OnDos /\ stack[handlers[j]].previous = j - 1
    BY DEF IInv, HandlersLinked
  <2>2. handlers[i] \in Nat /\ handlers[j] \in Nat /\ i \in Nat /\ j \in Nat
    BY <1>0 DEF HandlersShape
  <2>3. handlers[j] < handlers[i] =>
          stack[handlers[j]].previous < stack[handlers[i]].previous
    BY <2>1 DEF IInv, HandlersLinked
  <2> QED
    BY <2>1, <2>2, <2>3
<1> SUFFICES ASSUME NEW i \in DOMAIN handlers, handlers'[i] = 0
             PROVE  \E u \in DOMAIN stack' : Separates(u, i)'
  BY <1>5 DEF Divided
<1>8. \A j \in DOMAIN handlers : handlers[j] \in Nat /\ j \in Nat
  BY <1>0 DEF HandlersShape
<1>9. \A j \in DOMAIN handlers : handlers'[j] # 0 =>
        handlers'[j] = handlers[j] /\ handlers[j] # 0 /\ handlers[j] < e
  BY <1>5, <1>6, <1>8
<1>10. ASSUME \A j \in DOMAIN handlers : j > i => handlers'[j] = 0
       PROVE  Separates(e, i)'
  <2>1. e \in DOMAIN stack' /\ stack'[e].kind = "unwind"
    BY <1>3, <1>4
  <2> QED
    BY <1>5, <1>9, <1>10, <2>1 DEF Separates
<1>11. CASE handlers[i] # 0
  <2>1. handlers[i] > e
    BY <1>5, <1>11
  <2>2. \A j \in DOMAIN handlers : j > i => handlers'[j] = 0
    BY <1>5, <1>7, <1>8, <1>11, <2>1
  <2> QED
    BY <1>4, <1>10, <2>2
<1>12. ASSUME NEW u \in DOMAIN stack, Separates(u, i)
       PROVE  \E w \in DOMAIN stack' : Separates(w, i)'
  <2>1. u \in 1..Len(stack) /\ stack[u].kind = "unwind"
    BY <1>0, <1>12 DEF StackShape, Separates
  <2>2. CASE u < e
    <3>1. u \in DOMAIN stack' /\ stack'[u].kind = "unwind"
      BY <1>4, <2>1, <2>2
    <3>2. Separates(u, i)'
      BY <1>5, <1>9, <1>12, <3>1 DEF Separates
    <3> QED
      BY <3>1, <3>2
  <2>3. CASE u > e
    <3>1. \A j \in DOMAIN handlers : j > i => handlers'[j] = 0
      BY <1>5, <1>8, <1>12, <2>1, <2>3 DEF Separates
    <3> QED
      BY <1>4, <1>10, <3>1
  <2> QED
    BY <1>2, <2>1, <2>2, <2>3
<1>13. CASE handlers[i] = 0 /\ \A j \in DOMAIN handlers : j > i => handlers[j] = 0
  <2>1. \A j \in DOMAIN handlers : j > i => handlers'[j] = 0
    BY <1>9, <1>13
  <2> QED
    BY <1>4, <1>10, <2>1
<1> QED
  BY <1>0, <1>11, <1>12, <1>13 DEF DeadHandlersConfined

\* longjmp to a transaction: what it makes dead is the end of the chain.
LEMMA PropagateToTransactionConfines ==
  ASSUME IInv, IInv', DeadHandlersConfined, PropagateToTransaction
  PROVE  DeadHandlersConfined'
<1>0. /\ TypeOK /\ StackShape /\ HandlersShape /\ EnsureChainSound
      /\ status = "signaling" /\ status' = "signaling" /\ ensures # <<>>
  BY Shapes DEF IInv, PropagateToTransaction
<1>1. PICK e \in 1..Len(stack) : e = InnermostEnsure
  BY <1>0, Innermost
<1>2. /\ stack[e].kind \in TransactionMode
      /\ stack' = Prefix(stack, e - 1)
      /\ handlers' = Abandon(handlers, e)
  BY <1>1 DEF PropagateToTransaction
<1>3. DOMAIN stack' = 1..(e - 1) /\ \A d \in 1..(e - 1) : stack'[d] = stack[d]
  <2>1. e - 1 \in 0..Len(stack)
    BY <1>0 DEF StackShape
  <2> QED
    BY <1>0, <1>2, <2>1, StackCut
<1>4. /\ DOMAIN handlers' = DOMAIN handlers
      /\ \A i \in DOMAIN handlers :
           handlers'[i] = IF handlers[i] > e THEN 0 ELSE handlers[i]
  <2>1. handlers \in Seq(Nat) /\ e \in Nat
    BY <1>0 DEF TypeOK
  <2> QED
    BY <1>2, <2>1, AbandonFacts
<1>5. \A i, j \in DOMAIN handlers :
        handlers[i] # 0 /\ handlers[j] # 0 /\ i < j => handlers[i] < handlers[j]
  <2> SUFFICES ASSUME NEW i \in DOMAIN handlers, NEW j \in DOMAIN handlers,
                      handlers[i] # 0, handlers[j] # 0, i < j
               PROVE  handlers[i] < handlers[j]
    OBVIOUS
  <2>1. /\ handlers[i] \in OnDos /\ stack[handlers[i]].previous = i - 1
        /\ handlers[j] \in OnDos /\ stack[handlers[j]].previous = j - 1
    BY DEF IInv, HandlersLinked
  <2>2. handlers[i] \in Nat /\ handlers[j] \in Nat /\ i \in Nat /\ j \in Nat
    BY <1>0 DEF HandlersShape
  <2>3. handlers[j] < handlers[i] =>
          stack[handlers[j]].previous < stack[handlers[i]].previous
    BY <2>1 DEF IInv, HandlersLinked
  <2> QED
    BY <2>1, <2>2, <2>3
<1> SUFFICES ASSUME NEW i \in DOMAIN handlers, handlers'[i] = 0
             PROVE  \/ \E u \in DOMAIN stack' : Separates(u, i)'
                    \/ \A j \in DOMAIN handlers : j > i => handlers'[j] = 0
  BY <1>0, <1>4 DEF DeadHandlersConfined
<1>8. \A j \in DOMAIN handlers : handlers[j] \in Nat /\ j \in Nat
  BY <1>0 DEF HandlersShape
<1>9. \A j \in DOMAIN handlers : handlers'[j] # 0 =>
        handlers'[j] = handlers[j] /\ handlers[j] # 0
  BY <1>4, <1>8
<1>11. CASE handlers[i] # 0
  <2>1. handlers[i] > e
    BY <1>4, <1>11
  <2> QED
    BY <1>4, <1>5, <1>8, <1>11, <2>1
<1>12. ASSUME NEW u \in DOMAIN stack, Separates(u, i)
       PROVE  \/ \E w \in DOMAIN stack' : Separates(w, i)'
              \/ \A j \in DOMAIN handlers : j > i => handlers'[j] = 0
  <2>1. u \in 1..Len(stack) /\ stack[u].kind = "unwind" /\ u # e
    BY <1>0, <1>2, <1>12 DEF StackShape, Separates, TransactionMode
  <2>2. CASE u < e
    <3>1. u \in DOMAIN stack' /\ stack'[u].kind = "unwind"
      BY <1>3, <2>1, <2>2
    <3>2. Separates(u, i)'
      BY <1>4, <1>9, <1>12, <3>1 DEF Separates
    <3> QED
      BY <3>1, <3>2
  <2>3. CASE u > e
    BY <1>4, <1>8, <1>12, <2>1, <2>3 DEF Separates
  <2> QED
    BY <2>1, <2>2, <2>3
<1>13. CASE handlers[i] = 0 /\ \A j \in DOMAIN handlers : j > i => handlers[j] = 0
  BY <1>9, <1>13
<1> QED
  BY <1>0, <1>11, <1>12, <1>13 DEF DeadHandlersConfined

\* A handler that takes a signal is live, so everything dead below it is set
\* apart by an ensure block around it.
LEMMA PropagateToHandlerDivides ==
  ASSUME IInv, IInv', DeadHandlersConfined, PropagateToHandler, status' # "undefined"
  PROVE  Divided'
<1>0. TypeOK /\ StackShape /\ HandlersShape /\ status = "signaling"
  BY Shapes DEF IInv, PropagateToHandler
<1>1. PICK i \in DOMAIN handlers :
        /\ handlers[i] # 0
        /\ stack' = Resume(handlers[i],
                       Activate("handler", NoClass, stack[handlers[i]].logged,
                                stack[handlers[i]].previous))
        /\ handlers' = Prefix(handlers, stack[handlers[i]].previous)
  BY DEF PropagateToHandler
<1>2. handlers[i] \in OnDos /\ stack[handlers[i]].previous = i - 1
  BY <1>1 DEF IInv, HandlersLinked
<1>3. PICK g \in 1..Len(stack) : g = handlers[i]
  BY <1>0, <1>2 DEF OnDos, StackShape
<1>4. PICK act \in Activation : stack' = Resume(g, act)
  <2>1. "handler" \in Kind /\ stack[g].logged \in BOOLEAN /\ stack[g].previous \in Nat
    BY <1>0 DEF Kind, StackShape
  <2>2. Activate("handler", NoClass, stack[g].logged, stack[g].previous) \in Activation
    BY <2>1, ActivateFacts
  <2> QED
    BY <1>1, <1>3, <2>2
<1>5. DOMAIN stack' = 1..g /\ \A d \in 1..(g - 1) : stack'[d] = stack[d]
  BY <1>0, <1>4, ResumeFacts DEF TypeOK
<1>6. i \in 1..Len(handlers) /\ Len(handlers) \in Nat /\ DOMAIN handlers = 1..Len(handlers)
  BY <1>0 DEF HandlersShape
<1>7. DOMAIN handlers' = 1..(i - 1) /\ \A j \in 1..(i - 1) : handlers'[j] = handlers[j]
  <2>1. PICK n \in 0..Len(handlers) : n = i - 1
    BY <1>6
  <2>2. handlers \in Seq(Nat) /\ handlers' = Prefix(handlers, n)
    BY <1>0, <1>1, <1>2, <2>1 DEF TypeOK
  <2> QED
    BY <2>1, <2>2, PrefixFacts
<1> SUFFICES ASSUME NEW k \in DOMAIN handlers', handlers'[k] = 0
             PROVE  \E u \in DOMAIN stack' : Separates(u, k)'
  BY DEF Divided
<1>8. k \in DOMAIN handlers /\ handlers[k] = 0 /\ i > k
  BY <1>6, <1>7
<1>9. PICK u \in DOMAIN stack : Separates(u, k)
  BY <1>0, <1>1, <1>8 DEF DeadHandlersConfined
<1>10. u \in 1..(g - 1)
  <2>1. u < g
    BY <1>1, <1>3, <1>8, <1>9 DEF Separates
  <2> QED
    BY <1>0, <1>9, <2>1 DEF StackShape
<1>11. u \in DOMAIN stack' /\ stack'[u].kind = "unwind"
  BY <1>5, <1>9, <1>10 DEF Separates
<1>12. \A j \in DOMAIN handlers' : j \in DOMAIN handlers /\ handlers'[j] = handlers[j]
  BY <1>6, <1>7
<1> QED
  BY <1>9, <1>11, <1>12 DEF Separates

\* The ensure block of an unwinding ensure: ends: every entry it sets apart
\* from those around it is dead.
LEMMA EndUnwindConfines ==
  ASSUME IInv, DeadHandlersConfined, EndUnwind PROVE DeadHandlersConfined'
<1>0. /\ TypeOK /\ StackShape /\ HandlersShape /\ status = "running"
      /\ status' = "signaling" /\ UNCHANGED handlers /\ Pop /\ stack # <<>>
  BY Shapes DEF IInv, EndUnwind, Ends, chains
<1>1. PICK k \in Nat : /\ k = Len(stack) - 1 /\ k \in 0..Len(stack)
                       /\ DOMAIN stack = 1..(k + 1)
  BY <1>0, TopFacts
<1>2. DOMAIN stack' = 1..k /\ \A d \in 1..k : stack'[d] = stack[d]
  BY <1>0, <1>1, StackCut DEF Pop
<1>3. \A j \in DOMAIN handlers : handlers[j] # 0 => handlers[j] \in 1..(k + 1)
  BY <1>1 DEF IInv, HandlersLinked, OnDos
<1> SUFFICES ASSUME NEW i \in DOMAIN handlers, handlers[i] = 0
             PROVE  \/ \E u \in DOMAIN stack' : Separates(u, i)'
                    \/ \A j \in DOMAIN handlers : j > i => handlers[j] = 0
  BY <1>0 DEF DeadHandlersConfined
<1>4. PICK u \in DOMAIN stack : Separates(u, i)
  BY <1>0 DEF DeadHandlersConfined
<1>5. CASE u = k + 1
  BY <1>3, <1>4, <1>5 DEF Separates
<1>6. CASE u \in 1..k
  <2>1. u \in DOMAIN stack' /\ stack'[u].kind = "unwind"
    BY <1>2, <1>4, <1>6 DEF Separates
  <2> QED
    BY <1>0, <1>4, <2>1 DEF Separates
<1> QED
  BY <1>1, <1>5, <1>6

\* Every step keeps the dead entries where they may be.
LEMMA NextConfined ==
  ASSUME IInv, IInv', DeadHandlersConfined, [Next]_vars PROVE DeadHandlersConfined'
<1>0. TypeOK /\ TypeOK' /\ StackShape /\ HandlersShape
  BY Shapes DEF IInv
<1>1. Divided' => DeadHandlersConfined'
  BY DEF Divided, DeadHandlersConfined
<1>2. status \in {"running", "committing"} => Divided
  BY DEF Divided, DeadHandlersConfined
<1>3. CASE status' \in {"trapped", "undefined"}
  BY <1>3 DEF DeadHandlersConfined
<1>4. CASE UNCHANGED <<stack, handlers, status>>
  BY <1>4 DEF DeadHandlersConfined, Separates
<1>5. ASSUME status \in {"running", "committing"}, UNCHANGED handlers, UnwindsKept
      PROVE  DeadHandlersConfined'
  BY <1>0, <1>1, <1>2, <1>5, DividedKeep
<1>6. UNCHANGED stack => UnwindsKept
  BY DEF UnwindsKept
<1>7. CASE \E c \in ExceptionClass : OnDo(c)
  <2>1. PICK act : stack' = Append(stack, act)
    BY <1>7 DEF OnDo, Open
  <2>2. /\ status = "running" /\ UnwindsKept
        /\ handlers' = Append(handlers, Len(stack) + 1)
    BY <1>0, <1>7, <2>1, PushKeepsUnwinds DEF OnDo, Open
  <2>3. \A j \in DOMAIN handlers' :
          \/ j \in DOMAIN handlers /\ handlers'[j] = handlers[j]
          \/ j = Len(handlers) + 1 /\ handlers'[j] = Len(stack) + 1
    BY <1>0, <2>2 DEF TypeOK, StackShape
  <2> QED
    BY <1>0, <1>1, <1>2, <2>2, <2>3, DividedKeep
<1>8. CASE Ensure \/ JoinTransaction \/ \E m \in TransactionMode : BeginTransaction(m)
  <2>1. PICK act : stack' = Append(stack, act)
    BY <1>8 DEF Ensure, JoinTransaction, BeginTransaction, Open
  <2>2. status = "running" /\ UnwindsKept /\ UNCHANGED handlers
    BY <1>0, <1>8, <2>1, PushKeepsUnwinds
       DEF Ensure, JoinTransaction, BeginTransaction, Open, chains
  <2> QED
    BY <1>5, <2>2
<1>9. CASE EndOnDo
  <2>1. status = "running" /\ UnwindsKept
    BY <1>0, <1>9, PopKeepsUnwinds DEF EndOnDo, Ends
  <2>2. Len(stack) \in DOMAIN stack /\ Top.kind \in {"onDo", "handler"}
    BY <1>0, <1>9 DEF EndOnDo, Ends, TypeOK
  <2>3. Top.previous \in 0..Len(handlers)
    <3>1. Len(stack) \in OnDos \/ Len(stack) \in HandlerBlocks
      BY <2>2 DEF OnDos, HandlerBlocks, Top
    <3>2. Top.previous \in Nat
      BY <1>0, <2>2 DEF StackShape, Top
    <3>3. Top.previous <= Len(handlers)
      BY <1>0, <3>1, <3>2 DEF IInv, HandlersLinked, HandlersShape, Top
    <3> QED
      BY <1>0, <3>2, <3>3 DEF HandlersShape
  <2>4. \A j \in DOMAIN handlers' : j \in DOMAIN handlers /\ handlers'[j] = handlers[j]
    <3>1. PICK n \in 0..Len(handlers) : handlers' = Prefix(handlers, n)
      BY <1>9, <2>3 DEF EndOnDo
    <3>2. handlers \in Seq(Nat) /\ DOMAIN handlers = 1..Len(handlers) /\ Len(handlers) \in Nat
      BY <1>0 DEF TypeOK, HandlersShape
    <3>3. DOMAIN handlers' = 1..n /\ \A j \in 1..n : handlers'[j] = handlers[j]
      BY <3>1, <3>2, PrefixFacts
    <3> QED
      BY <3>2, <3>3
  <2> QED
    BY <1>0, <1>1, <1>2, <2>1, <2>4, DividedKeep
<1>10. CASE EndPlain \/ EndReadOnly
  <2>1. status = "running" /\ UnwindsKept /\ UNCHANGED handlers
    BY <1>0, <1>10, PopKeepsUnwinds DEF EndPlain, EndReadOnly, Ends, chains
  <2> QED
    BY <1>5, <2>1
<1>11. CASE FinishCommit
  <2>1. Pop /\ txnFrame = Len(stack) /\ Len(stack) \in DOMAIN stack
    BY <1>11 DEF FinishCommit, IInv, LogInScope
  <2>2. stack # <<>> /\ Top.kind # "unwind"
    BY <2>1 DEF Top, IInv, LogInScope, TransactionMode
  <2>3. UnwindsKept /\ status = "committing" /\ UNCHANGED handlers
    BY <1>0, <1>11, <2>1, <2>2, PopKeepsUnwinds DEF FinishCommit
  <2> QED
    BY <1>5, <2>3
<1>12. CASE EndEnsure
  <2>1. PICK k \in Nat : /\ k + 1 = Len(stack) /\ DOMAIN stack = 1..(k + 1)
                         /\ Top = stack[k + 1]
    BY <1>0, <1>12, TopFacts DEF EndEnsure, Ends
  <2>2. PICK act \in Activation : stack' = Resume(k + 1, act)
    <3>1. "cleanup" \in Kind /\ stack[k + 1].logged \in BOOLEAN
      BY <1>0, <2>1 DEF Kind, StackShape
    <3>2. Activate("cleanup", NoClass, stack[k + 1].logged, 0) \in Activation
      BY <3>1, ActivateFacts
    <3> QED
      BY <1>12, <2>1, <3>2 DEF EndEnsure
  <2>3. DOMAIN stack' = 1..(k + 1) /\ \A d \in 1..((k + 1) - 1) : stack'[d] = stack[d]
    <3>1. k + 1 \in 1..Len(stack)
      BY <2>1
    <3> QED
      BY <1>0, <2>2, <3>1, ResumeFacts DEF TypeOK
  <2>4. stack[k + 1].kind = "ensure"
    BY <1>12, <2>1 DEF EndEnsure, Ends
  <2>5. UnwindsKept
    BY <2>1, <2>3, <2>4 DEF UnwindsKept
  <2> QED
    BY <1>5, <1>12, <2>5 DEF EndEnsure, Ends
<1>13. CASE \/ \E s \in Slot : Read(s)
            \/ \E s \in Slot, v \in Oop : LoggedStore(s, v) \/ DirectStore(s, v)
            \/ \E c \in ExceptionClass : Signal(c) \/ SignalUnhandled(c)
            \/ StartCommit \/ CommitEntry
  <2>1. /\ UNCHANGED <<stack, handlers>>
        /\ status \in {"running", "committing"}
    BY <1>13 DEF Read, LoggedStore, DirectStore, Signal, SignalUnhandled,
       StartCommit, CommitEntry, Ends, chains
  <2> QED
    BY <1>5, <1>6, <2>1
<1>14. CASE DurableFails \/ PropagateToNobody
  BY <1>3, <1>14 DEF DurableFails, PropagateToNobody
<1>15. CASE PropagateToEnsure
  BY <1>1, <1>15, PropagateToEnsureDivides
<1>16. CASE PropagateToTransaction
  BY <1>16, PropagateToTransactionConfines
<1>17. CASE PropagateToHandler
  BY <1>1, <1>3, <1>17, PropagateToHandlerDivides
<1>18. CASE EndUnwind
  BY <1>18, EndUnwindConfines
<1>19. CASE UNCHANGED vars
  BY <1>4, <1>19 DEF vars
<1> QED
  BY <1>7, <1>8, <1>9, <1>10, <1>11, <1>12, <1>13, <1>14, <1>15, <1>16, <1>17, <1>18,
     <1>19 DEF Next, EndBlock, propagate_signal, Stopped

\* While no ensure block is run by a signal, the chain holds exactly the
\* on:do:s whose block runs.
LEMMA AllLive ==
  ASSUME HandlerChainSound, status = "running",
         \A u \in DOMAIN stack : stack[u].kind # "unwind"
  PROVE  \A i \in DOMAIN handlers : handlers[i] \in OnDos
BY DEF HandlerChainSound, HandlersLinked, DeadHandlersConfined, Separates

\* An open on:do: is never cut off from current_exception_handler, and between
\* it and the head of the chain there are dead frames only while an ensure
\* block inside it is run by a signal, or that signal goes on after it.
THEOREM HandlerChainCorrect == Spec => []HandlerChainSound
<1>1. Init => DeadHandlersConfined
  BY DEF Init, DeadHandlersConfined
<1>2. IInv /\ IInv' /\ DeadHandlersConfined /\ [Next]_vars => DeadHandlersConfined'
  BY NextConfined
<1>3. IInv /\ DeadHandlersConfined => HandlerChainSound
  BY DEF IInv, HandlerChainSound
<1> QED
  BY <1>1, <1>2, <1>3, Invariance, PTL DEF Spec

-----------------------------------------------------------------------------
(* No ensure block is skipped. *)

EnsureSurvives ==
  \A d \in DOMAIN stack : stack[d].kind = "ensure" =>
    /\ d \in DOMAIN stack'
    /\ stack'[d].kind \in {"ensure", "cleanup", "unwind"}

\* A step that keeps every activation up to depth k, and there is no ensure:
\* activation above k + 1, nor at k + 1 unless its ensure block starts there.
LEMMA SurvivesAbove ==
  ASSUME NEW k \in Nat,
         \A d \in 1..k : d \in DOMAIN stack' /\ stack'[d] = stack[d],
         \A d \in DOMAIN stack : stack[d].kind = "ensure" =>
            \/ d \in 1..k
            \/ d \in DOMAIN stack' /\ stack'[d].kind \in {"cleanup", "unwind"}
  PROVE  EnsureSurvives
BY DEF EnsureSurvives

\* Popping an activation other than a running ensure: skips no ensure block.
LEMMA PopSurvives ==
  ASSUME TypeOK, stack # <<>>, Top.kind # "ensure", Pop PROVE EnsureSurvives
<1>1. PICK k \in Nat : /\ k = Len(stack) - 1 /\ k \in 0..Len(stack)
                       /\ DOMAIN stack = 1..(k + 1) /\ Top = stack[k + 1]
  BY TopFacts
<1>2. DOMAIN stack' = 1..k /\ \A d \in 1..k : stack'[d] = stack[d]
  BY <1>1, StackCut DEF Pop
<1>3. \A d \in DOMAIN stack : d \in 1..k \/ d = k + 1
  BY <1>1
<1> QED
  BY <1>1, <1>2, <1>3, SurvivesAbove

\* Pushing an activation skips no ensure block.
LEMMA PushSurvives ==
  ASSUME TypeOK, NEW act, stack' = Append(stack, act) PROVE EnsureSurvives
<1>1. Len(stack) \in Nat /\ DOMAIN stack = 1..Len(stack)
  BY DEF TypeOK
<1>2. DOMAIN stack' = 1..(Len(stack) + 1) /\ \A d \in 1..Len(stack) : stack'[d] = stack[d]
  BY <1>1 DEF TypeOK
<1>3. \A d \in 1..Len(stack) : d \in DOMAIN stack'
  BY <1>1, <1>2
<1> QED
  BY <1>1, <1>2, <1>3, SurvivesAbove

\* No step of the machine skips an ensure block.
LEMMA NextSurvives == ASSUME IInv, [Next]_vars PROVE EnsureSurvives \/ UNCHANGED vars
<1>0. TypeOK /\ EnsureChainSound /\ StackShape
  BY Shapes DEF IInv
<1>1. CASE UNCHANGED stack
  BY <1>1 DEF EnsureSurvives
<1>2. CASE \/ \E c \in ExceptionClass : OnDo(c)
           \/ Ensure \/ JoinTransaction \/ \E m \in TransactionMode : BeginTransaction(m)
  BY <1>0, <1>2, PushSurvives DEF OnDo, Ensure, JoinTransaction, BeginTransaction, Open
<1>3. CASE EndOnDo \/ EndPlain \/ EndUnwind \/ EndReadOnly \/ DurableFails
  <2>1. stack # <<>> /\ Top.kind # "ensure" /\ Pop
    BY <1>3 DEF EndOnDo, EndPlain, EndUnwind, EndReadOnly, DurableFails, Ends
  <2> QED
    BY <1>0, <2>1, PopSurvives
<1>4. CASE FinishCommit
  <2>1. Pop /\ txnFrame = Len(stack) /\ Len(stack) \in DOMAIN stack
    BY <1>4 DEF FinishCommit, IInv, LogInScope
  <2>2. stack # <<>> /\ Top.kind # "ensure"
    BY <2>1 DEF Top, IInv, LogInScope, TransactionMode
  <2> QED
    BY <1>0, <2>1, <2>2, PopSurvives
<1>5. CASE EndEnsure
  <2>1. PICK k \in Nat : /\ k + 1 = Len(stack) /\ k + 1 \in 1..Len(stack)
                         /\ DOMAIN stack = 1..(k + 1) /\ Top = stack[k + 1]
    <3>1. PICK k \in Nat : /\ k + 1 = Len(stack) /\ DOMAIN stack = 1..(k + 1)
                           /\ Top = stack[k + 1]
      BY <1>0, <1>5, TopFacts DEF EndEnsure, Ends
    <3> QED
      BY <3>1
  <2>2. PICK act \in Activation : act.kind = "cleanup" /\ stack' = Resume(k + 1, act)
    <3>1. "cleanup" \in Kind /\ stack[k + 1].logged \in BOOLEAN
      BY <1>0, <2>1 DEF Kind, StackShape
    <3>2. PICK act \in Activation :
            /\ act = Activate("cleanup", NoClass, stack[k + 1].logged, 0)
            /\ act.kind = "cleanup"
      BY <3>1, ActivateFacts
    <3> QED
      BY <1>5, <2>1, <3>2 DEF EndEnsure
  <2>3. /\ DOMAIN stack' = 1..(k + 1) /\ stack'[k + 1] = act
        /\ \A d \in 1..((k + 1) - 1) : stack'[d] = stack[d]
    BY <1>0, <2>1, <2>2, ResumeFacts DEF TypeOK
  <2>4. \A d \in DOMAIN stack : d \in 1..k \/ d = k + 1
    BY <2>1
  <2>5. \A d \in 1..k : d \in DOMAIN stack' /\ stack'[d] = stack[d]
    BY <2>3
  <2>6. k + 1 \in DOMAIN stack'
    BY <2>3
  <2> QED
    BY <2>2, <2>3, <2>4, <2>5, <2>6, SurvivesAbove
<1>6. ASSUME status = "signaling", ensures # <<>>
      PROVE  \E k \in Nat : /\ k = InnermostEnsure - 1 /\ k + 1 = InnermostEnsure
                            /\ k + 1 \in 1..Len(stack) /\ k \in 0..Len(stack)
                            /\ \A d \in DOMAIN stack : stack[d].kind = "ensure" =>
                                 d \in 1..k \/ d = k + 1
  <2>1. InnermostEnsure \in 1..Len(stack) /\ \A d \in Waiting : d <= InnermostEnsure
    BY <1>0, <1>6, Innermost
  <2>2. PICK k \in Nat : k = InnermostEnsure - 1 /\ k + 1 = InnermostEnsure
    <3>1. InnermostEnsure - 1 \in Nat /\ InnermostEnsure - 1 + 1 = InnermostEnsure
      BY <2>1
    <3> QED
      BY <3>1, Zenon
  <2>3. \A d \in DOMAIN stack : stack[d].kind = "ensure" => d \in Waiting
    BY <1>6 DEF Waiting, Catching
  <2>4. \A d \in DOMAIN stack : d \in 1..Len(stack)
    BY <1>0 DEF StackShape
  <2>5. \A d \in DOMAIN stack : stack[d].kind = "ensure" => d \in 1..k \/ d = k + 1
    BY <2>1, <2>2, <2>3, <2>4
  <2>6. k + 1 \in 1..Len(stack) /\ k \in 0..Len(stack)
    BY <1>0, <2>1, <2>2 DEF StackShape
  <2> QED
    BY <2>2, <2>5, <2>6
<1>7. CASE PropagateToEnsure
  <2>1. PICK k \in Nat : /\ k + 1 = InnermostEnsure /\ k + 1 \in 1..Len(stack)
                         /\ \A d \in DOMAIN stack : stack[d].kind = "ensure" =>
                              d \in 1..k \/ d = k + 1
    BY <1>6, <1>7 DEF PropagateToEnsure
  <2>2. PICK act \in Activation : act.kind = "unwind" /\ stack' = Resume(k + 1, act)
    <3>1. /\ "unwind" \in Kind /\ stack[k + 1].logged \in BOOLEAN
          /\ signal \in ExceptionClass \cup {NoClass}
      BY <1>0, <2>1 DEF Kind, StackShape, TypeOK
    <3>2. PICK act \in Activation :
            /\ act = Activate("unwind", signal, stack[k + 1].logged, 0)
            /\ act.kind = "unwind"
      BY <3>1, ActivateFacts
    <3> QED
      BY <1>7, <2>1, <3>2 DEF PropagateToEnsure
  <2>3. /\ DOMAIN stack' = 1..(k + 1) /\ stack'[k + 1] = act
        /\ \A d \in 1..((k + 1) - 1) : stack'[d] = stack[d]
    BY <1>0, <2>1, <2>2, ResumeFacts DEF TypeOK
  <2>4. \A d \in 1..k : d \in DOMAIN stack' /\ stack'[d] = stack[d]
    BY <2>3
  <2>5. k + 1 \in DOMAIN stack'
    BY <2>3
  <2> QED
    BY <2>1, <2>2, <2>3, <2>4, <2>5, SurvivesAbove
<1>8. CASE PropagateToTransaction
  <2>1. PICK k \in Nat : /\ k = InnermostEnsure - 1 /\ k + 1 = InnermostEnsure
                         /\ k \in 0..Len(stack)
                         /\ \A d \in DOMAIN stack : stack[d].kind = "ensure" =>
                              d \in 1..k \/ d = k + 1
    BY <1>6, <1>8 DEF PropagateToTransaction
  <2>2. stack' = Prefix(stack, k) /\ stack[k + 1].kind # "ensure"
    BY <1>8, <2>1 DEF PropagateToTransaction, TransactionMode
  <2>3. DOMAIN stack' = 1..k /\ \A d \in 1..k : stack'[d] = stack[d]
    BY <1>0, <2>1, <2>2, StackCut
  <2> QED
    BY <2>1, <2>2, <2>3, SurvivesAbove
<1>9. CASE PropagateToHandler
  <2>1. \A d \in DOMAIN stack : stack[d].kind # "ensure"
    BY <1>9, NothingWaits DEF PropagateToHandler, Catchers, Catching
  <2> QED
    BY <2>1 DEF EnsureSurvives
<1>10. CASE PropagateToNobody
  BY <1>10, <1>1 DEF PropagateToNobody
<1>11. CASE \/ \E s \in Slot : Read(s)
            \/ \E s \in Slot, v \in Oop : LoggedStore(s, v) \/ DirectStore(s, v)
            \/ \E c \in ExceptionClass : Signal(c) \/ SignalUnhandled(c)
            \/ StartCommit \/ CommitEntry
  BY <1>11, <1>1 DEF Read, LoggedStore, DirectStore, Signal, SignalUnhandled,
     StartCommit, CommitEntry
<1>12. CASE UNCHANGED vars
  BY <1>12
<1> QED
  BY <1>2, <1>3, <1>4, <1>5, <1>7, <1>8, <1>9, <1>10, <1>11, <1>12
     DEF Next, EndBlock, propagate_signal, Stopped

\* An ensure: activation never disappears without its ensure block starting.
THEOREM EnsureAlwaysRuns == Spec => EnsureNeverSkipped
<1>1. IInv /\ [Next]_vars => [EnsureSurvives]_vars
  BY NextSurvives
<1>2. EnsureNeverSkipped <=> [][EnsureSurvives]_vars
  BY PTL DEF EnsureNeverSkipped, EnsureSurvives
<1> QED
  BY <1>1, <1>2, Invariance, PTL DEF Spec

-----------------------------------------------------------------------------
(* ProtectedBlocks implements AtomicStore: what the interpreter does with    *)
(* logs, joins, aborts and the install loop is, to the running program, an   *)
(* all-or-nothing overlay on the store.                                      *)


-----------------------------------------------------------------------------
(* The instance's copies of the operators of TxnLog. *)

\* The two modules mean the same by a slot, a stored value and a fetched one.
LEMMA SameOperators ==
  /\ AS!Slot = Slot
  /\ AS!Byte = Byte
  /\ AS!Heap = Heap
  /\ \A h, s : AS!Fetched(h, s) = Fetched(h, s)
  /\ \A s, v : AS!Stored(s, v) = Stored(s, v)
  /\ \A v : AS!is_smallint_value(v) = is_smallint_value(v)
  /\ \A v : AS!untag_smallint(v) = untag_smallint(v)
<1>1. AS!Slot = Slot /\ AS!Byte = Byte
  BY DEF AS!Slot, Slot, AS!Byte, Byte
<1>2. AS!Heap = Heap
  BY <1>1, Zenon DEF AS!Heap, Heap
<1>3. /\ \A v : AS!untag_smallint(v) = untag_smallint(v)
      /\ \A v : AS!tag_smallint(v) = tag_smallint(v)
      /\ \A v : AS!is_smallint_value(v) = is_smallint_value(v)
  BY Zenon DEF AS!untag_smallint, untag_smallint, AS!tag_smallint, tag_smallint,
     AS!is_smallint_value, is_smallint_value, AS!TAG_SMALLINT, TAG_SMALLINT,
     AS!Tag, Tag
<1>4. \A s, v : AS!Stored(s, v) = Stored(s, v)
  BY <1>3, Zenon DEF AS!Stored, Stored
<1>5. \A h, s : AS!Fetched(h, s) = Fetched(h, s)
  BY <1>3, Zenon DEF AS!Fetched, Fetched
<1> QED
  BY <1>1, <1>2, <1>3, <1>4, <1>5

-----------------------------------------------------------------------------
(* The overlay the log stands for. *)

\* There is one youngest triple, so the backward scan answers it.
LEMMA YoungestIsRead ==
  ASSUME NEW l \in Seq(Entry), NEW s, NEW i \in DOMAIN l, l[i].slot = s,
         \A j \in DOMAIN l : j > i => l[j].slot # s
  PROVE  txn_log_found(l, s) /\ txn_log_read(l, s) = l[i].value
<1>1. \A j \in DOMAIN l : j \in Nat
  OBVIOUS
<1> DEFINE P(k) == l[k].slot = s /\ \A j \in DOMAIN l : j > k => l[j].slot # s
<1>2. P(i)
  OBVIOUS
<1>3. \A k \in DOMAIN l : P(k) => k = i
  BY <1>1
<1>4. (CHOOSE k \in DOMAIN l : P(k)) = i
  BY <1>2, <1>3
<1> QED
  BY <1>4 DEF txn_log_read, txn_log_found

\* The overlay slot by slot.
LEMMA OverlaySlot ==
  ASSUME TypeOK, YoungestExists, NEW s \in Slot
  PROVE  IF txn_log_found(log, s)
         THEN Overlay[s] = txn_log_read(log, s) /\ Overlay[s] \in Oop /\ Overlay[s] # Absent
         ELSE Overlay[s] = Absent
<1>1. CASE txn_log_found(log, s)
  <2>1. LogShape
    BY Shapes
  <2>2. PICK i \in DOMAIN log : txn_log_read(log, s) = log[i].value
    BY <1>1, ReadYoungest
  <2>3. txn_log_read(log, s) \in Oop
    BY <2>1, <2>2 DEF LogShape
  <2> QED
    BY <1>1, <2>3, AbsentAssumption DEF Overlay
<1>2. CASE ~txn_log_found(log, s)
  BY <1>2 DEF Overlay
<1> QED
  BY <1>1, <1>2

\* An empty log is an empty overlay.
LEMMA EmptyOverlay == ASSUME log = <<>> PROVE Overlay = AS!NoWrites
BY SameOperators DEF Overlay, AS!NoWrites, txn_log_found

\* The same in the next state.
LEMMA EmptyOverlayNext == ASSUME log' = <<>> PROVE Overlay' = AS!NoWrites
BY SameOperators DEF Overlay, AS!NoWrites, txn_log_found

\* A logged store updates one slot of the overlay.
LEMMA OverlayStore ==
  ASSUME TypeOK, YoungestExists, TypeOK', NEW s \in Slot, NEW v \in Oop,
         log' = txn_log_write(log, s, v)
  PROVE  Overlay' = [Overlay EXCEPT ![s] = v]
<1>0. LogShape
  BY Shapes
<1>1. PICK e \in Entry : e = [slot |-> s, value |-> v] /\ e.slot = s /\ e.value = v
  <2>1. /\ [slot |-> s, value |-> v] \in Entry
        /\ [slot |-> s, value |-> v].slot = s /\ [slot |-> s, value |-> v].value = v
    BY DEF Entry
  <2> QED
    BY <2>1, Zenon
<1>2. PICK n \in Nat : n = Len(log) /\ DOMAIN log = 1..n
  BY <1>0 DEF LogShape
<1>3. /\ DOMAIN log' = 1..(n + 1)
      /\ \A i \in 1..n : log'[i] = log[i]
      /\ log'[n + 1] = e
  <2>1. log \in Seq(Entry) /\ log' = Append(log, e)
    BY <1>1 DEF TypeOK, txn_log_write
  <2> QED
    BY <1>2, <2>1, AppendProperties
<1>4. \A j \in DOMAIN log' : j \in 1..n \/ j = n + 1
  BY <1>3
<1>5. log' \in Seq(Entry)
  BY DEF TypeOK
<1>6. ASSUME NEW u \in Slot PROVE Overlay'[u] = IF u = s THEN v ELSE Overlay[u]
  <2>1. CASE u = s
    <3>1. n + 1 \in DOMAIN log' /\ \A j \in DOMAIN log' : ~(j > n + 1)
      BY <1>3
    <3>2. /\ log'[n + 1].slot = u /\ log'[n + 1].value = v
          /\ \A j \in DOMAIN log' : j > n + 1 => log'[j].slot # u
      BY <1>1, <1>3, <2>1, <3>1
    <3>3. txn_log_found(log', u) /\ txn_log_read(log', u) = log'[n + 1].value
      BY <1>5, <3>1, <3>2, YoungestIsRead
    <3>4. txn_log_found(log', u) /\ txn_log_read(log', u) = v
      BY <3>2, <3>3
    <3> QED
      BY <2>1, <3>4 DEF Overlay
  <2>2. CASE u # s /\ ~txn_log_found(log, u)
    <3>1. ~txn_log_found(log', u)
      BY <1>1, <1>2, <1>3, <1>4, <2>2 DEF txn_log_found
    <3> QED
      BY <2>2, <3>1 DEF Overlay
  <2>3. CASE u # s /\ txn_log_found(log, u)
    <3>1. PICK i \in DOMAIN log : /\ log[i].slot = u
                                  /\ \A j \in DOMAIN log : j > i => log[j].slot # u
                                  /\ txn_log_read(log, u) = log[i].value
      BY <2>3, ReadYoungest
    <3>2. i \in DOMAIN log' /\ log'[i] = log[i]
      BY <1>2, <1>3
    <3>3. \A j \in DOMAIN log' : j > i => log'[j].slot # u
      BY <1>1, <1>2, <1>3, <1>4, <2>3, <3>1
    <3>4. txn_log_found(log', u) /\ txn_log_read(log', u) = log'[i].value
      BY <1>5, <3>1, <3>2, <3>3, YoungestIsRead
    <3> QED
      BY <2>3, <3>1, <3>2, <3>4 DEF Overlay
  <2> QED
    BY <2>1, <2>2, <2>3
<1>7. /\ Overlay = [u \in Slot |-> Overlay[u]]
      /\ Overlay' = [u \in Slot |-> Overlay'[u]]
  BY Zenon DEF Overlay
<1> QED
  BY <1>6, <1>7

\* A commit that has installed every triple has installed the overlay.
LEMMA CommitInstallsOverlay ==
  ASSUME TypeOK, YoungestExists, InstalledPrefix, installed = Len(log)
  PROVE  heap = [s \in Slot |-> IF Overlay[s] = Absent THEN committed[s]
                                ELSE Stored(s, Overlay[s])]
<1>0. LogShape
  BY Shapes
<1>1. PICK n \in Nat : n = installed /\ DOMAIN log = 1..n
  BY <1>0 DEF LogShape
<1>2. ASSUME NEW s \in Slot
      PROVE  heap[s] = IF Overlay[s] = Absent THEN committed[s] ELSE Stored(s, Overlay[s])
  <2>1. CASE (\A i \in 1..n : log[i].slot # s) /\ heap[s] = committed[s]
    <3>1. ~txn_log_found(log, s)
      BY <1>1, <2>1 DEF txn_log_found
    <3> QED
      BY <2>1, <3>1, OverlaySlot
  <2>2. CASE \E i \in 1..n : /\ log[i].slot = s
                             /\ \A j \in (i + 1)..n : log[j].slot # s
                             /\ heap[s] = Stored(s, log[i].value)
    <3>1. PICK i \in 1..n : /\ log[i].slot = s
                            /\ \A j \in (i + 1)..n : log[j].slot # s
                            /\ heap[s] = Stored(s, log[i].value)
      BY <2>2
    <3>2. \A j \in DOMAIN log : j > i => j \in (i + 1)..n
      BY <1>1
    <3>3. log \in Seq(Entry) /\ i \in DOMAIN log
          /\ \A j \in DOMAIN log : j > i => log[j].slot # s
      BY <1>1, <3>1, <3>2 DEF TypeOK
    <3>4. txn_log_found(log, s) /\ txn_log_read(log, s) = log[i].value
      BY <3>1, <3>3, YoungestIsRead
    <3> QED
      BY <3>1, <3>4, OverlaySlot
  <2> QED
    BY <1>1, <2>1, <2>2 DEF InstalledPrefix
<1>3. heap = [s \in Slot |-> heap[s]]
  BY DEF TypeOK, Heap
<1> QED
  BY <1>2, <1>3

-----------------------------------------------------------------------------
(* Steps. *)

Stutter == UNCHANGED <<committed, Overlay, OpenMode, answer>>

\* Steps of the control: the memory and the open transaction are as they were.
LEMMA ControlStutters ==
  ASSUME UNCHANGED <<committed, log, answer, txnFrame>>,
         txnFrame # 0 => stack'[txnFrame].kind = stack[txnFrame].kind
  PROVE  Stutter
<1>1. OpenMode' = OpenMode
  BY DEF OpenMode
<1>2. Overlay' = Overlay
  BY DEF Overlay
<1> QED
  BY <1>1, <1>2 DEF Stutter

\* Opening a block that is not a new transaction.
LEMMA PushStutters ==
  ASSUME IInv, NEW act, stack' = Append(stack, act),
         UNCHANGED <<committed, log, answer, txnFrame>>
  PROVE  Stutter
<1>1. txnFrame # 0 => txnFrame \in DOMAIN stack
  BY DEF IInv, LogInScope
<1>2. \A d \in DOMAIN stack : stack'[d] = stack[d]
  BY DEF IInv, TypeOK
<1> QED
  BY <1>1, <1>2, ControlStutters

\* A step that keeps the stack up to depth k, the transaction being there.
LEMMA KeepStutters ==
  ASSUME NEW k, \A d \in 1..k : stack'[d] = stack[d],
         txnFrame # 0 => txnFrame \in 1..k,
         UNCHANGED <<committed, log, answer, txnFrame>>
  PROVE  Stutter
BY ControlStutters

\* A block that is not a transaction's own ends, or is replaced, on top of the stack.
LEMMA TopStutters ==
  ASSUME IInv, stack # <<>>, Top.kind \notin TransactionMode,
         Pop \/ \E act \in Activation : stack' = Resume(Len(stack), act),
         UNCHANGED <<committed, log, answer, txnFrame>>
  PROVE  Stutter
<1>0. TypeOK /\ LogInScope
  BY DEF IInv
<1>1. PICK k \in Nat : /\ k = Len(stack) - 1 /\ k + 1 = Len(stack) /\ k \in 0..Len(stack)
                       /\ DOMAIN stack = 1..(k + 1) /\ Top = stack[k + 1]
  BY <1>0, TopFacts
<1>2. \A d \in 1..k : stack'[d] = stack[d]
  <2>1. CASE Pop
    BY <1>0, <1>1, <2>1, StackCut DEF Pop
  <2>2. CASE \E act \in Activation : stack' = Resume(Len(stack), act)
    <3>1. PICK act \in Activation : stack' = Resume(Len(stack), act)
      BY <2>2
    <3>2. stack' = Append(Prefix(stack, k), act)
      BY <1>1, <3>1 DEF Resume, Prefix
    <3> QED
      BY <1>0, <1>1, <3>2, StackGraft
  <2> QED
    BY <2>1, <2>2
<1>3. txnFrame # k + 1
  BY <1>0, <1>1 DEF LogInScope
<1>4. txnFrame # 0 => txnFrame \in 1..k
  BY <1>0, <1>1, <1>3 DEF LogInScope
<1> QED
  BY <1>2, <1>4, KeepStutters

\* The transaction that LogInScope puts at txnFrame is the mode of the store.
LEMMA ModeFacts ==
  ASSUME TypeOK, LogInScope
  PROVE  /\ txnFrame = 0 <=> OpenMode = "none"
         /\ txnFrame # 0 => OpenMode = stack[txnFrame].kind /\ OpenMode \in TransactionMode
BY DEF LogInScope, OpenMode, TransactionMode

\* A read answers what the abstract store reads.
LEMMA ReadRefines ==
  ASSUME IInv, NEW s \in Slot, Read(s) PROVE AS!ARead(s)
<1>0. /\ TypeOK /\ LogInScope /\ YoungestExists /\ InstalledPrefix
      /\ status = "running" /\ answer' = ValueRead(s)
      /\ UNCHANGED <<heap, log, committed, stack, chains>>
  BY DEF IInv, Read
<1>1. heap = committed
  BY <1>0, HeapCommitted
<1>2. txn_log_found(log, s) => Logged
  BY <1>0, LoggedFacts DEF LogInScope, txn_log_found
<1>3. answer' = IF Overlay[s] = Absent THEN Fetched(committed, s) ELSE Overlay[s]
  BY <1>0, <1>1, <1>2, OverlaySlot DEF ValueRead
<1>4. UNCHANGED <<committed, Overlay, OpenMode>>
  BY <1>0 DEF Overlay, OpenMode, chains
<1> QED
  BY <1>3, <1>4, SameOperators DEF AS!ARead

\* A store inside a transaction is an abstract pending write.
LEMMA LoggedStoreRefines ==
  ASSUME IInv, NEW s \in Slot, NEW v \in Oop, LoggedStore(s, v)
  PROVE  AS!AWrite(s, v) \/ Stutter
<1>0. /\ TypeOK /\ LogInScope /\ YoungestExists /\ Logged
      /\ UNCHANGED <<answer, committed, stack, chains>>
  BY DEF IInv, LoggedStore
<1>1. CASE UNCHANGED log
  BY <1>0, <1>1, ControlStutters DEF chains
<1>2. CASE log' = txn_log_write(log, s, v)
  <2>1. TypeOK'
    BY LoggedStoreIInv DEF IInv
  <2>2. Overlay' = [Overlay EXCEPT ![s] = v]
    BY <1>0, <1>2, <2>1, OverlayStore
  <2>3. OpenMode # "none"
    BY <1>0, LoggedFacts, ModeFacts
  <2>4. OpenMode' = OpenMode
    BY <1>0 DEF OpenMode, chains
  <2> QED
    BY <1>0, <2>2, <2>3, <2>4 DEF AS!AWrite
<1> QED
  BY <1>1, <1>2 DEF LoggedStore

\* A store outside a transaction is an abstract store.
LEMMA DirectStoreRefines ==
  ASSUME IInv, NEW s \in Slot, NEW v \in Oop, DirectStore(s, v)
  PROVE  AS!AWriteThrough(s, v)
<1>0. /\ TypeOK /\ LogInScope /\ InstalledPrefix /\ ~Logged /\ status = "running"
      /\ s \in ByteSlot => is_smallint_value(v) /\ untag_smallint(v) \in Byte
      /\ committed' = [heap EXCEPT ![s] = Stored(s, v)]
      /\ UNCHANGED <<answer, log, stack, chains>>
  BY DEF IInv, DirectStore
<1>1. heap = committed
  BY <1>0, HeapCommitted
<1>2. OpenMode = "none"
  BY <1>0, LoggedFacts, ModeFacts
<1>3. UNCHANGED <<Overlay, OpenMode, answer>>
  BY <1>0 DEF Overlay, OpenMode, chains
<1> QED
  BY <1>0, <1>1, <1>2, <1>3, SameOperators DEF AS!AWriteThrough

\* An outermost transaction opens an abstract one.
LEMMA BeginRefines ==
  ASSUME IInv, NEW m \in TransactionMode, BeginTransaction(m) PROVE AS!ABegin
<1>0. /\ TypeOK /\ LogInScope /\ txnFrame = 0 /\ log = <<>> /\ log' = <<>>
      /\ txnFrame' = Len(stack) + 1 /\ UNCHANGED <<answer, committed>>
      /\ stack' = Append(stack, Activate(m, NoClass, TRUE, Len(ensures)))
  BY DEF IInv, BeginTransaction, Open, LogInScope
<1>1. stack'[Len(stack) + 1] = Activate(m, NoClass, TRUE, Len(ensures))
      /\ Len(stack) + 1 # 0
  <2>1. stack \in Seq(Activation) /\ Len(stack) \in Nat
    BY <1>0 DEF TypeOK
  <2>2. \A x : Append(stack, x)[Len(stack) + 1] = x
    BY <2>1
  <2>3. stack'[Len(stack) + 1] = Activate(m, NoClass, TRUE, Len(ensures))
    BY <1>0, <2>2, Zenon
  <2>4. Len(stack) + 1 # 0
    BY <2>1
  <2> QED
    BY <2>3, <2>4
<1>2. OpenMode = "none" /\ OpenMode' = m
  BY <1>0, <1>1 DEF OpenMode, Activate
<1>3. Overlay' = Overlay
  BY <1>0 DEF Overlay
<1> QED
  BY <1>0, <1>2, <1>3 DEF AS!ABegin, AS!Mode, TransactionMode

\* Closing a transaction without installing is an abstract abort.
LEMMA AbortRefines ==
  ASSUME IInv, status # "committing", txnFrame # 0, txn_abort PROVE AS!ADiscard
<1>1. OpenMode # "none" /\ OpenMode' = "none"
  BY ModeFacts DEF IInv, txn_abort, OpenMode
<1>2. Overlay' = AS!NoWrites
  BY EmptyOverlayNext DEF txn_abort
<1> QED
  BY <1>1, <1>2 DEF AS!ADiscard, txn_abort

\* The end of the install loop is the abstract commit.
LEMMA FinishCommitRefines ==
  ASSUME IInv, FinishCommit PROVE AS!ACommit
<1>0. /\ TypeOK /\ LogInScope /\ YoungestExists /\ InstalledPrefix
      /\ status = "committing" /\ installed = Len(log) /\ log' = <<>>
      /\ committed' = heap /\ txnFrame' = 0 /\ UNCHANGED answer
  BY DEF IInv, FinishCommit
<1>1. OpenMode \in {"atomic", "durable"}
  <2>1. txnFrame # 0 /\ txnFrame = Len(stack) /\ Top.kind # "readOnly"
    BY <1>0 DEF LogInScope
  <2>2. OpenMode = Top.kind /\ OpenMode \in TransactionMode
    BY <1>0, <2>1, ModeFacts DEF Top
  <2> QED
    BY <2>1, <2>2 DEF TransactionMode
<1>2. OpenMode' = "none"
  BY <1>0 DEF OpenMode
<1>3. committed' = [s \in Slot |-> IF Overlay[s] = Absent THEN committed[s]
                                   ELSE Stored(s, Overlay[s])]
  BY <1>0, CommitInstallsOverlay
<1>4. Overlay' = AS!NoWrites
  BY <1>0, EmptyOverlayNext
<1> QED
  BY <1>0, <1>1, <1>2, <1>3, <1>4, SameOperators, Zenon DEF AS!ACommit

\* Every step is an abstract step or a stutter.
LEMMA NextRefines == ASSUME IInv, [Next]_vars PROVE AS!ANext \/ Stutter
<1>0. TypeOK /\ LogInScope /\ EnsureChainSound
  BY DEF IInv
<1>1. CASE \E s \in Slot : Read(s)
  BY <1>1, ReadRefines, SameOperators DEF AS!ANext
<1>2. CASE \E s \in Slot, v \in Oop : LoggedStore(s, v) \/ DirectStore(s, v)
  BY <1>2, LoggedStoreRefines, DirectStoreRefines, SameOperators DEF AS!ANext
<1>3. CASE \/ \E c \in ExceptionClass : OnDo(c)
           \/ Ensure \/ JoinTransaction
  BY <1>3, PushStutters DEF OnDo, Ensure, JoinTransaction, Open, memory, chains
<1>4. CASE \E m \in TransactionMode : BeginTransaction(m)
  BY <1>4, BeginRefines DEF AS!ANext
<1>5. CASE EndOnDo \/ EndPlain \/ EndUnwind
  <2>1. stack # <<>> /\ Top.kind \notin TransactionMode /\ Pop
    BY <1>5 DEF EndOnDo, EndPlain, EndUnwind, Ends, TransactionMode
  <2>2. UNCHANGED <<committed, log, answer, txnFrame>>
    BY <1>5 DEF EndOnDo, EndPlain, EndUnwind, memory, chains
  <2> QED
    BY <2>1, <2>2, TopStutters
<1>6. CASE EndEnsure
  <2>1. stack # <<>> /\ Top.kind \notin TransactionMode
    BY <1>6 DEF EndEnsure, Ends, TransactionMode
  <2>2. UNCHANGED <<committed, log, answer, txnFrame>>
    BY <1>6 DEF EndEnsure, memory
  <2>3. \E act \in Activation : stack' = Resume(Len(stack), act)
    <3>1. "cleanup" \in Kind /\ Top.logged \in BOOLEAN
      <4>1. StackShape /\ Len(stack) \in 1..Len(stack)
        BY <1>0, <2>1, Shapes DEF TypeOK
      <4> QED
        BY <4>1 DEF Kind, Top, StackShape
    <3>2. Activate("cleanup", NoClass, Top.logged, 0) \in Activation
      BY <3>1, ActivateFacts
    <3> QED
      BY <1>6, <3>2 DEF EndEnsure
  <2> QED
    BY <2>1, <2>2, <2>3, TopStutters
<1>7. CASE EndReadOnly \/ DurableFails
  <2>1. status = "running" /\ txn_abort /\ stack # <<>> /\ Top.kind \in TransactionMode
    BY <1>7 DEF EndReadOnly, DurableFails, Ends, TransactionMode
  <2>2. Len(stack) \in DOMAIN stack /\ Len(stack) # 0
    BY <1>0, <2>1 DEF TypeOK
  <2>3. txnFrame # 0
    BY <1>0, <2>1, <2>2 DEF LogInScope, Top
  <2> QED
    BY <2>1, <2>3, AbortRefines DEF AS!ANext
<1>8. CASE PropagateToTransaction
  <2>1. /\ status = "signaling" /\ ensures # <<>> /\ txn_abort
        /\ stack[InnermostEnsure].kind \in TransactionMode
    BY <1>8 DEF PropagateToTransaction
  <2>2. InnermostEnsure \in DOMAIN stack /\ InnermostEnsure # 0
    BY <1>0, <2>1, Innermost, Shapes DEF StackShape
  <2>3. txnFrame # 0
    BY <1>0, <2>1, <2>2 DEF LogInScope
  <2> QED
    BY <2>1, <2>3, AbortRefines DEF AS!ANext
<1>9. CASE FinishCommit
  BY <1>9, FinishCommitRefines DEF AS!ANext
<1>10. CASE PropagateToEnsure
  <2>1. /\ status = "signaling" /\ ensures # <<>>
        /\ stack[InnermostEnsure].kind = "ensure"
        /\ UNCHANGED <<committed, log, answer, txnFrame>>
    BY <1>10 DEF PropagateToEnsure, memory
  <2>2. /\ InnermostEnsure \in 1..Len(stack) /\ StackShape
        /\ \A d \in Waiting : d <= InnermostEnsure
    BY <1>0, <2>1, Innermost, Shapes
  <2>3. PICK k \in Nat : k = InnermostEnsure - 1 /\ k + 1 = InnermostEnsure
    <3>1. InnermostEnsure - 1 \in Nat /\ InnermostEnsure - 1 + 1 = InnermostEnsure
      BY <2>2
    <3> QED
      BY <3>1, Zenon
  <2>4. txnFrame # 0 => txnFrame \in Waiting /\ txnFrame \in 1..Len(stack)
    BY <1>0, <2>1, <2>2 DEF LogInScope, Waiting, Catching, StackShape
  <2>5. txnFrame # InnermostEnsure
    BY <1>0, <2>1, <2>2 DEF LogInScope, TransactionMode, StackShape
  <2>6. txnFrame # 0 => txnFrame \in 1..k
    BY <2>2, <2>3, <2>4, <2>5
  <2>7. PICK act \in Activation : stack' = Resume(k + 1, act)
    <3>1. /\ "unwind" \in Kind /\ stack[k + 1].logged \in BOOLEAN
          /\ signal \in ExceptionClass \cup {NoClass}
      BY <1>0, <2>2, <2>3 DEF Kind, StackShape, TypeOK
    <3>2. Activate("unwind", signal, stack[k + 1].logged, 0) \in Activation
      BY <3>1, ActivateFacts
    <3> QED
      BY <1>10, <2>3, <3>2 DEF PropagateToEnsure
  <2>8. \A d \in 1..((k + 1) - 1) : stack'[d] = stack[d]
    BY <1>0, <2>2, <2>3, <2>7, ResumeFacts DEF TypeOK
  <2>9. \A d \in 1..k : stack'[d] = stack[d]
    BY <2>8
  <2> QED
    BY <2>1, <2>6, <2>9, KeepStutters
<1>11. CASE PropagateToHandler
  <2>1. txnFrame = 0 /\ UNCHANGED <<committed, log, answer, txnFrame>>
    BY <1>11, NothingWaits DEF PropagateToHandler, memory
  <2> QED
    BY <2>1, ControlStutters
<1>12. CASE \/ \E c \in ExceptionClass : Signal(c) \/ SignalUnhandled(c)
            \/ PropagateToNobody
  <2>1. UNCHANGED <<committed, log, answer, txnFrame, stack>>
    BY <1>12 DEF Signal, SignalUnhandled, PropagateToNobody, memory, chains
  <2> QED
    BY <2>1, ControlStutters
<1>13. CASE StartCommit \/ CommitEntry
  <2>1. UNCHANGED <<committed, log, answer, txnFrame, stack>>
    BY <1>13 DEF StartCommit, CommitEntry, chains
  <2> QED
    BY <2>1, ControlStutters
<1>14. CASE UNCHANGED vars
  BY <1>14, ControlStutters DEF vars
<1> QED
  BY <1>1, <1>2, <1>3, <1>4, <1>5, <1>6, <1>7, <1>8, <1>9, <1>10, <1>11, <1>12,
     <1>13, <1>14 DEF Next, EndBlock, propagate_signal, Stopped

\* Transactions are atomic: the interpreter, with its log, its longjmps and its
\* install loop, implements the all-or-nothing store.
THEOREM TransactionsAreAtomic == Spec => RefinesAtomicStore
<1>1. Init => AS!AInit
  <2>1. ASSUME Init
        PROVE  committed \in Heap /\ log = <<>> /\ OpenMode = "none" /\ answer = TAGGED_NIL
    BY <2>1, InitialHeapAssumption DEF Init, OpenMode
  <2> QED
    BY <2>1, EmptyOverlay, SameOperators DEF AS!AInit, AS!TAGGED_NIL, TAGGED_NIL,
       AS!TAG_OBJECT, TAG_OBJECT
<1>2. IInv /\ [Next]_vars => [AS!ANext]_<<committed, Overlay, OpenMode, answer>>
  BY NextRefines DEF Stutter
<1>3. RefinesAtomicStore <=>
        AS!AInit /\ [][AS!ANext]_<<committed, Overlay, OpenMode, answer>>
  BY PTL DEF RefinesAtomicStore, AS!ASpec, AS!avars
<1> QED
  BY <1>1, <1>2, <1>3, Invariance, PTL DEF Spec

=============================================================================
